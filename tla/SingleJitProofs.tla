--------------------------- MODULE SingleJitProofs ---------------------------
(***************************************************************************)
(* The limits on requests that translate: Eval.JitThreads, which the       *)
(* leases enforce themselves, and those of the warm-up, which              *)
(* profileRequestStart() and profileRequestEnd() are for.  Requests under  *)
(* type-profile.cpp use the leases as WriteLease says, so what is proved   *)
(* of the leases holds for them.                                           *)
(***************************************************************************)
EXTENDS SingleJitRequests, WriteLeaseProofs, FiniteSetTheorems

USE Constants, LeaseNull, SMTT(15), ZenonT(15)

-----------------------------------------------------------------------------
(* The limit on translating threads: s_jittingThreads counts the holders   *)
(* that added themselves, and of these Eval.JitThreads get further than    *)
(* the second test.                                                        *)

\* The holders that count, and those among them that passed the second test: a
\* holder that failed it counts as well until it drops its locks.
Slots == {x \in Live : H(x).m_acquiredThread}
Passed(x) == H(x).m_level # "None" \/ (x[2] = Len(holders[x[1]]) /\ pc[x[1]] = "cas")
Granted == {x \in Slots : Passed(x)}

LimitInv ==
  /\ IsFiniteSet(Slots)
  /\ s_jittingThreads = Cardinality(Slots)
  /\ Cardinality(Granted) <= EvalJitThreads

LEMMA LiveIs ==
  /\ \A t \in Threads : \A i : <<t, i>> \in Live <=> i \in 1..Len(holders[t])
  /\ \A x \in Live : x = <<x[1], x[2]>> /\ x[1] \in Threads /\ x[2] \in 1..Len(holders[x[1]])
BY DEF Live

\* A thread goes to p with h as its last holder.
LEMMA TopSlots ==
  ASSUME IInv, NEW t \in Threads, holders[t] # <<>>, NEW h \in Holder, NEW p,
         SetTop(t, h), Goto(t, p), NEW y, y = <<t, Len(holders[t])>>
  PROVE  /\ y \in Slots <=> Top(t).m_acquiredThread
         /\ Slots' = IF h.m_acquiredThread THEN Slots \cup {y} ELSE Slots \ {y}
         /\ y \in Granted <=> y \in Slots /\ (Top(t).m_level # "None" \/ pc[t] = "cas")
         /\ Granted' = IF h.m_acquiredThread /\ (h.m_level # "None" \/ p = "cas")
                       THEN Granted \cup {y} ELSE Granted \ {y}
<1> DEFINE n == Len(holders[t])
<1>1. holders \in [Threads -> Seq(Holder)] /\ pc \in [Threads -> Labels]
  BY Zenon DEF IInv, Types
<1>2. holders' = [holders EXCEPT ![t] = Replaced(holders[t], h)]
  BY <1>1, Zenon DEF SetTop, Replaced
<1>3. /\ n \in 1..n /\ Len(holders'[t]) = n /\ holders'[t][n] = h
      /\ \A i \in 1..n : i # n => holders'[t][i] = holders[t][i]
  <2>1. holders'[t] = Replaced(holders[t], h) /\ holders[t] \in Seq(Holder)
    BY <1>1, <1>2, Zenon
  <2>2. /\ n \in 1..n /\ Len(Replaced(holders[t], h)) = n
        /\ Replaced(holders[t], h)[n] = h
        /\ \A i \in 1..n : i # n => Replaced(holders[t], h)[i] = holders[t][i]
    BY Zenon, <2>1, ReplacedSeq
  <2> QED
    BY <2>1, <2>2, Zenon
<1>4. /\ \A u \in Threads \ {t} : holders'[u] = holders[u] /\ pc'[u] = pc[u]
      /\ pc'[t] = p
  BY <1>1, <1>2, Zenon DEF Goto
<1>5. /\ y \in Live /\ y \in Live'
      /\ y[1] = t /\ y[2] = n /\ H(y) = Top(t) /\ H(y)' = h
  BY <1>3 DEF Live, H, Top
<1>6. Live' = Live
  <2> QED
    BY <1>3, <1>4 DEF Live
<1>7. ASSUME NEW x \in Live, x # y PROVE H(x)' = H(x) /\ Passed(x)' = Passed(x)
  BY <1>7, LiveIs, <1>3, <1>4 DEF H, Passed
<1>8. /\ Passed(y) <=> Top(t).m_level # "None" \/ pc[t] = "cas"
      /\ Passed(y)' <=> h.m_level # "None" \/ p = "cas"
  BY <1>3, <1>4, <1>5, Zenon DEF Passed
<1>9. Slots \subseteq Live /\ Slots' \subseteq Live
      /\ (y \in Slots' <=> h.m_acquiredThread)
      /\ \A x \in Live : x # y => (x \in Slots' <=> x \in Slots)
  BY <1>6, <1>5, <1>7, Zenon DEF Slots
<1>10. Slots' = IF h.m_acquiredThread THEN Slots \cup {y} ELSE Slots \ {y}
  BY <1>5, <1>9, Zenon
<1>11. Granted' = IF h.m_acquiredThread /\ (h.m_level # "None" \/ p = "cas")
                  THEN Granted \cup {y} ELSE Granted \ {y}
  BY <1>8, <1>9, <1>7, Zenon DEF Granted
<1> QED
  BY <1>5, <1>8, <1>10, <1>11, Zenon DEF Slots, Granted

\* Nobody is counted in or out, and nobody passes the test.
LEMMA SameCount ==
  ASSUME LimitInv, Slots' = Slots, Granted' \subseteq Granted, UNCHANGED s_jittingThreads
  PROVE  LimitInv'
<1>1. IsFiniteSet(Slots) /\ Granted \in SUBSET Slots
  BY Zenon DEF LimitInv, Granted
<1>2. IsFiniteSet(Granted) /\ Granted' \in SUBSET Granted
  BY <1>1, FS_Subset, Zenon
<1>3. Cardinality(Granted') <= Cardinality(Granted) /\ IsFiniteSet(Granted')
  BY <1>2, FS_Subset, Zenon
<1>4. Cardinality(Granted') \in Nat /\ Cardinality(Granted) \in Nat
  BY <1>2, <1>3, FS_CardinalityType, Zenon
<1>5. Cardinality(Granted') <= EvalJitThreads
  BY <1>3, <1>4, WriteLeaseAssumption DEF LimitInv
<1> QED
  BY <1>5, Zenon DEF LimitInv

LEMMA TopKeeps ==
  ASSUME IInv, LimitInv, NEW t \in Threads, holders[t] # <<>>, NEW h \in Holder, NEW p,
         SetTop(t, h), Goto(t, p), UNCHANGED s_jittingThreads,
         h.m_acquiredThread = Top(t).m_acquiredThread,
         h.m_acquiredThread /\ (h.m_level # "None" \/ p = "cas")
           => Top(t).m_level # "None" \/ pc[t] = "cas"
  PROVE  LimitInv'
<1>1. PICK y : y = <<t, Len(holders[t])>>
  BY Zenon
<1>2. /\ y \in Slots <=> Top(t).m_acquiredThread
      /\ Slots' = IF h.m_acquiredThread THEN Slots \cup {y} ELSE Slots \ {y}
      /\ y \in Granted <=> y \in Slots /\ (Top(t).m_level # "None" \/ pc[t] = "cas")
      /\ Granted' = IF h.m_acquiredThread /\ (h.m_level # "None" \/ p = "cas")
                    THEN Granted \cup {y} ELSE Granted \ {y}
  BY <1>1, TopSlots
<1>3. Slots' = Slots
  BY <1>2, Zenon
<1>4. Granted' \subseteq Granted
  BY <1>2, Zenon
<1> QED
  BY <1>3, <1>4, SameCount, Zenon

LEMMA PcKeeps ==
  ASSUME IInv, LimitInv, NEW t \in Threads, holders[t] # <<>>, NEW p,
         Goto(t, p), UNCHANGED <<holders, s_jittingThreads>>,
         p = "cas" => ~Top(t).m_acquiredThread
  PROVE  LimitInv'
<1>1. Top(t) \in Holder
  BY TopFacts, Zenon
<1>2. SetTop(t, Top(t))
  BY DEF SetTop, Top, IInv, Types
<1> QED
  BY <1>1, <1>2, TopKeeps, Zenon

\* A holder that does not count comes or goes.
LEMMA OthersKeep ==
  ASSUME IInv, LimitInv, NEW t \in Threads, UNCHANGED s_jittingThreads, pc'[t] # "cas",
         \A u \in Threads \ {t} : holders'[u] = holders[u] /\ pc'[u] = pc[u],
         \A i : (i \in 1..Len(holders'[t]) /\ holders'[t][i].m_acquiredThread)
                  <=> (i \in 1..Len(holders[t]) /\ holders[t][i].m_acquiredThread),
         \A i \in 1..Len(holders'[t]) :
           holders'[t][i].m_acquiredThread =>
             holders'[t][i].m_level = holders[t][i].m_level
  PROVE  LimitInv'
<1>1. ASSUME NEW x PROVE x \in Slots' <=> x \in Slots
  <2>1. /\ x \in Slots <=> \E u \in Threads : \E i \in 1..Len(holders[u]) :
                              x = <<u, i>> /\ holders[u][i].m_acquiredThread
        /\ x \in Slots' <=> \E u \in Threads : \E i \in 1..Len(holders'[u]) :
                              x = <<u, i>> /\ holders'[u][i].m_acquiredThread
    BY DEF Slots, Live, H
  <2> QED
    BY <2>1, Zenon
<1>2. Slots' = Slots
  BY Zenon, <1>1
<1>3. ASSUME NEW x \in Granted' PROVE x \in Granted
  <2>1. x \in Slots /\ x \in Slots' /\ Passed(x)'
    BY <1>2, <1>3, Zenon DEF Granted
  <2>2. /\ x \in Live' /\ H(x)'.m_acquiredThread
        /\ x[1] \in Threads /\ x[2] \in 1..Len(holders'[x[1]])
    BY <2>1 DEF Slots, Live
  <2>3. Passed(x)
    <3>1. CASE x[1] = t
      <4>1. H(x)'.m_level # "None"
        BY <2>1, <3>1, Zenon DEF Passed
      <4>2. H(x)'.m_level = H(x).m_level
        BY <2>2, <3>1, Zenon DEF H
      <4> QED
        BY <4>1, <4>2, Zenon DEF Passed
    <3>2. CASE x[1] # t
      BY <2>1, <2>2, <3>2, Zenon DEF Passed, H
    <3> QED
      BY <3>1, <3>2, Zenon
  <2> QED
    BY <2>1, <2>3, Zenon DEF Granted
<1> QED
  BY <1>2, <1>3, SameCount, Zenon

-----------------------------------------------------------------------------
(* The steps.                                                              *)

LEMMA InitLimit == Init => LimitInv
<1> SUFFICES ASSUME Init PROVE LimitInv
  BY Zenon
<1>1. \A t \in Threads : Len(holders[t]) = 0
  BY Zenon DEF Init
<1>2. Slots = {} /\ Granted = {}
  BY <1>1 DEF Slots, Granted, Live
<1> QED
  BY <1>2, FS_EmptySet, WriteLeaseAssumption DEF Init, LimitInv

\* HaveLease() with what amOwner() or acquire() made of the holder.
LEMMA HaveLeaseKeepsLimit ==
  ASSUME IInv, LimitInv, NEW t \in Threads, pc[t] \in {"owner", "hold"},
         UNCHANGED s_jittingThreads, NEW g \in Holder, HaveLease(t, g),
         g.m_level = Top(t).m_level, g.m_acquiredThread = Top(t).m_acquiredThread
  PROVE  LimitInv'
<1>1. holders[t] # <<>>
  BY Zenon DEF IInv, Types
<1>2. Top(t).m_level = "None" => ~Top(t).m_acquiredThread
  BY <1>1, TopFacts, Zenon DEF TopFits, Asking
<1> DEFINE h == [g EXCEPT !.m_level = lockLevel(g.kind)]
<1>3. h \in Holder /\ h.m_acquiredThread = g.m_acquiredThread
  BY Levels, Zenon DEF Holder
<1> HIDE DEF h
<1>4. \/ SetTop(t, g) /\ Goto(t, "func")
      \/ SetTop(t, h) /\ Goto(t, "run")
  BY Zenon DEF HaveLease, h
<1>5. CASE SetTop(t, g) /\ Goto(t, "func")
  BY <1>1, <1>2, <1>5, TopKeeps, Zenon
<1>6. CASE SetTop(t, h) /\ Goto(t, "run")
  BY <1>1, <1>2, <1>3, <1>6, TopKeeps
<1> QED
  BY <1>4, <1>5, <1>6, Zenon

LEMMA AcquireKeepsLimit ==
  ASSUME IInv, LimitInv, NEW t \in Threads,
         \/ AmOwnerHeld(t) \/ AmOwner(t) \/ ReadHint(t) \/ ReadHeld(t)
         \/ Lock(t) \/ SetOwner(t) \/ SetHeld(t)
  PROVE  LimitInv'
<1>1. pc[t] # "run" /\ holders[t] # <<>> /\ UNCHANGED s_jittingThreads
  BY Zenon DEF AmOwnerHeld, AmOwner, ReadHint, ReadHeld, Lock, SetOwner, SetHeld, funcVars,
     IInv, Types
<1>2. CASE AmOwnerHeld(t) \/ ReadHint(t) \/ ReadHeld(t) \/ Lock(t) \/ SetOwner(t)
  <2>1. UNCHANGED holders /\ \E p : p # "cas" /\ Goto(t, p)
    BY <1>2, Zenon DEF AmOwnerHeld, ReadHint, ReadHeld, Lock, SetOwner, Fail
  <2> QED
    BY <1>1, <2>1, PcKeeps, Zenon
<1>3. CASE AmOwner(t)
  <2>1. \/ HaveLease(t, Top(t)) /\ pc[t] = "owner"
        \/ UNCHANGED holders /\ Goto(t, "acquire")
    BY <1>3, Zenon DEF AmOwner
  <2> QED
    BY <1>1, <2>1, PcKeeps, TopFacts, HaveLeaseKeepsLimit, Zenon
<1>4. CASE SetHeld(t)
  <2> DEFINE l == LeaseOf(Top(t).kind)
             g == [Top(t) EXCEPT !.m_acquiredLease = l]
  <2>2. /\ g \in Holder /\ g.m_level = Top(t).m_level
        /\ g.m_acquiredThread = Top(t).m_acquiredThread
    BY <1>1, TopFacts, LeasesOfKinds, Zenon DEF Holder
  <2>3. HaveLease(t, g) /\ pc[t] = "hold"
    BY <1>4, Zenon DEF SetHeld
  <2> HIDE DEF g
  <2> QED
    BY <1>1, <2>2, <2>3, HaveLeaseKeepsLimit, Zenon
<1> QED
  BY <1>2, <1>3, <1>4, Zenon

LEMMA ClaimKeepsLimit ==
  ASSUME IInv, LimitInv, NEW t \in Threads,
         LoadOwner(t) \/ LoadJittingThreads(t) \/ CasOwner(t)
  PROVE  LimitInv'
<1>1. /\ pc[t] # "run" /\ holders[t] # <<>> /\ UNCHANGED s_jittingThreads
      /\ pc[t] \in {"func", "threads", "cas"}
  BY Zenon DEF LoadOwner, LoadJittingThreads, CasOwner, funcVars, IInv, Types
<1> DEFINE h == [Top(t) EXCEPT !.m_level = lockLevel(Top(t).kind)]
           g == [Top(t) EXCEPT !.m_acquiredFunc = TRUE, !.m_level = lockLevel(Top(t).kind)]
<1>2. /\ Top(t) \in Holder /\ Top(t).kind \in TransKinds
      /\ pc[t] # "cas" => ~Top(t).m_acquiredThread
  BY <1>1, TopFacts, Zenon DEF TopFits, Claiming
<1>3. lockLevel(Top(t).kind) \in {"None", "Func", "Kind", "Global"}
  BY <1>2, Levels, Zenon
<1>4. /\ h \in Holder /\ h.m_acquiredThread = Top(t).m_acquiredThread
      /\ g \in Holder /\ g.m_acquiredThread = Top(t).m_acquiredThread
  BY <1>2, <1>3, Zenon DEF Holder
<1>5. \/ SetTop(t, h) /\ Goto(t, "run") /\ pc[t] = "func"
      \/ SetTop(t, g) /\ Goto(t, "run") /\ pc[t] = "cas"
      \/ UNCHANGED holders /\ (Goto(t, "dropThread") \/ Goto(t, "threads") \/ Goto(t, "add"))
      \/ UNCHANGED holders /\ Goto(t, "cas") /\ pc[t] = "func"
  BY Zenon DEF LoadOwner, LoadJittingThreads, CasOwner, Fail
<1> HIDE DEF h, g
<1>6. CASE SetTop(t, h) /\ Goto(t, "run") /\ pc[t] = "func"
  BY <1>1, <1>2, <1>4, <1>6, TopKeeps, Zenon
<1>7. CASE SetTop(t, g) /\ Goto(t, "run") /\ pc[t] = "cas"
  BY <1>1, <1>4, <1>7, TopKeeps, Zenon
<1>8. CASE UNCHANGED holders /\ (Goto(t, "dropThread") \/ Goto(t, "threads") \/ Goto(t, "add"))
  BY <1>1, <1>8, PcKeeps, Zenon
<1>9. CASE UNCHANGED holders /\ Goto(t, "cas") /\ pc[t] = "func"
  BY <1>1, <1>2, <1>9, PcKeeps, Zenon
<1> QED
  BY <1>5, <1>6, <1>7, <1>8, <1>9

\* fetch_add() returned less than the limit, or the holder does not get further.
LEMMA AddKeepsLimit ==
  ASSUME IInv, LimitInv, NEW t \in Threads, AddJittingThread(t) PROVE LimitInv'
<1> DEFINE h == [Top(t) EXCEPT !.m_acquiredThread = TRUE]
<1>1. /\ pc[t] = "add" /\ holders[t] # <<>> /\ SetTop(t, h)
      /\ s_jittingThreads' = s_jittingThreads + 1
  BY Zenon DEF AddJittingThread, IInv, Types
<1>2. /\ Top(t) \in Holder /\ Top(t).m_level = "None" /\ ~Top(t).m_acquiredThread
  BY <1>1, TopFacts, Zenon DEF TopFits, Claiming
<1>3. h \in Holder /\ h.m_level = "None" /\ h.m_acquiredThread
  BY <1>2, Zenon DEF Holder
<1> HIDE DEF h
<1>4. PICK y : y = <<t, Len(holders[t])>>
  BY Zenon
<1>5. PICK p \in {"dropThread", "cas"} :
        Goto(t, p) /\ (p = "cas" => ~(s_jittingThreads >= EvalJitThreads))
  BY Zenon DEF AddJittingThread, Fail
<1>6. /\ y \notin Slots
      /\ Slots' = Slots \cup {y}
      /\ Granted' = IF p = "cas" THEN Granted \cup {y} ELSE Granted \ {y}
  BY <1>1, <1>2, <1>3, <1>4, <1>5, TopSlots
<1>7. IsFiniteSet(Slots') /\ Cardinality(Slots') = s_jittingThreads'
  BY <1>1, <1>6, FS_AddElement, Zenon DEF LimitInv
<1>8. /\ Granted \in SUBSET Slots /\ IsFiniteSet(Granted)
      /\ Cardinality(Granted) <= s_jittingThreads
  BY FS_Subset, Zenon DEF LimitInv, Granted
<1>9. y \notin Granted
  BY <1>6, <1>8, Zenon
<1>10. Cardinality(Granted) \in Nat /\ s_jittingThreads \in Nat
  BY <1>8, FS_CardinalityType, Zenon DEF LimitInv
<1>11. Cardinality(Granted') <= EvalJitThreads
  <2>1. CASE p = "cas"
    <3>1. Cardinality(Granted') = Cardinality(Granted) + 1
      BY <1>6, <1>8, <1>9, <2>1, FS_AddElement
    <3> QED
      BY <1>5, <1>8, <1>10, <2>1, <3>1, WriteLeaseAssumption
  <2>2. CASE p # "cas"
    BY <1>6, <1>9, <2>2, Zenon DEF LimitInv
  <2> QED
    BY <2>1, <2>2, Zenon
<1> QED
  BY <1>7, <1>11, Zenon DEF LimitInv

LEMMA DropThreadKeepsLimit ==
  ASSUME IInv, LimitInv, NEW t \in Threads, DropThread(t) PROVE LimitInv'
<1> DEFINE h == [Top(t) EXCEPT !.m_level = "None", !.m_acquiredThread = FALSE]
<1>1. /\ pc[t] = "dropThread" /\ holders[t] # <<>> /\ SetTop(t, h) /\ Goto(t, "dropFunc")
      /\ s_jittingThreads' = IF Top(t).m_acquiredThread THEN s_jittingThreads - 1
                                                        ELSE s_jittingThreads
  BY Zenon DEF DropThread, IInv, Types
<1>2. h \in Holder /\ ~h.m_acquiredThread
  BY <1>1, TopFacts, Zenon DEF Holder
<1> HIDE DEF h
<1>3. PICK y : y = <<t, Len(holders[t])>>
  BY Zenon
<1>4. /\ y \in Slots <=> Top(t).m_acquiredThread
      /\ Slots' = Slots \ {y}
      /\ Granted' = Granted \ {y}
  BY <1>1, <1>2, <1>3, TopSlots
<1>5. /\ IsFiniteSet(Slots')
      /\ Cardinality(Slots') = IF y \in Slots THEN s_jittingThreads - 1 ELSE s_jittingThreads
  BY <1>4, FS_RemoveElement, Zenon DEF LimitInv
<1>6. Cardinality(Slots') = s_jittingThreads'
  BY <1>1, <1>4, <1>5, Zenon
<1>7. Granted \in SUBSET Slots /\ Granted' \in SUBSET Granted
  BY <1>4, Zenon DEF Granted
<1>8. IsFiniteSet(Granted)
  BY <1>7, FS_Subset, Zenon DEF LimitInv
<1>9. IsFiniteSet(Granted') /\ Cardinality(Granted') <= Cardinality(Granted)
  BY <1>7, <1>8, FS_Subset, Zenon
<1>10. Cardinality(Granted') \in Nat /\ Cardinality(Granted) \in Nat
  BY <1>8, <1>9, FS_CardinalityType, Zenon
<1>11. Cardinality(Granted') <= EvalJitThreads
  BY <1>9, <1>10, WriteLeaseAssumption DEF LimitInv
<1> QED
  BY <1>5, <1>6, <1>11, Zenon DEF LimitInv

LEMMA DropKeepsLimit ==
  ASSUME IInv, LimitInv, NEW t \in Threads,
         DropFunc(t) \/ DropHint(t) \/ DropHeld(t) \/ Unlock(t)
  PROVE  LimitInv'
<1>1. /\ pc[t] \in {"dropFunc", "dropLease", "dropHeld", "unlock"}
      /\ holders[t] # <<>> /\ UNCHANGED s_jittingThreads
  BY Zenon DEF DropFunc, DropHint, DropHeld, Unlock, funcVars, IInv, Types
<1> DEFINE h == [Top(t) EXCEPT !.m_acquiredFunc = FALSE]
           g == [Top(t) EXCEPT !.m_acquiredLease = NULL]
<1>2. Top(t) \in Holder /\ ~Top(t).m_acquiredThread
  BY <1>1, TopFacts, Zenon DEF TopFits
<1>3. /\ h \in Holder /\ h.m_acquiredThread = Top(t).m_acquiredThread
      /\ g \in Holder /\ g.m_acquiredThread = Top(t).m_acquiredThread
  BY <1>2, Zenon DEF Holder
<1>4. \/ SetTop(t, h) /\ \E p : Goto(t, p)
      \/ SetTop(t, g) /\ \E p : Goto(t, p)
      \/ UNCHANGED holders /\ \E p : Goto(t, p)
  BY Zenon DEF DropFunc, DropHint, DropHeld, Unlock
<1> HIDE DEF h, g
<1>5. ASSUME NEW p, Goto(t, p), SetTop(t, h) PROVE LimitInv'
  BY <1>1, <1>2, <1>3, <1>5, TopKeeps, Zenon
<1>6. ASSUME NEW p, Goto(t, p), SetTop(t, g) PROVE LimitInv'
  BY <1>1, <1>2, <1>3, <1>6, TopKeeps
<1>7. ASSUME NEW p, Goto(t, p), UNCHANGED holders PROVE LimitInv'
  BY <1>1, <1>2, <1>7, PcKeeps, Zenon
<1> QED
  BY <1>4, <1>5, <1>6, <1>7, Zenon

LEMMA DroppedKeepsLimit ==
  ASSUME IInv, LimitInv, NEW t \in Threads, Dropped(t) PROVE LimitInv'
<1> DEFINE hs == holders[t]
           n == Len(hs)
           gs == SubSeq(hs, 1, n - 1)
<1>1. /\ pc[t] = "dropped" /\ hs # <<>> /\ Goto(t, "run") /\ UNCHANGED s_jittingThreads
      /\ holders' = [holders EXCEPT ![t] = gs]
  BY Zenon DEF Dropped, funcVars, IInv, Types
<1>2. hs \in Seq(Holder) /\ ~hs[n].m_acquiredThread
  BY <1>1, TopFacts, Zenon DEF TopFits, Top
<1>3. n \in Nat /\ n >= 1
  BY <1>1
<1>4. Len(gs) = n - 1 /\ \A i \in 1..(n - 1) : gs[i] = hs[i]
  BY <1>3
<1>5. \A i : i \in 1..Len(gs) <=> i \in 1..n /\ i # n
  OBVIOUS
<1>6. /\ holders'[t] = gs /\ pc'[t] = "run"
      /\ \A u \in Threads \ {t} : holders'[u] = holders[u] /\ pc'[u] = pc[u]
  BY <1>1, Zenon DEF Goto, IInv, Types
<1> HIDE DEF gs
<1>7. \A i \in 1..Len(gs) : gs[i] = hs[i]
  BY <1>4, Zenon
<1>8. \A i : (i \in 1..Len(gs) /\ gs[i].m_acquiredThread)
               <=> (i \in 1..n /\ hs[i].m_acquiredThread)
  BY <1>2, <1>5, <1>7, Zenon
<1> QED
  BY <1>1, <1>6, <1>7, <1>8, OthersKeep

LEMMA ConstructKeepsLimit ==
  ASSUME IInv, LimitInv, NEW t \in Threads, NEW f \in Funcs, NEW k \in Kinds,
         Construct(t, f, k)
  PROVE  LimitInv'
<1> DEFINE hs == holders[t]
           n == Len(hs)
           h == NewHolder(f, k)
           gs == Append(hs, h)
<1>1. /\ pc[t] = "run" /\ UNCHANGED s_jittingThreads
      /\ holders' = [holders EXCEPT ![t] = gs]
      /\ \E p : p # "cas" /\ Goto(t, p)
  BY Zenon DEF Construct, funcVars
<1>2. h \in Holder /\ ~h.m_acquiredThread
  BY WriteLeaseAssumption, Zenon DEF NewHolder, Holder, TransKinds
<1>3. hs \in Seq(Holder) /\ n \in Nat
  BY SeqFacts, Zenon DEF IInv, Types
<1> HIDE DEF h
<1>4. /\ Len(gs) = n + 1 /\ gs[n + 1] = h
      /\ \A i \in 1..n : gs[i] = hs[i]
  OBVIOUS
<1>5. \A i : i \in 1..Len(gs) <=> i \in 1..n \/ i = n + 1
  OBVIOUS
<1>6. /\ holders'[t] = gs /\ pc'[t] # "cas"
      /\ \A u \in Threads \ {t} : holders'[u] = holders[u] /\ pc'[u] = pc[u]
  BY <1>1, Zenon DEF Goto, IInv, Types
<1> HIDE DEF gs
<1>7. \A i : (i \in 1..Len(gs) /\ gs[i].m_acquiredThread)
               <=> (i \in 1..n /\ hs[i].m_acquiredThread)
  BY <1>2, <1>4, <1>5, Zenon
<1>8. \A i \in 1..Len(gs) : gs[i].m_acquiredThread => gs[i].m_level = hs[i].m_level
  BY <1>2, <1>4, <1>5, Zenon
<1> QED
  BY <1>1, <1>6, <1>7, <1>8, OthersKeep

LEMMA CheckKindKeepsLimit ==
  ASSUME IInv, LimitInv, NEW t \in Threads, NEW k \in Kinds \cap {"Profile", "Live"},
         CheckKind(t, k)
  PROVE  LimitInv'
<1> DEFINE asked == [Top(t) EXCEPT !.kind = k]
           h == [asked EXCEPT !.m_level = lockLevel(k)]
<1>1. pc[t] = "run" /\ holders[t] # <<>> /\ UNCHANGED s_jittingThreads
  BY Zenon DEF CheckKind, funcVars
<1>2. Top(t) \in Holder /\ Top(t).m_level # "None"
  BY <1>1, TopFacts, Zenon DEF TopFits
<1>3. k \in TransKinds /\ lockLevel(k) \in {"None", "Func", "Kind", "Global"}
  BY Levels, Zenon DEF TransKinds
<1>4. /\ asked \in Holder /\ asked.m_acquiredThread = Top(t).m_acquiredThread
      /\ h \in Holder /\ h.m_acquiredThread = Top(t).m_acquiredThread
  BY <1>2, <1>3, Zenon DEF Holder
<1>5. \/ SetTop(t, asked) /\ \E p : Goto(t, p)
      \/ SetTop(t, h) /\ Goto(t, "run")
  BY DEF Goto, IInv, Types, CheckKind
<1> HIDE DEF asked, h
<1>6. ASSUME NEW p, Goto(t, p), SetTop(t, asked) PROVE LimitInv'
  BY <1>1, <1>2, <1>4, <1>6, TopKeeps
<1>7. CASE SetTop(t, h) /\ Goto(t, "run")
  BY <1>1, <1>2, <1>4, <1>7, TopKeeps, Zenon
<1> QED
  BY <1>5, <1>6, <1>7, Zenon

LEMMA NextLimit == IInv /\ LimitInv /\ [Next]_vars => LimitInv'
<1> SUFFICES ASSUME IInv, LimitInv, [Next]_vars PROVE LimitInv'
  BY Zenon
<1>1. ASSUME UNCHANGED <<holders, pc, s_jittingThreads>> PROVE LimitInv'
  BY <1>1, SameCount, Zenon DEF Slots, Granted, Passed, Live, H
<1>2. ASSUME NEW t \in Threads, NEW a, NEW c, SetMayAcquire(t, a, c) PROVE LimitInv'
  BY <1>1, <1>2, Zenon DEF SetMayAcquire, funcVars, threadVars
<1>3. ASSUME NEW l \in Leases, Expire(l) PROVE LimitInv'
  BY <1>1, <1>3, Zenon DEF Expire, funcVars, threadVars
<1>4. CASE UNCHANGED vars
  BY <1>1, <1>4, Zenon DEF vars, funcVars, threadVars
<1>5. ASSUME NEW t \in Threads, Destroy(t) PROVE LimitInv'
  BY <1>5, PcKeeps, Zenon DEF Destroy, funcVars
<1>6. ASSUME NEW t \in Threads, Step(t) PROVE LimitInv'
  BY <1>6, AcquireKeepsLimit, ClaimKeepsLimit, AddKeepsLimit, DropThreadKeepsLimit,
     DropKeepsLimit, DroppedKeepsLimit DEF Step
<1> QED
  BY <1>2, <1>3, <1>4, <1>5, <1>6, ConstructKeepsLimit, CheckKindKeepsLimit DEF Next

LEMMA Limit == LimitInv => JittingThreadsAreLimited
<1> SUFFICES ASSUME LimitInv PROVE JittingThreadsAreLimited
  BY Zenon
<1> DEFINE true == {x \in Live : H(x).m_acquiredThread /\ H(x).m_level # "None"}
<1>1. true \in SUBSET Granted /\ Granted \in SUBSET Slots
  BY Zenon DEF Granted, Slots, Passed
<1>2. IsFiniteSet(Granted)
  BY <1>1, FS_Subset, Zenon DEF LimitInv
<1>3. IsFiniteSet(true) /\ Cardinality(true) <= Cardinality(Granted)
  BY <1>1, <1>2, FS_Subset, Zenon
<1>4. Cardinality(true) \in Nat /\ Cardinality(Granted) \in Nat
  BY <1>2, <1>3, FS_CardinalityType, Zenon
<1> HIDE DEF true
<1>5. Cardinality(true) <= EvalJitThreads
  BY <1>3, <1>4, WriteLeaseAssumption DEF LimitInv
<1> QED
  BY <1>5, Zenon DEF LimitInv, Slots, JittingThreadsAreLimited, true

\* s_jittingThreads is exact, and of the holders that add themselves to it no more
\* than Eval.JitThreads get to translate, for any number of threads: the second
\* test of fetch_add()'s result makes up for the first one's being stale.
THEOREM ThreadsLimited == Spec => []JittingThreadsAreLimited
BY Inductive, InitLimit, NextLimit, Limit, PTL DEF Spec

-----------------------------------------------------------------------------
(* The settings.                                                           *)

LEMMA Settings ==
  /\ EvalJitThreads \in Nat
  /\ EvalNumSingleJitRequests \in Nat /\ EvalJitProfileInterpRequests \in Nat
  /\ MayAcquire = BOOLEAN \X BOOLEAN
BY WriteLeaseAssumption, SingleJitAssumption, Zenon

-----------------------------------------------------------------------------
(* The lease steps of the composition are those of WriteLease.             *)

\* Only a request that translates has holders; the flags are BOOLEAN.
IdleInv ==
  /\ request \in [Threads -> {"none", "interp", "test", "lock", "load", "cas", "jit",
                              "count", "unlock", "uncount"}]
  /\ singleJitLock \in BOOLEAN
  /\ threadCanAcquire \in [Threads -> BOOLEAN]
  /\ threadCanAcquireConcurrent \in [Threads -> BOOLEAN]
  /\ \A t \in Threads : request[t] # "jit" => pc[t] = "run" /\ holders[t] = <<>>

\* A step inside a holder leaves the permissions and the other threads alone.
LEMMA HolderStep ==
  ASSUME IInv, NEW t \in Threads, Translate(t)
  PROVE  /\ UNCHANGED mayVars /\ UNCHANGED jitVars
         /\ \A u \in Threads \ {t} : pc'[u] = pc[u] /\ holders'[u] = holders[u]
<1> USE DEF IInv, Types
<1>1. CASE \E f \in Funcs, k \in Kinds : Construct(t, f, k)
  BY <1>1, Zenon DEF Translate, Construct, Goto
<1>2. CASE \E k \in Kinds \cap {"Profile", "Live"} : CheckKind(t, k)
  BY Zenon, <1>2 DEF Translate, CheckKind, Goto, SetTop, mayVars
<1>3. CASE Destroy(t)
  BY <1>3, Zenon DEF Translate, Destroy, Goto
<1>4. CASE Step(t)
  <2>1. CASE AmOwnerHeld(t) \/ ReadHint(t) \/ ReadHeld(t) \/ Lock(t) \/ SetOwner(t)
             \/ LoadJittingThreads(t) \/ DropHint(t) \/ DropHeld(t)
    BY <2>1 DEF Translate, AmOwnerHeld, ReadHint, ReadHeld, Lock, SetOwner,
       LoadJittingThreads, DropHint, DropHeld, Fail, Goto
  <2>2. CASE AmOwner(t) \/ SetHeld(t)
    BY <2>2 DEF Translate, AmOwner, SetHeld, HaveLease, Fail, Goto, SetTop, mayVars
  <2>3. CASE LoadOwner(t) \/ AddJittingThread(t) \/ CasOwner(t)
    BY <2>3, Zenon DEF Translate, LoadOwner, AddJittingThread, CasOwner, Fail, Goto, SetTop
  <2>4. CASE DropThread(t) \/ DropFunc(t) \/ Unlock(t) \/ Dropped(t)
    BY <2>4, Zenon DEF Translate, DropThread, DropFunc, Unlock, Dropped, Goto, SetTop
  <2> QED
    BY <1>4, <2>1, <2>2, <2>3, <2>4 DEF Step
<1> QED
  BY <1>1, <1>2, <1>3, <1>4 DEF Translate

LEMMA IdleInit == SInit => IdleInv
<1> SUFFICES ASSUME SInit PROVE IdleInv
  BY Zenon
<1>1. \A t \in Threads : request[t] # "jit" => pc[t] = "run" /\ holders[t] = <<>>
  BY Zenon DEF SInit, Init
<1>2. /\ singleJitLock \in BOOLEAN
      /\ threadCanAcquire \in [Threads -> BOOLEAN]
      /\ threadCanAcquireConcurrent \in [Threads -> BOOLEAN]
  BY Zenon DEF SInit, Init
<1> QED
  BY <1>1, <1>2, Zenon DEF SInit, IdleInv

LEMMA IdleNext == IdleInv /\ IInv /\ [SNext]_allVars => IdleInv'
<1> SUFFICES ASSUME IdleInv, IInv, [SNext]_allVars PROVE IdleInv'
  BY Zenon
<1>1. ASSUME NEW t \in Threads, Translate(t) PROVE IdleInv'
  BY <1>1, HolderStep, Zenon DEF mayVars, jitVars, Translate, IdleInv
<1>2. ASSUME NEW l \in Leases, HintExpires(l) PROVE IdleInv'
  BY <1>2, Zenon DEF HintExpires, Expire, IdleInv, jitVars, mayVars, threadVars
<1>3. ASSUME NEW t \in Threads, ProfileRequestStart(t) PROVE IdleInv'
  BY Zenon, <1>3 DEF ProfileRequestStart, IdleInv, Serve, mayVars, threadVars
<1>4. ASSUME NEW t \in Threads, TestSingleJit(t) PROVE IdleInv'
  BY <1>4, Zenon DEF TestSingleJit, IdleInv, Serve, vars, mayVars, threadVars
<1>5. ASSUME NEW t \in Threads, ExchangeSingleJitLock(t) PROVE IdleInv'
  BY <1>5, Zenon DEF ExchangeSingleJitLock, IdleInv, Serve, threadVars
<1>6. ASSUME NEW t \in Threads, LoadConcurrentCount(t) PROVE IdleInv'
  BY Zenon, <1>6 DEF LoadConcurrentCount, RefuseConcurrent, IdleInv, Serve, threadVars
<1>7. ASSUME NEW t \in Threads, CasConcurrentCount(t) PROVE IdleInv'
  BY Zenon, <1>7 DEF CasConcurrentCount, RefuseConcurrent, IdleInv, Serve, threadVars
<1>8. ASSUME NEW t \in Threads, ProfileRequestEnd(t) PROVE IdleInv'
  BY <1>8, Zenon DEF ProfileRequestEnd, IdleInv, Serve, vars, mayVars, threadVars
<1>9. ASSUME NEW t \in Threads,
             CountSingleJit(t) \/ ReleaseSingleJitLock(t) \/ ReleaseConcurrentCount(t)
      PROVE  IdleInv'
  BY Zenon, <1>9 DEF CountSingleJit, ReleaseSingleJitLock, ReleaseConcurrentCount, IdleInv,
              Serve, vars, mayVars, threadVars
<1>10. CASE UNCHANGED allVars
  BY <1>10, Zenon DEF allVars, vars, jitVars, mayVars, threadVars, IdleInv
<1> QED
  BY <1>1, <1>2, <1>3, <1>4, <1>5, <1>6, <1>7, <1>8, <1>9, <1>10 DEF SNext

LEMMA StepsAreLeaseSteps == IdleInv /\ [SNext]_allVars => [Next]_vars
<1> SUFFICES ASSUME IdleInv, [SNext]_allVars PROVE [Next]_vars
  BY Zenon
<1>1. ASSUME NEW t \in Threads, Translate(t) PROVE Next
  BY <1>1, Zenon DEF Translate, Next
<1>2. ASSUME NEW l \in Leases, HintExpires(l) PROVE Next
  BY <1>2, Zenon DEF HintExpires, Next
<1>3. ASSUME NEW t \in Threads, ProfileRequestStart(t) PROVE [Next]_vars
  <2>1. CASE numRequests < EvalJitProfileInterpRequests
    BY <1>3, <2>1, Zenon DEF ProfileRequestStart, vars
  <2>2. CASE ~(numRequests < EvalJitProfileInterpRequests)
    <3>1. SetMayAcquire(t, TRUE, TRUE)
      BY Zenon, <1>3, <2>2, Settings DEF ProfileRequestStart, SetMayAcquire, IdleInv
    <3> QED
      BY Zenon, <3>1 DEF Next
  <2> QED
    BY <2>1, <2>2, Zenon
<1>4. ASSUME NEW t \in Threads, ExchangeSingleJitLock(t) PROVE Next
  <2>1. SetMayAcquire(t, ~singleJitLock, threadCanAcquireConcurrent[t])
    <3>2. <<~singleJitLock, threadCanAcquireConcurrent[t]>> \in MayAcquire
      BY Zenon, Settings DEF IdleInv
    <3> QED
      BY <1>4, <3>2, Zenon DEF ExchangeSingleJitLock, SetMayAcquire, IdleInv
  <2>2. (~singleJitLock) \in BOOLEAN /\ threadCanAcquireConcurrent[t] \in BOOLEAN
    BY Zenon DEF IdleInv
  <2> QED
    BY Zenon, <2>1, <2>2 DEF Next
<1>5. ASSUME NEW t \in Threads, UNCHANGED threadCanAcquire, UNCHANGED threadVars,
             UNCHANGED leaseVars, UNCHANGED funcVars, request[t] # "jit",
             RefuseConcurrent(t)
      PROVE  Next
  <2>1. SetMayAcquire(t, threadCanAcquire[t], FALSE)
    <3>2. <<threadCanAcquire[t], FALSE>> \in MayAcquire
      BY Zenon, Settings DEF IdleInv
    <3> QED
      BY <1>5, <3>2, Zenon DEF RefuseConcurrent, SetMayAcquire, IdleInv
  <2>2. threadCanAcquire[t] \in BOOLEAN
    BY Zenon DEF IdleInv
  <2> QED
    BY Zenon, <2>1, <2>2 DEF Next
<1>6. ASSUME NEW t \in Threads, LoadConcurrentCount(t) PROVE [Next]_vars
  BY <1>6, <1>5, Zenon DEF LoadConcurrentCount, vars, mayVars
<1>7. ASSUME NEW t \in Threads, CasConcurrentCount(t) PROVE [Next]_vars
  BY <1>7, <1>5, Zenon DEF CasConcurrentCount, vars, mayVars
<1>8. ASSUME NEW t \in Threads,
             \/ TestSingleJit(t) \/ ProfileRequestEnd(t) \/ CountSingleJit(t)
             \/ ReleaseSingleJitLock(t) \/ ReleaseConcurrentCount(t)
      PROVE  UNCHANGED vars
  BY <1>8, Zenon DEF TestSingleJit, ProfileRequestEnd, CountSingleJit, ReleaseSingleJitLock,
     ReleaseConcurrentCount
<1>9. CASE UNCHANGED allVars
  BY <1>9, Zenon DEF allVars
<1> QED
  BY <1>1, <1>2, <1>3, <1>4, <1>6, <1>7, <1>8, <1>9 DEF SNext

\* Whatever profileRequestStart() grants and refuses, requests use the leases as
\* WriteLease describes: the composition implements it.
THEOREM RequestsUseLeases == SSpec => Spec
<1>1. SInit => Init
  BY Zenon DEF SInit
<1> QED
  BY <1>1, IdleInit, IdleNext, InitIInv, NextIInv, StepsAreLeaseSteps, PTL DEF SSpec, Spec

LEMMA RequestsKeep == SSpec => [](IdleInv /\ IInv)
<1>1. SInit => Init
  BY Zenon DEF SInit
<1> QED
  BY <1>1, IdleInit, IdleNext, InitIInv, NextIInv, StepsAreLeaseSteps, PTL DEF SSpec

-----------------------------------------------------------------------------
(* singleJitLock and singleJitConcurrentCount.                             *)

Counted == {t \in Threads : acquiredSingleJitConcurrent[t]}

\* One thread has the lock while it is set, and only between the exchange and
\* the release.
LockInv ==
  /\ acquiredSingleJit \in [Threads -> BOOLEAN]
  /\ \A t \in Threads : acquiredSingleJit[t] =>
       singleJitLock /\ request[t] \in {"load", "cas", "jit", "count", "unlock"}
  /\ \A t, u \in Threads : acquiredSingleJit[t] /\ acquiredSingleJit[u] => t = u
  /\ singleJitLock => \E t \in Threads : acquiredSingleJit[t]

\* The count is that of the threads counted; a thread about to try the
\* compare-and-exchange has seen a free place.
CountInv ==
  /\ acquiredSingleJitConcurrent \in [Threads -> BOOLEAN]
  /\ threads \in [Threads -> Nat]
  /\ singleJitConcurrentCount \in Nat
  /\ IsFiniteSet(Counted) /\ Cardinality(Counted) = singleJitConcurrentCount
  /\ singleJitConcurrentCount <= EvalJitThreads
  /\ \A t \in Threads :
       /\ request[t] = "cas" => threads[t] < EvalJitThreads
       /\ acquiredSingleJitConcurrent[t] =>
            request[t] \in {"jit", "count", "unlock", "uncount"}

LEMMA LockInit == SInit => LockInv
BY Zenon DEF SInit, LockInv

LEMMA LockNext == IdleInv /\ IInv /\ LockInv /\ [SNext]_allVars => LockInv'
<1> SUFFICES ASSUME IdleInv, IInv, LockInv, [SNext]_allVars PROVE LockInv'
  BY Zenon
<1> USE DEF LockInv
<1>1. ASSUME NEW t \in Threads, Translate(t) PROVE LockInv'
  BY <1>1, HolderStep DEF jitVars
<1>2. ASSUME NEW l \in Leases, HintExpires(l) PROVE LockInv'
  BY <1>2, Zenon DEF HintExpires, jitVars
<1>3. ASSUME NEW t \in Threads, ProfileRequestStart(t) PROVE LockInv'
  BY <1>3, Zenon DEF ProfileRequestStart, Serve, IdleInv
<1>4. ASSUME NEW t \in Threads, TestSingleJit(t) PROVE LockInv'
  BY <1>4, Zenon DEF TestSingleJit, Serve, IdleInv
<1>5. ASSUME NEW t \in Threads, ExchangeSingleJitLock(t) PROVE LockInv'
  <2>1. ~acquiredSingleJit[t]
    BY <1>5, Zenon DEF ExchangeSingleJitLock
  <2>2. /\ singleJitLock'
        /\ acquiredSingleJit' = [acquiredSingleJit EXCEPT ![t] = ~singleJitLock]
        /\ request'[t] \in {"load", "jit"}
        /\ \A u \in Threads \ {t} : request'[u] = request[u]
    BY <1>5, Zenon DEF ExchangeSingleJitLock, Serve, IdleInv
  <2>3. acquiredSingleJit' \in [Threads -> BOOLEAN]
    BY <2>2, Zenon
  <2>4. CASE singleJitLock
    BY <2>1, <2>2, <2>4
  <2>5. CASE ~singleJitLock
    BY Zenon, <2>2, <2>5
  <2> QED
    BY <2>4, <2>5, Zenon
<1>6. ASSUME NEW t \in Threads, LoadConcurrentCount(t) PROVE LockInv'
  BY <1>6 DEF LoadConcurrentCount, RefuseConcurrent, Serve, IdleInv
<1>7. ASSUME NEW t \in Threads, CasConcurrentCount(t) PROVE LockInv'
  BY <1>7 DEF CasConcurrentCount, RefuseConcurrent, Serve, IdleInv
<1>8. ASSUME NEW t \in Threads, ProfileRequestEnd(t) PROVE LockInv'
  BY <1>8 DEF ProfileRequestEnd, Serve, IdleInv
<1>9. ASSUME NEW t \in Threads, CountSingleJit(t) PROVE LockInv'
  BY <1>9, Zenon DEF CountSingleJit, Serve, IdleInv
<1>10. ASSUME NEW t \in Threads, ReleaseSingleJitLock(t) PROVE LockInv'
  <2>1. /\ singleJitLock' = (singleJitLock /\ ~acquiredSingleJit[t])
        /\ acquiredSingleJit' = [acquiredSingleJit EXCEPT ![t] = FALSE]
        /\ \A u \in Threads \ {t} : request'[u] = request[u]
    BY <1>10, Zenon DEF ReleaseSingleJitLock, Serve, IdleInv
  <2>2. acquiredSingleJit' \in [Threads -> BOOLEAN]
    BY <2>1, Zenon
  <2>3. CASE acquiredSingleJit[t]
    BY Zenon, <2>1
  <2>4. CASE ~acquiredSingleJit[t]
    BY <2>1, <2>4, Zenon
  <2> QED
    BY <2>3, <2>4, Zenon
<1>11. ASSUME NEW t \in Threads, ReleaseConcurrentCount(t) PROVE LockInv'
  BY <1>11, Zenon DEF ReleaseConcurrentCount, Serve, IdleInv
<1>12. CASE UNCHANGED allVars
  BY <1>12, Zenon DEF allVars, jitVars
<1> QED
  BY Zenon, <1>1, <1>2, <1>3, <1>4, <1>5, <1>6, <1>7, <1>8, <1>9, <1>10, <1>11, <1>12 DEF SNext

LEMMA CountInit == SInit => CountInv
<1> SUFFICES ASSUME SInit PROVE CountInv
  BY Zenon
<1>1. acquiredSingleJitConcurrent \in [Threads -> BOOLEAN]
  BY Zenon DEF SInit
<1>2. Counted = {}
  BY Zenon DEF SInit, Counted
<1> QED
  BY <1>2, FS_EmptySet, Settings DEF SInit, CountInv

\* A step that counts nobody in or out.
LEMMA CountSame ==
  ASSUME CountInv, NEW t \in Threads, IdleInv,
         UNCHANGED <<acquiredSingleJitConcurrent, singleJitConcurrentCount, threads>>,
         NEW stage, request' = [request EXCEPT ![t] = stage],
         stage # "cas",
         acquiredSingleJitConcurrent[t] => stage \in {"jit", "count", "unlock", "uncount"}
  PROVE  CountInv'
BY Zenon DEF Counted, CountInv, IdleInv

LEMMA CountNext == IdleInv /\ IInv /\ CountInv /\ [SNext]_allVars => CountInv'
<1> SUFFICES ASSUME IdleInv, IInv, CountInv, [SNext]_allVars PROVE CountInv'
  BY Zenon
<1>1. ASSUME UNCHANGED jitVars PROVE CountInv'
  BY <1>1, Zenon DEF jitVars, Counted, CountInv
<1>2. ASSUME NEW t \in Threads, ProfileRequestStart(t) PROVE CountInv'
  BY <1>2, CountSame DEF ProfileRequestStart, Serve, CountInv
<1>3. ASSUME NEW t \in Threads, TestSingleJit(t) PROVE CountInv'
  BY Zenon, <1>3, CountSame DEF TestSingleJit, Serve, CountInv
<1>4. ASSUME NEW t \in Threads, ExchangeSingleJitLock(t) PROVE CountInv'
  BY Zenon, <1>4, CountSame DEF ExchangeSingleJitLock, Serve, CountInv
<1>5. ASSUME NEW t \in Threads, LoadConcurrentCount(t) PROVE CountInv'
  BY <1>5 DEF LoadConcurrentCount, Counted, RefuseConcurrent, Serve, IdleInv, CountInv
<1>6. ASSUME NEW t \in Threads, CasConcurrentCount(t) PROVE CountInv'
  <2>1. /\ threads' = [threads EXCEPT ![t] = 0]
        /\ request'[t] = "jit"
        /\ \A u \in Threads \ {t} : request'[u] = request[u]
        /\ ~acquiredSingleJitConcurrent[t]
        /\ threads[t] < EvalJitThreads
    BY <1>6, Zenon DEF CasConcurrentCount, RefuseConcurrent, Serve, IdleInv, CountInv
  <2>2. threads' \in [Threads -> Nat]
    BY <2>1, Zenon DEF CountInv
  <2>3. CASE singleJitConcurrentCount = threads[t]
    <3>1. /\ singleJitConcurrentCount' = singleJitConcurrentCount + 1
          /\ acquiredSingleJitConcurrent' = [acquiredSingleJitConcurrent EXCEPT ![t] = TRUE]
      BY <1>6, <2>3, Zenon DEF CasConcurrentCount
    <3>2. Counted' = Counted \cup {t} /\ t \notin Counted
      BY <2>1, <3>1, Zenon DEF Counted, CountInv
    <3>3. /\ IsFiniteSet(Counted)'
          /\ Cardinality(Counted)' = singleJitConcurrentCount'
      BY <3>1, <3>2, FS_AddElement DEF CountInv
    <3>4. acquiredSingleJitConcurrent' \in [Threads -> BOOLEAN]
      BY <3>1, Zenon DEF CountInv
    <3>5. singleJitConcurrentCount' \in Nat /\ singleJitConcurrentCount' <= EvalJitThreads
      BY <2>1, <2>3, <3>1, Settings DEF CountInv
    <3>6. \A u \in Threads \ {t} :
            threads'[u] = threads[u]
            /\ acquiredSingleJitConcurrent'[u] = acquiredSingleJitConcurrent[u]
      BY <2>1, <3>1 DEF CountInv
    <3> QED
      BY <2>1, <2>2, <3>3, <3>4, <3>5, <3>6 DEF CountInv
  <2>4. CASE singleJitConcurrentCount # threads[t]
    <3>1. UNCHANGED <<acquiredSingleJitConcurrent, singleJitConcurrentCount>>
      BY <1>6, <2>4 DEF CasConcurrentCount
    <3>2. Counted' = Counted
      BY <3>1, Zenon DEF Counted
    <3> QED
      BY <2>1, <3>1, <3>2 DEF CountInv
  <2> QED
    BY <2>3, <2>4
<1>7. ASSUME NEW t \in Threads, ProfileRequestEnd(t) PROVE CountInv'
  BY Zenon, <1>7, CountSame DEF ProfileRequestEnd, Serve, CountInv
<1>8. ASSUME NEW t \in Threads, CountSingleJit(t) PROVE CountInv'
  BY Zenon, <1>8, CountSame DEF CountSingleJit, Serve
<1>9. ASSUME NEW t \in Threads, ReleaseSingleJitLock(t) PROVE CountInv'
  BY Zenon, <1>9, CountSame DEF ReleaseSingleJitLock, Serve
<1>10. ASSUME NEW t \in Threads, ReleaseConcurrentCount(t) PROVE CountInv'
  <2>1. /\ UNCHANGED threads
        /\ request'[t] = "none"
        /\ \A u \in Threads \ {t} : request'[u] = request[u]
        /\ acquiredSingleJitConcurrent' = [acquiredSingleJitConcurrent EXCEPT ![t] = FALSE]
    BY <1>10, Zenon DEF ReleaseConcurrentCount, Serve, IdleInv
  <2>2. Counted' = Counted \ {t}
    BY <2>1, Zenon DEF Counted, CountInv
  <2>4. /\ IsFiniteSet(Counted)'
        /\ Cardinality(Counted)' = IF t \in Counted THEN singleJitConcurrentCount - 1
                                                     ELSE singleJitConcurrentCount
    BY <2>2, FS_RemoveElement, Zenon DEF CountInv
  <2>5. Cardinality(Counted)' = singleJitConcurrentCount'
    BY <1>10, <2>4, Zenon DEF ReleaseConcurrentCount, Counted
  <2>6. singleJitConcurrentCount' \in Nat
    BY <2>4, <2>5, FS_CardinalityType
  <2>7. singleJitConcurrentCount' <= EvalJitThreads
    BY <1>10, Settings DEF ReleaseConcurrentCount, CountInv
  <2>8. acquiredSingleJitConcurrent' \in [Threads -> BOOLEAN]
    BY <2>1, Zenon DEF CountInv
  <2>9. ~acquiredSingleJitConcurrent'[t]
        /\ \A u \in Threads \ {t} :
             acquiredSingleJitConcurrent'[u] = acquiredSingleJitConcurrent[u]
    BY <2>1, Zenon DEF CountInv
  <2> QED
    BY <2>1, <2>4, <2>5, <2>6, <2>7, <2>8, <2>9 DEF CountInv
<1>11. ASSUME NEW t \in Threads, Translate(t) PROVE CountInv'
  BY <1>1, <1>11, Zenon DEF Translate
<1> QED
  BY <1>1, <1>2, <1>3, <1>4, <1>5, <1>6, <1>7, <1>8, <1>9, <1>10, <1>11
  DEF SNext, HintExpires, allVars

LEMMA Exact == LockInv /\ CountInv => SingleJitIsExact
<1> SUFFICES ASSUME LockInv, CountInv PROVE SingleJitIsExact
  BY Zenon
<1> DEFINE locked == {t \in Threads : acquiredSingleJit[t]}
<1>1. CASE singleJitLock
  <2>1. PICK t \in Threads : acquiredSingleJit[t]
    BY <1>1, Zenon DEF LockInv
  <2>2. locked = {t}
    BY <2>1, Zenon DEF LockInv
  <2>3. Cardinality(locked) = 1
    BY <2>2, FS_Singleton, Zenon
  <2> QED
    BY <1>1, <2>3, Zenon DEF SingleJitIsExact, CountInv, Counted
<1>2. CASE ~singleJitLock
  <2>2. Cardinality(locked) = 0
    BY <1>2, FS_EmptySet, Zenon DEF LockInv
  <2> QED
    BY <1>2, <2>2, Zenon DEF SingleJitIsExact, CountInv, Counted
<1> QED
  BY <1>1, <1>2, Zenon

\* The lock is set exactly while one request has it, and the count is exact and
\* at most Eval.JitThreads, with any number of threads: profileRequestStart()'s
\* relaxed atomics neither lose nor invent a place.
THEOREM SingleJitExact == SSpec => []SingleJitIsExact
BY RequestsKeep, LockInit, LockNext, CountInit, CountNext, Exact, PTL DEF SSpec

-----------------------------------------------------------------------------
(* What a request is granted.                                              *)

\* Only a thread that may acquire gets as far as the mutex.
GrantInv ==
  \A t \in Threads :
    /\ pc[t] \in {"held", "lock"} => blocking \/ threadCanAcquire[t]
    /\ \A l \in Leases : m_lock[l] = t => blocking \/ threadCanAcquire[t]

\* During the warm-up a grant is backed by the lock or by a place in the count.
WarmInv ==
  /\ singleJitRequests \in Nat
  /\ singleJitRequests < EvalNumSingleJitRequests =>
       \A t \in Threads :
         /\ request[t] \in {"load", "cas", "jit"} /\ threadCanAcquire[t]
              => acquiredSingleJit[t]
         /\ (request[t] = "jit" /\ EvalJitConcurrently > 0 /\ threadCanAcquireConcurrent[t])
              => acquiredSingleJitConcurrent[t]

LEMMA GrantInit == SInit => GrantInv
BY Zenon DEF SInit, Init, GrantInv

\* How a step inside a holder gets to the mutex.
LEMMA HolderGrant ==
  ASSUME IInv, GrantInv, NEW t \in Threads, Translate(t)
  PROVE  /\ pc'[t] \in {"held", "lock"} => blocking \/ threadCanAcquire[t]
         /\ \A l \in Leases : m_lock'[l] \in {m_lock[l], NULL}
                              \/ (m_lock'[l] = t /\ pc[t] = "lock")
<1> USE DEF IInv, Types
<1>1. CASE \E f \in Funcs, k \in Kinds : Construct(t, f, k)
  BY <1>1 DEF Construct, Goto, leaseVars
<1>2. CASE \E k \in Kinds \cap {"Profile", "Live"} : CheckKind(t, k)
  BY <1>2 DEF CheckKind, Goto, leaseVars
<1>3. CASE Destroy(t)
  BY <1>3, Zenon DEF Destroy, Goto, leaseVars
<1>4. CASE Step(t)
  <2>1. CASE ReadHint(t) \/ ReadHeld(t)
    BY <2>1 DEF ReadHint, ReadHeld, Fail, Goto, leaseVars, GrantInv
  <2>2. CASE Lock(t)
    BY <2>2, Zenon DEF Lock, Fail, Goto
  <2>3. CASE AmOwnerHeld(t) \/ AmOwner(t) \/ SetOwner(t) \/ SetHeld(t)
    BY <2>3 DEF AmOwnerHeld, AmOwner, SetOwner, SetHeld, HaveLease, Goto, leaseVars
  <2>4. CASE LoadOwner(t) \/ LoadJittingThreads(t) \/ AddJittingThread(t) \/ CasOwner(t)
    BY <2>4 DEF LoadOwner, LoadJittingThreads, AddJittingThread, CasOwner, Fail, Goto,
                leaseVars
  <2>5. CASE DropThread(t) \/ DropFunc(t) \/ DropHint(t) \/ DropHeld(t) \/ Dropped(t)
    BY <2>5 DEF DropThread, DropFunc, DropHint, DropHeld, Dropped, Goto, leaseVars
  <2>6. CASE Unlock(t)
    BY <2>6, Zenon DEF Unlock, Goto
  <2> QED
    BY Zenon, <1>4, <2>1, <2>2, <2>3, <2>4, <2>5, <2>6 DEF Step
<1> QED
  BY <1>1, <1>2, <1>3, <1>4 DEF Translate

LEMMA GrantNext == IdleInv /\ IInv /\ GrantInv /\ [SNext]_allVars => GrantInv'
<1> SUFFICES ASSUME IdleInv, IInv, GrantInv, [SNext]_allVars PROVE GrantInv'
  BY Zenon
<1>1. ASSUME NEW t \in Threads, Translate(t) PROVE GrantInv'
  <2>1. blocking' = blocking /\ threadCanAcquire' = threadCanAcquire
    BY <1>1, HolderStep, Zenon DEF mayVars, blocking
  <2>2. \A u \in Threads \ {t} : pc'[u] = pc[u]
    BY <1>1, HolderStep, Zenon
  <2>3. /\ pc'[t] \in {"held", "lock"} => blocking \/ threadCanAcquire[t]
        /\ \A l \in Leases : m_lock'[l] \in {m_lock[l], NULL}
                             \/ (m_lock'[l] = t /\ pc[t] = "lock")
    BY <1>1, HolderGrant, Zenon
  <2> QED
    BY <2>1, <2>2, <2>3 DEF GrantInv
<1>2. ASSUME UNCHANGED <<m_lock, pc, threadCanAcquire>> PROVE GrantInv'
  BY <1>2, Zenon DEF GrantInv
<1>3. ASSUME NEW t \in Threads, request[t] # "jit", UNCHANGED <<m_lock, pc>>,
             NEW v, threadCanAcquire' = [threadCanAcquire EXCEPT ![t] = v]
      PROVE  GrantInv'
  BY <1>3, Returned, Zenon DEF IdleInv, LocksAreReturned, GrantInv
<1>4. ASSUME NEW t \in Threads, ProfileRequestStart(t) PROVE GrantInv'
  BY <1>2, <1>3, <1>4, Zenon DEF ProfileRequestStart, leaseVars, threadVars, mayVars
<1>5. ASSUME NEW t \in Threads, ExchangeSingleJitLock(t) PROVE GrantInv'
  BY Zenon, <1>3, <1>5 DEF ExchangeSingleJitLock, leaseVars, threadVars
<1>6. ASSUME NEW t \in Threads,
             \/ TestSingleJit(t) \/ LoadConcurrentCount(t) \/ CasConcurrentCount(t)
             \/ ProfileRequestEnd(t) \/ CountSingleJit(t)
             \/ ReleaseSingleJitLock(t) \/ ReleaseConcurrentCount(t)
      PROVE  UNCHANGED <<m_lock, pc, threadCanAcquire>>
  BY Zenon, <1>6 DEF TestSingleJit, LoadConcurrentCount, CasConcurrentCount, ProfileRequestEnd,
              CountSingleJit, ReleaseSingleJitLock, ReleaseConcurrentCount,
              vars, leaseVars, threadVars, mayVars
<1>7. ASSUME NEW l \in Leases, HintExpires(l)
      PROVE  UNCHANGED <<m_lock, pc, threadCanAcquire>>
  BY <1>7, Zenon DEF HintExpires, Expire, threadVars, mayVars
<1>8. CASE UNCHANGED allVars
  BY <1>2, <1>8, Zenon DEF allVars, vars, leaseVars, threadVars, mayVars
<1> QED
  BY <1>1, <1>2, <1>4, <1>5, <1>6, <1>7, <1>8 DEF SNext

LEMMA WarmInit == SInit => WarmInv
<1> SUFFICES ASSUME SInit PROVE WarmInv
  BY Zenon
<1>1. \A t \in Threads : request[t] \notin {"load", "cas", "jit"}
  BY Zenon DEF SInit
<1>2. singleJitRequests \in Nat
  BY Zenon DEF SInit
<1> QED
  BY <1>1, <1>2, Zenon DEF WarmInv

LEMMA WarmNext ==
  IdleInv /\ IInv /\ LockInv /\ CountInv /\ WarmInv /\ [SNext]_allVars => WarmInv'
<1> SUFFICES ASSUME IdleInv, IInv, LockInv, CountInv, WarmInv, [SNext]_allVars
             PROVE  WarmInv'
  BY Zenon
<1> USE Settings DEF WarmInv, IdleInv, LockInv, CountInv
<1>1. ASSUME UNCHANGED mayVars, UNCHANGED jitVars PROVE WarmInv'
  BY <1>1, Zenon DEF mayVars, jitVars
<1>2. ASSUME NEW t \in Threads, ProfileRequestStart(t) PROVE WarmInv'
  <2>1. /\ request'[t] \in {"interp", "test"}
        /\ \A u \in Threads \ {t} :
             /\ request'[u] = request[u]
             /\ threadCanAcquire'[u] = threadCanAcquire[u]
             /\ threadCanAcquireConcurrent'[u] = threadCanAcquireConcurrent[u]
        /\ UNCHANGED <<acquiredSingleJit, acquiredSingleJitConcurrent, singleJitRequests>>
    BY <1>2 DEF ProfileRequestStart, Serve, mayVars
  <2> QED
    BY <2>1
<1>3. ASSUME NEW t \in Threads, TestSingleJit(t) PROVE WarmInv'
  BY <1>3 DEF TestSingleJit, Serve, vars, mayVars
<1>4. ASSUME NEW t \in Threads, ExchangeSingleJitLock(t) PROVE WarmInv'
  BY <1>4 DEF ExchangeSingleJitLock, Serve
<1>5. ASSUME NEW t \in Threads, LoadConcurrentCount(t) PROVE WarmInv'
  BY <1>5 DEF LoadConcurrentCount, RefuseConcurrent, Serve
<1>6. ASSUME NEW t \in Threads, CasConcurrentCount(t) PROVE WarmInv'
  BY <1>6 DEF CasConcurrentCount, RefuseConcurrent, Serve
<1>7. ASSUME NEW t \in Threads, ProfileRequestEnd(t) PROVE WarmInv'
  BY <1>7 DEF ProfileRequestEnd, Serve, vars, mayVars
<1>8. ASSUME NEW t \in Threads, CountSingleJit(t) PROVE WarmInv'
  BY <1>8 DEF CountSingleJit, Serve, vars, mayVars
<1>9. ASSUME NEW t \in Threads, ReleaseSingleJitLock(t) PROVE WarmInv'
  BY <1>9 DEF ReleaseSingleJitLock, Serve, vars, mayVars
<1>10. ASSUME NEW t \in Threads, ReleaseConcurrentCount(t) PROVE WarmInv'
  BY <1>10 DEF ReleaseConcurrentCount, Serve, vars, mayVars
<1>11. ASSUME NEW t \in Threads, Translate(t) PROVE WarmInv'
  BY <1>1, <1>11, HolderStep
<1>12. ASSUME NEW l \in Leases, HintExpires(l) PROVE WarmInv'
  BY Zenon, <1>1, <1>12 DEF HintExpires, Expire
<1>13. CASE UNCHANGED allVars
  BY <1>1, <1>13, Zenon DEF allVars, vars
<1> QED
  BY Zenon, <1>2, <1>3, <1>4, <1>5, <1>6, <1>7, <1>8, <1>9, <1>10, <1>11, <1>12, <1>13 DEF SNext

LEMMA Limited ==
  IdleInv /\ IInv /\ LockInv /\ CountInv /\ GrantInv /\ WarmInv => WarmUpIsLimited
<1> SUFFICES ASSUME IdleInv, IInv, LockInv, CountInv, GrantInv, WarmInv,
                    singleJitRequests < EvalNumSingleJitRequests
             PROVE  LET leasing == {t \in Threads : request[t] = "jit" /\ threadCanAcquire[t]}
                        concurrent == {t \in Threads : request[t] = "jit"
                                                       /\ threadCanAcquireConcurrent[t]} IN
                    /\ \A t, u \in leasing : t = u
                    /\ ~blocking => \A l \in Leases : m_lock[l] \in leasing \cup {NULL}
                    /\ EvalJitConcurrently > 0 => Cardinality(concurrent) <= EvalJitThreads
  BY Zenon DEF WarmUpIsLimited
<1>1. \A t, u \in Threads :
        (/\ request[t] = "jit" /\ threadCanAcquire[t]
         /\ request[u] = "jit" /\ threadCanAcquire[u]) => t = u
  BY Zenon DEF WarmInv, LockInv
<1>2. ASSUME ~blocking, NEW l \in Leases, m_lock[l] # NULL
      PROVE  m_lock[l] \in {t \in Threads : request[t] = "jit" /\ threadCanAcquire[t]}
  <2>2. PICK t \in Threads : m_lock[l] = t
    BY <1>2, Zenon DEF IInv, Types
  <2>3. request[t] = "jit"
    BY <2>2, Returned, Zenon DEF IdleInv, LocksAreReturned
  <2>4. threadCanAcquire[t]
    BY <1>2, <2>2, Zenon DEF GrantInv
  <2> QED
    BY <2>2, <2>3, <2>4
<1>3. ASSUME EvalJitConcurrently > 0
      PROVE  Cardinality({t \in Threads : request[t] = "jit"
                                          /\ threadCanAcquireConcurrent[t]})
               <= EvalJitThreads
  <2> DEFINE granted == {t \in Threads : request[t] = "jit" /\ threadCanAcquireConcurrent[t]}
  <2>2. /\ IsFiniteSet(granted) /\ IsFiniteSet(Counted)
        /\ Cardinality(granted) <= Cardinality(Counted)
    BY <1>3, FS_Subset DEF CountInv, WarmInv, Counted
  <2>3. Cardinality(granted) \in Nat
    BY <2>2, FS_CardinalityType, Zenon
  <2> HIDE DEF granted
  <2>4. Cardinality(granted) <= EvalJitThreads
    BY <2>2, <2>3, Settings DEF CountInv
  <2> QED
    BY <2>4, Zenon DEF granted
<1> QED
  BY <1>1, <1>2, <1>3

\* Until Eval.NumSingleJitRequests requests have finished, one request at a time
\* may lock Leases and at most Eval.JitThreads requests translate at level Func.
THEOREM WarmUpLimited == SSpec => []WarmUpIsLimited
BY RequestsKeep, LockInit, LockNext, CountInit, CountNext, GrantInit, GrantNext,
   WarmInit, WarmNext, Limited, PTL DEF SSpec

=============================================================================
