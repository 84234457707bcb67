-------------------------- MODULE WriteLeaseProofs --------------------------
(***************************************************************************)
(* The inductive invariant of WriteLease: how the nested holders of a      *)
(* thread, the Leases and s_funcOwners agree, how the steps that take,     *)
(* note and drop locks keep it, and what follows: holders keep their       *)
(* locks, translations exclude each other, and every lock is returned.     *)
(***************************************************************************)
EXTENDS WriteLease, TLAPS

LEMMA Constants == NULL \notin Threads /\ EvalJitConcurrently \in Nat
BY WriteLeaseAssumption, Zenon

USE Constants, LeaseNull, SMTT(15), ZenonT(15)

-----------------------------------------------------------------------------
(* Sequences.                                                              *)

LEMMA SeqFacts ==
  ASSUME NEW S, NEW s \in Seq(S)
  PROVE  /\ Len(s) \in Nat
         /\ DOMAIN s = 1 .. Len(s)
         /\ s \in [1 .. Len(s) -> S]
         /\ \A i \in 1 .. Len(s) : s[i] \in S
         /\ s # <<>> <=> Len(s) > 0
OBVIOUS

LEMMA EmptyFacts == Len(<<>>) = 0 /\ \A S : <<>> \in Seq(S)
OBVIOUS

LEMMA AppendFacts ==
  ASSUME NEW S, NEW s \in Seq(S), NEW e \in S
  PROVE  /\ Append(s, e) \in Seq(S)
         /\ Append(s, e) # <<>>
         /\ Len(Append(s, e)) = Len(s) + 1
         /\ Append(s, e)[Len(s) + 1] = e
         /\ \A i \in 1 .. Len(s) : Append(s, e)[i] = s[i]
OBVIOUS

LEMMA PrefixFacts ==
  ASSUME NEW S, NEW s \in Seq(S), NEW n \in 0 .. Len(s)
  PROVE  /\ SubSeq(s, 1, n) \in Seq(S)
         /\ Len(SubSeq(s, 1, n)) = n
         /\ \A i \in 1 .. n : SubSeq(s, 1, n)[i] = s[i]
OBVIOUS

-----------------------------------------------------------------------------
(* Levels and leases.                                                      *)

LEMMA Levels ==
  ASSUME NEW kind \in TransKinds
  PROVE  /\ lockLevel(kind) \in {"Func", "Kind", "Global"}
         /\ lockLevel(kind) = "Global" <=> EvalJitConcurrently = 0
         /\ lockLevel(kind) = "Kind" => kind \in {"Optimize", "Live"}
BY DEF lockLevel, TransKinds

LEMMA LeasesOfKinds ==
  ASSUME NEW kind \in TransKinds
  PROVE  /\ LeaseOf(kind) \in Leases \cup {NULL}
         /\ LeaseOf(kind) = NULL <=> lockLevel(kind) = "Func"
         /\ EvalJitConcurrently = 0 => LeaseOf(kind) = "global"
         /\ LeaseOf(kind) # NULL /\ kind = "Profile" => EvalJitConcurrently = 0
BY Levels, Zenon DEF LeaseOf, Leases, TransKinds

-----------------------------------------------------------------------------
(* The holders of one thread, whose label is p.                            *)

Asking == {"amOwner", "owner", "acquire", "held", "lock", "take", "hold"}
Acquiring == {"acquire", "held", "lock", "take", "hold"}
Claiming == {"func", "threads", "add", "cas"}


HasFunc(hs, f) == \E i \in 1..Len(hs) : hs[i].m_acquiredFunc /\ hs[i].m_func = f
HasLease(hs, l) == \E i \in 1..Len(hs) : hs[i].m_acquiredLease = l

\* What a holder acquired is the lease its kind may ask for.
Fits(h) ==
  h.m_acquiredLease # NULL =>
    h.m_acquiredLease = LeaseOf(IF h.kind = "Optimize" THEN "Optimize" ELSE "Live")

\* The level a holder has got is the level of its kind.
LevelFits(h) ==
  h.m_level # "None" =>
    /\ h.m_level = "Global" <=> EvalJitConcurrently = 0
    /\ h.m_level = "Kind" => lockLevel(h.kind) = "Kind"

\* The locks that holder i needs were acquired by it or by one it nests in.
LocksBelow(hs, i) ==
  /\ EvalJitConcurrently > 0 =>
       \E j \in 1..i : hs[j].m_acquiredFunc /\ hs[j].m_func = hs[i].m_func
  /\ hs[i].m_level \in {"Kind", "Global"} =>
       \E j \in 1..i : hs[j].m_acquiredLease = LeaseOf(hs[i].kind)

\* No lock was acquired twice.
Distinct(hs) ==
  \A i, j \in 1..Len(hs) :
    \/ i = j
    \/ /\ hs[i].m_acquiredFunc /\ hs[j].m_acquiredFunc => hs[i].m_func # hs[j].m_func
       /\ hs[i].m_acquiredLease # NULL => hs[i].m_acquiredLease # hs[j].m_acquiredLease

Stack(hs) ==
  /\ \A i \in 1..Len(hs) :
       /\ Fits(hs[i]) /\ LevelFits(hs[i])
       /\ hs[i].m_level # "None" => LocksBelow(hs, i)
       /\ hs[i].m_level = "None" => i = Len(hs)
  /\ Distinct(hs)

\* What is known of the holder at work at each label.
TopFits(h, p, hs) ==
  /\ p = "run" => h.m_level # "None"
  /\ p \in Asking =>
       /\ LeaseOf(h.kind) # NULL
       /\ h.m_level \in {"None", "Func"}
       /\ h.m_level = "None" =>
            ~h.m_acquiredFunc /\ ~h.m_acquiredThread /\ h.m_acquiredLease = NULL
  /\ p \in Acquiring => h.m_acquiredLease = NULL
  /\ p \in Claiming =>
       /\ EvalJitConcurrently > 0
       /\ h.m_level = "None" /\ ~h.m_acquiredFunc
       /\ p # "cas" => ~h.m_acquiredThread
       /\ LeaseOf(h.kind) # NULL => HasLease(hs, LeaseOf(h.kind))
  /\ p \in {"dropFunc", "dropLease", "dropHeld", "unlock", "dropped"} =>
       h.m_level = "None" /\ ~h.m_acquiredThread
  /\ p \in {"dropLease", "dropHeld", "unlock", "dropped"} => ~h.m_acquiredFunc
  /\ p \in {"dropLease", "dropHeld", "unlock"} => h.m_acquiredLease # NULL
  /\ p = "dropped" => h.m_acquiredLease = NULL

ThreadOK(t) ==
  /\ Stack(holders[t])
  /\ holders[t] # <<>> => TopFits(Top(t), pc[t], holders[t])

(* How the locks and the holders agree.                                    *)

\* t has the mutex of l but has not noted so, or has given up m_held only.
Taking(t, l) == pc[t] \in {"take", "hold"} /\ LeaseOf(Top(t).kind) = l
Unlocking(t, l) == pc[t] = "unlock" /\ Top(t).m_acquiredLease = l

Linked(t) ==
  /\ \A f \in Funcs : s_funcOwners[f] = t <=> HasFunc(holders[t], f)
  /\ \A l \in Leases :
       /\ m_lock[l] = t <=> HasLease(holders[t], l) \/ Taking(t, l)
       /\ HasLease(holders[t], l) => m_owner[l] = t /\ (m_held[l] \/ Unlocking(t, l))
       /\ Taking(t, l) => ~HasLease(holders[t], l) /\ (pc[t] = "hold" => m_owner[l] = t)
       /\ Unlocking(t, l) => ~m_held[l]
       /\ pc[t] = "owner" /\ LeaseOf(Top(t).kind) = l /\ m_owner[l] = t
            => m_held[l] /\ m_lock[l] = t

HeldInv == \A l \in Leases : m_held[l] => m_lock[l] # NULL /\ m_owner[l] = m_lock[l]

Types ==
  /\ m_lock \in [Leases -> Threads \cup {NULL}]
  /\ m_owner \in [Leases -> Threads \cup {NULL}]
  /\ m_held \in [Leases -> BOOLEAN]
  /\ s_funcOwners \in [Funcs -> Threads \cup {NULL}]
  /\ holders \in [Threads -> Seq(Holder)]
  /\ pc \in [Threads -> Labels]
  /\ \A t \in Threads : pc[t] # "run" => holders[t] # <<>>

IInv ==
  /\ Types
  /\ \A t \in Threads : ThreadOK(t)
  /\ \A t \in Threads : Linked(t)
  /\ HeldInv

LEMMA InitIInv == Init => IInv
<1> SUFFICES ASSUME Init PROVE IInv
  BY Zenon
<1>1. Types
  BY SeqFacts, EmptyFacts, Zenon DEF Init, Types, Labels
<1>2. ASSUME NEW t \in Threads PROVE ThreadOK(t)
  BY SeqFacts, EmptyFacts DEF Init, ThreadOK, Stack, Distinct
<1>3. ASSUME NEW t \in Threads PROVE Linked(t)
  BY SeqFacts, EmptyFacts DEF Init, Linked, HasFunc, HasLease, Taking, Unlocking
<1>4. HeldInv
  BY Zenon DEF Init, HeldInv
<1> QED
  BY <1>1, <1>2, <1>3, <1>4, Zenon DEF IInv

-----------------------------------------------------------------------------
(* Changing the holder at work.                                            *)

\* hs with h as its last holder.
Replaced(hs, h) == [hs EXCEPT ![Len(hs)] = h]

LEMMA ReplacedSeq ==
  ASSUME NEW hs \in Seq(Holder), hs # <<>>, NEW h \in Holder
  PROVE  /\ Replaced(hs, h) \in Seq(Holder) /\ Replaced(hs, h) # <<>>
         /\ Len(hs) \in Nat /\ Len(hs) >= 1 /\ Len(hs) \in 1..Len(hs)
         /\ hs[Len(hs)] \in Holder
         /\ Len(Replaced(hs, h)) = Len(hs)
         /\ Replaced(hs, h)[Len(hs)] = h
         /\ \A i \in 1..Len(hs) : i # Len(hs) => Replaced(hs, h)[i] = hs[i]
<1>1. Len(hs) \in Nat /\ Len(hs) >= 1
  BY SeqFacts, EmptyFacts
<1>2. Len(hs) \in 1..Len(hs) /\ hs[Len(hs)] \in Holder
  BY <1>1, SeqFacts
<1>3. hs \in [1..Len(hs) -> Holder]
  BY SeqFacts, Zenon
<1>4. Replaced(hs, h) \in [1..Len(hs) -> Holder]
  BY <1>3, Zenon DEF Replaced
<1>5. Replaced(hs, h) \in Seq(Holder) /\ Len(Replaced(hs, h)) = Len(hs)
  BY <1>1, <1>4, SeqFacts
<1> QED
  BY Zenon, <1>1, <1>2, <1>3, <1>5, SeqFacts DEF Replaced

\* The last holder may change as long as its own locks remain.
LEMMA ReplacedStack ==
  ASSUME NEW hs \in Seq(Holder), hs # <<>>, Stack(hs), NEW h \in Holder,
         Fits(h), LevelFits(h),
         h.m_level # "None" => LocksBelow(Replaced(hs, h), Len(hs)),
         \A i \in 1..Len(hs) : i # Len(hs) =>
           /\ h.m_acquiredFunc /\ hs[i].m_acquiredFunc => hs[i].m_func # h.m_func
           /\ h.m_acquiredLease # NULL => hs[i].m_acquiredLease # h.m_acquiredLease
  PROVE  Stack(Replaced(hs, h))
<1> DEFINE gs == Replaced(hs, h)
           n == Len(hs)
<1>1. /\ n \in Nat /\ n >= 1 /\ Len(gs) = n /\ gs[n] = h
      /\ \A i \in 1..n : i # n => gs[i] = hs[i]
  BY ReplacedSeq, Zenon
<1> HIDE DEF gs
<1>2. ASSUME NEW i \in 1..n, i # n, hs[i].m_level # "None" PROVE LocksBelow(gs, i)
  <2>1. \A j \in 1..i : j \in 1..n /\ gs[j] = hs[j]
    BY <1>1, <1>2
  <2>2. LocksBelow(hs, i)
    BY <1>2, Zenon DEF Stack
  <2>3. i \in 1..i
    BY <1>1
  <2> QED
    BY <2>1, <2>2, <2>3 DEF LocksBelow
<1>3. \A i \in 1..n :
        /\ Fits(gs[i]) /\ LevelFits(gs[i])
        /\ gs[i].m_level # "None" => LocksBelow(gs, i)
        /\ gs[i].m_level = "None" => i = n
  BY <1>1, <1>2, Zenon DEF Stack, gs
<1>4. Distinct(gs)
  BY <1>1 DEF Stack, Distinct
<1> QED
  BY <1>1, <1>3, <1>4, Zenon DEF Stack, gs

\* Who owns what when the last holder changes.
FuncBelow(hs, f) ==
  \E i \in 1..Len(hs) : i # Len(hs) /\ hs[i].m_acquiredFunc /\ hs[i].m_func = f
LeaseBelow(hs, l) ==
  \E i \in 1..Len(hs) : i # Len(hs) /\ hs[i].m_acquiredLease = l

LEMMA LastHas ==
  ASSUME NEW hs \in Seq(Holder), hs # <<>>
  PROVE  /\ \A f : HasFunc(hs, f) <=>
               FuncBelow(hs, f) \/ (hs[Len(hs)].m_acquiredFunc /\ hs[Len(hs)].m_func = f)
         /\ \A l : HasLease(hs, l) <=>
               LeaseBelow(hs, l) \/ hs[Len(hs)].m_acquiredLease = l
BY SeqFacts, EmptyFacts DEF HasFunc, HasLease, FuncBelow, LeaseBelow

LEMMA ReplacedHas ==
  ASSUME NEW hs \in Seq(Holder), hs # <<>>, NEW h \in Holder
  PROVE  /\ \A f : HasFunc(Replaced(hs, h), f) <=>
               FuncBelow(hs, f) \/ (h.m_acquiredFunc /\ h.m_func = f)
         /\ \A l : HasLease(Replaced(hs, h), l) <=>
               LeaseBelow(hs, l) \/ h.m_acquiredLease = l
<1> DEFINE gs == Replaced(hs, h)
<1>1. /\ gs \in Seq(Holder) /\ gs # <<>> /\ Len(gs) = Len(hs) /\ gs[Len(hs)] = h
      /\ \A i \in 1..Len(hs) : i # Len(hs) => gs[i] = hs[i]
  BY ReplacedSeq, Zenon
<1> HIDE DEF gs
<1>2. /\ \A f : FuncBelow(gs, f) <=> FuncBelow(hs, f)
      /\ \A l : LeaseBelow(gs, l) <=> LeaseBelow(hs, l)
  BY <1>1, Zenon DEF FuncBelow, LeaseBelow
<1> QED
  BY <1>1, <1>2, LastHas DEF gs

\* What the last holder acquired, no other did.
LEMMA LastAlone ==
  ASSUME NEW hs \in Seq(Holder), hs # <<>>, Stack(hs)
  PROVE  /\ hs[Len(hs)].m_acquiredFunc => ~FuncBelow(hs, hs[Len(hs)].m_func)
         /\ hs[Len(hs)].m_acquiredLease # NULL =>
              ~LeaseBelow(hs, hs[Len(hs)].m_acquiredLease)
BY SeqFacts, EmptyFacts DEF Stack, Distinct, FuncBelow, LeaseBelow

-----------------------------------------------------------------------------
(* What a step of thread t means for another thread.                       *)

Frame(t) ==
  /\ Types'
  /\ \A u \in Threads \ {t} :
       /\ holders'[u] = holders[u] /\ pc'[u] = pc[u]
       /\ \A f \in Funcs : s_funcOwners'[f] = u <=> s_funcOwners[f] = u
       /\ \A l \in Leases :
            /\ m_lock'[l] = u <=> m_lock[l] = u
            /\ m_lock[l] = u => m_owner'[l] = m_owner[l] /\ m_held'[l] = m_held[l]
            /\ m_owner'[l] = u => m_owner[l] = u

LEMMA FrameKeepsOthers ==
  ASSUME IInv, NEW t \in Threads, Frame(t), NEW u \in Threads, u # t
  PROVE  ThreadOK(u)' /\ Linked(u)'
<1>1. ThreadOK(u) /\ Linked(u)
  BY Zenon DEF IInv
<1>2. holders'[u] = holders[u] /\ pc'[u] = pc[u]
  BY Zenon DEF Frame
<1>3. ThreadOK(u)'
  BY <1>1, <1>2, Zenon DEF ThreadOK, Top
<1>4. \A f \in Funcs : s_funcOwners'[f] = u <=> HasFunc(holders'[u], f)
  BY <1>1, <1>2 DEF Frame, Linked
<1>5. ASSUME NEW l \in Leases
      PROVE  /\ Taking(u, l)' <=> Taking(u, l)
             /\ Unlocking(u, l)' <=> Unlocking(u, l)
             /\ Unlocking(u, l) => HasLease(holders[u], l)
             /\ (pc[u] = "owner" /\ LeaseOf(Top(u).kind) = l)'
                  <=> (pc[u] = "owner" /\ LeaseOf(Top(u).kind) = l)
  BY LastHas, <1>2, Zenon DEF IInv, Types, Unlocking, Top, Taking
<1>6. Linked(u)'
  BY <1>1, <1>2, <1>5, <1>4 DEF Linked, Frame
<1> QED
  BY <1>3, <1>6, Zenon

LEMMA StepKeepsIInv ==
  ASSUME IInv, NEW t \in Threads, Frame(t), ThreadOK(t)', Linked(t)', HeldInv'
  PROVE  IInv'
<1>1. \A u \in Threads : ThreadOK(u)' /\ Linked(u)'
  BY FrameKeepsOthers, Zenon
<1> QED
  BY <1>1, Zenon DEF IInv, Frame

-----------------------------------------------------------------------------
(* Kinds of steps.                                                         *)

\* The locks of the last holder may be any of its thread's.
LEMMA LocksOfLast ==
  ASSUME NEW hs \in Seq(Holder), hs # <<>>
  PROVE  LocksBelow(hs, Len(hs)) <=>
           LET h == hs[Len(hs)] IN
           /\ EvalJitConcurrently > 0 => HasFunc(hs, h.m_func)
           /\ h.m_level \in {"Kind", "Global"} => HasLease(hs, LeaseOf(h.kind))
BY Zenon DEF LocksBelow, HasFunc, HasLease

LEMMA LastStep ==
  ASSUME IInv, NEW t \in Threads, holders[t] # <<>>, NEW h \in Holder, NEW p \in Labels,
         SetTop(t, h), Goto(t, p),
         h.m_func = Top(t).m_func, Fits(h), LevelFits(h),
         h.m_level # "None" =>
           /\ EvalJitConcurrently > 0 => FuncBelow(holders[t], h.m_func) \/ h.m_acquiredFunc
           /\ h.m_level \in {"Kind", "Global"} =>
                \/ LeaseBelow(holders[t], LeaseOf(h.kind))
                \/ h.m_acquiredLease = LeaseOf(h.kind),
         h.m_acquiredFunc => ~FuncBelow(holders[t], h.m_func),
         h.m_acquiredLease # NULL => ~LeaseBelow(holders[t], h.m_acquiredLease),
         TopFits(h, p, Replaced(holders[t], h))
  PROVE  /\ ThreadOK(t)'
         /\ holders' = [holders EXCEPT ![t] = Replaced(holders[t], h)]
         /\ holders' \in [Threads -> Seq(Holder)] /\ pc' \in [Threads -> Labels]
         /\ holders'[t] # <<>> /\ Top(t)' = h
         /\ \A u \in Threads : pc'[u] # "run" => holders'[u] # <<>>
<1> DEFINE hs == holders[t]
           gs == Replaced(hs, h)
<1>1. hs \in Seq(Holder) /\ Stack(hs) /\ holders \in [Threads -> Seq(Holder)]
  BY Zenon DEF IInv, Types, ThreadOK
<1>2. /\ gs \in Seq(Holder) /\ gs # <<>> /\ Len(gs) = Len(hs) /\ gs[Len(hs)] = h
  BY <1>1, ReplacedSeq, Zenon
<1>3. holders' = [holders EXCEPT ![t] = gs]
  BY <1>1, Zenon DEF SetTop, Replaced
<1>4. /\ \A f : HasFunc(gs, f) <=> FuncBelow(hs, f) \/ (h.m_acquiredFunc /\ h.m_func = f)
      /\ \A l : HasLease(gs, l) <=> LeaseBelow(hs, l) \/ h.m_acquiredLease = l
  BY <1>1, ReplacedHas, Zenon
<1> HIDE DEF gs
<1>5. h.m_level # "None" => LocksBelow(gs, Len(hs))
  BY <1>2, <1>4, LocksOfLast, Zenon
<1>6. Stack(gs)
  BY <1>1, <1>5, ReplacedStack, Zenon DEF FuncBelow, LeaseBelow, gs
<1>7. holders'[t] = gs /\ Top(t)' = h /\ pc'[t] = p
  BY <1>1, <1>2, <1>3, Zenon DEF Top, Goto, IInv, Types
<1>8. ThreadOK(t)'
  BY <1>6, <1>7, Zenon DEF ThreadOK, gs
<1>9. holders' \in [Threads -> Seq(Holder)] /\ pc' \in [Threads -> Labels]
  BY <1>1, <1>2, <1>3, Zenon DEF Goto, IInv, Types
<1>10. \A u \in Threads : pc'[u] # "run" => holders'[u] # <<>>
  BY <1>1, <1>2, <1>3, Zenon DEF Goto, IInv, Types
<1> QED
  BY <1>2, <1>3, <1>7, <1>8, <1>9, <1>10, Zenon DEF gs

\* The holder at work changes, its locks do not.
LEMMA TopStep ==
  ASSUME IInv, NEW t \in Threads, holders[t] # <<>>, NEW h \in Holder,
         NEW p \in Labels \ {"owner", "take", "hold", "unlock"},
         pc[t] \notin {"take", "hold", "unlock"},
         SetTop(t, h), Goto(t, p), UNCHANGED <<m_lock, m_owner, m_held, s_funcOwners>>,
         h.m_func = Top(t).m_func, h.m_acquiredFunc = Top(t).m_acquiredFunc,
         h.m_acquiredLease = Top(t).m_acquiredLease,
         Fits(h), LevelFits(h),
         h.m_level # "None" =>
           /\ EvalJitConcurrently > 0 => HasFunc(holders[t], h.m_func)
           /\ h.m_level \in {"Kind", "Global"} => HasLease(holders[t], LeaseOf(h.kind)),
         TopFits(h, p, holders[t])
  PROVE  IInv'
<1> DEFINE hs == holders[t]
           gs == Replaced(hs, h)
<1>1. hs \in Seq(Holder) /\ Stack(hs) /\ hs[Len(hs)] = Top(t)
  BY Zenon DEF IInv, Types, ThreadOK, Top
<1>2. /\ \A f : HasFunc(gs, f) <=> HasFunc(hs, f)
      /\ \A l : HasLease(gs, l) <=> HasLease(hs, l)
  BY <1>1, LastHas, ReplacedHas
<1>3. TopFits(h, p, gs)
  BY <1>2, Zenon DEF TopFits
<1>4. /\ h.m_acquiredFunc => ~FuncBelow(hs, h.m_func)
      /\ h.m_acquiredLease # NULL => ~LeaseBelow(hs, h.m_acquiredLease)
  BY <1>1, LastAlone, Zenon
<1>5. /\ \A f : HasFunc(hs, f) <=> FuncBelow(hs, f) \/ (h.m_acquiredFunc /\ h.m_func = f)
      /\ \A l : HasLease(hs, l) <=> LeaseBelow(hs, l) \/ h.m_acquiredLease = l
  BY <1>1, LastHas
<1>6. /\ ThreadOK(t)'
      /\ holders' = [holders EXCEPT ![t] = gs]
      /\ holders' \in [Threads -> Seq(Holder)] /\ pc' \in [Threads -> Labels]
      /\ holders'[t] # <<>> /\ Top(t)' = h
      /\ \A u \in Threads : pc'[u] # "run" => holders'[u] # <<>>
  BY <1>3, <1>4, <1>5, LastStep, Zenon
<1>7. holders'[t] = gs /\ pc'[t] = p
  BY <1>6, Zenon DEF Goto, IInv, Types
<1>8. Frame(t)
  BY <1>6, Zenon DEF IInv, Types, Frame, Goto
<1>9. Linked(t)'
  BY <1>7, <1>2 DEF IInv, Taking, Unlocking, Linked
<1>10. HeldInv'
  BY Zenon DEF IInv, HeldInv
<1> QED
  BY <1>6, <1>8, <1>9, <1>10, StepKeepsIInv, Zenon

\* Only the label changes.
LEMMA PcStep ==
  ASSUME IInv, NEW t \in Threads, holders[t] # <<>>,
         NEW p \in Labels \ {"take", "hold", "unlock"},
         pc[t] \notin {"take", "hold", "unlock"},
         Goto(t, p), UNCHANGED <<m_lock, m_owner, m_held, s_funcOwners, holders>>,
         TopFits(Top(t), p, holders[t]),
         p = "owner" => LET l == LeaseOf(Top(t).kind) IN
                        m_owner[l] = t => m_held[l] /\ m_lock[l] = t
  PROVE  IInv'
<1>1. pc' \in [Threads -> Labels] /\ pc'[t] = p /\ \A u \in Threads \ {t} : pc'[u] = pc[u]
  BY Zenon DEF Goto, IInv, Types
<1>2. Types'
  BY <1>1, Zenon DEF IInv, Types
<1>3. Frame(t)
  BY <1>1, <1>2, Zenon DEF Frame
<1>4. Top(t)' = Top(t)
  BY Zenon DEF Top
<1>5. ThreadOK(t)'
  BY <1>1, <1>4, Zenon DEF IInv, ThreadOK
<1>6. Linked(t)'
  BY <1>1, <1>4 DEF IInv, Taking, Unlocking, Linked
<1>7. HeldInv'
  BY Zenon DEF IInv, HeldInv
<1> QED
  BY <1>3, <1>5, <1>6, <1>7, StepKeepsIInv, Zenon

\* Nothing that the invariant speaks of changes.
LEMMA Stutter ==
  ASSUME IInv, UNCHANGED <<m_lock, m_owner, m_held, s_funcOwners, holders, pc>> PROVE IInv'
BY DEF IInv, Types, HeldInv, ThreadOK, Linked, Taking, Unlocking, Top

LEMMA TopFacts ==
  ASSUME IInv, NEW t \in Threads, holders[t] # <<>>
  PROVE  /\ holders[t] \in Seq(Holder)
         /\ Top(t) \in Holder /\ Top(t).kind \in TransKinds /\ Top(t).m_func \in Funcs
         /\ Fits(Top(t)) /\ LevelFits(Top(t))
         /\ TopFits(Top(t), pc[t], holders[t])
         /\ Top(t).m_level # "None" =>
              /\ EvalJitConcurrently > 0 => HasFunc(holders[t], Top(t).m_func)
              /\ Top(t).m_level \in {"Kind", "Global"} =>
                   HasLease(holders[t], LeaseOf(Top(t).kind))
<1>1. holders[t] \in Seq(Holder) /\ Stack(holders[t])
  BY Zenon DEF IInv, Types, ThreadOK
<1>2. Len(holders[t]) \in 1..Len(holders[t]) /\ Top(t) \in Holder
  BY <1>1, SeqFacts, EmptyFacts DEF Top
<1>3. Fits(Top(t)) /\ LevelFits(Top(t)) /\ TopFits(Top(t), pc[t], holders[t])
  BY <1>1, <1>2, Zenon DEF Stack, Top, IInv, ThreadOK
<1>4. Top(t).m_level # "None" => LocksBelow(holders[t], Len(holders[t]))
  BY <1>1, <1>2, Zenon DEF Stack, Top
<1> QED
  BY Zenon, <1>1, <1>2, <1>3, <1>4, LocksOfLast DEF Holder, Top

\* A refused holder, or one whose scope ends, drops its locks.
LEMMA FailKeepsIInv ==
  ASSUME IInv, NEW t \in Threads, holders[t] # <<>>, Goto(t, "dropThread"),
         pc[t] \notin {"take", "hold", "unlock"},
         UNCHANGED <<m_lock, m_owner, m_held, s_funcOwners, holders>>
  PROVE  IInv'
BY PcStep, Zenon DEF TopFits, Asking, Acquiring, Claiming, Labels

LEMMA DestroyKeepsIInv ==
  ASSUME IInv, NEW t \in Threads, Destroy(t) PROVE IInv'
BY FailKeepsIInv, Zenon DEF Destroy, leaseVars, funcVars

-----------------------------------------------------------------------------
(* The steps that acquire: amOwner(), acquire() and the constructor.       *)

LEMMA NotReacquired ==
  ASSUME IInv, NEW t \in Threads, holders[t] # <<>>, pc[t] # "unlock",
         LeaseOf(Top(t).kind) \in Leases,
         ~m_held[LeaseOf(Top(t).kind)] \/ m_owner[LeaseOf(Top(t).kind)] # t
  PROVE  Top(t).m_acquiredLease = NULL
<1> DEFINE l == LeaseOf(Top(t).kind)
<1> SUFFICES ASSUME Top(t).m_acquiredLease # NULL PROVE FALSE
  BY Zenon
<1>1. Top(t).m_acquiredLease = l
  BY TopFacts, LeasesOfKinds DEF Fits, LeaseOf, TransKinds
<1>2. HasLease(holders[t], l)
  BY <1>1, TopFacts, LastHas DEF Top
<1>3. ~Unlocking(t, l)
  BY Zenon DEF Unlocking
<1> QED
  BY <1>2, <1>3, Zenon DEF IInv, Linked

LEMMA AmOwnerHeldKeepsIInv ==
  ASSUME IInv, NEW t \in Threads, AmOwnerHeld(t) PROVE IInv'
<1> DEFINE l == LeaseOf(Top(t).kind)
<1>1. /\ pc[t] = "amOwner" /\ holders[t] # <<>>
      /\ UNCHANGED <<m_lock, m_owner, m_held, s_funcOwners, holders>>
  BY Zenon DEF AmOwnerHeld, leaseVars, funcVars, IInv, Types
<1>2. Top(t).kind \in TransKinds /\ TopFits(Top(t), "amOwner", holders[t])
  BY <1>1, TopFacts, Zenon
<1>3. l \in Leases
  BY <1>2, LeasesOfKinds, Zenon DEF TopFits, Asking
<1>4. CASE m_held[l]
  BY <1>2, <1>3, <1>4, <1>1, PcStep, Zenon DEF TopFits, Asking, Acquiring, Claiming, IInv,
     HeldInv, AmOwnerHeld, Labels
<1>5. CASE ~m_held[l]
  BY <1>1, <1>3, <1>5, NotReacquired, <1>2, PcStep, Zenon DEF TopFits, Asking, Acquiring,
     Claiming, AmOwnerHeld, Labels
<1> QED
  BY <1>4, <1>5, Zenon

\* HaveLease, when the thread has the lease and no lock changes hands.
LEMMA HaveLeaseKeepsIInv ==
  ASSUME IInv, NEW t \in Threads, pc[t] = "owner",
         HasLease(holders[t], LeaseOf(Top(t).kind)), HaveLease(t, Top(t)),
         UNCHANGED <<m_lock, m_owner, m_held, s_funcOwners>>
  PROVE  IInv'
<1> DEFINE top == Top(t)
           h == [top EXCEPT !.m_level = lockLevel(top.kind)]
<1>1. holders[t] # <<>>
  BY Zenon DEF IInv, Types
<1>2. /\ top \in Holder /\ top.kind \in TransKinds
      /\ Fits(top) /\ LevelFits(top) /\ TopFits(top, "owner", holders[t])
      /\ top.m_level # "None" /\ EvalJitConcurrently > 0 => HasFunc(holders[t], top.m_func)
  BY <1>1, TopFacts, Zenon
<1>3. /\ LeaseOf(top.kind) # NULL /\ lockLevel(top.kind) \in {"Kind", "Global"}
      /\ lockLevel(top.kind) = "Global" <=> EvalJitConcurrently = 0
  BY <1>2, Levels, LeasesOfKinds, Zenon DEF TopFits, Asking
<1>4. CASE Constructing(t) /\ EvalJitConcurrently > 0
  BY <1>4, <1>2, <1>1, TopStep, Zenon DEF HaveLease, Constructing, TopFits, Asking,
     Acquiring, Claiming, Labels
<1>5. CASE ~(Constructing(t) /\ EvalJitConcurrently > 0)
  <2>1. SetTop(t, h) /\ Goto(t, "run")
    BY <1>5, Zenon DEF HaveLease
  <2>2. /\ h \in Holder /\ h.m_level = lockLevel(top.kind) /\ h.kind = top.kind
        /\ h.m_func = top.m_func /\ h.m_acquiredFunc = top.m_acquiredFunc
        /\ h.m_acquiredLease = top.m_acquiredLease
    BY <1>2, <1>3, Zenon DEF Holder
  <2> HIDE DEF h
  <2>3. Fits(h) /\ LevelFits(h)
    BY <1>2, <1>3, <2>2, Zenon DEF Fits, LevelFits
  <2>4. TopFits(h, "run", holders[t])
    BY <1>3, <2>2, Zenon DEF TopFits, Asking, Acquiring, Claiming
  <2> QED
    BY <1>1, <2>1, <2>2, <2>3, <2>4, <1>2, <1>5, TopStep, Zenon DEF Labels, Constructing
<1> QED
  BY <1>4, <1>5, Zenon

LEMMA AmOwnerKeepsIInv ==
  ASSUME IInv, NEW t \in Threads, AmOwner(t) PROVE IInv'
<1> DEFINE l == LeaseOf(Top(t).kind)
<1>1. /\ pc[t] = "owner" /\ holders[t] # <<>>
      /\ UNCHANGED <<m_lock, m_owner, m_held, s_funcOwners>>
  BY Zenon DEF AmOwner, leaseVars, funcVars, IInv, Types
<1>2. /\ Top(t) \in Holder /\ Top(t).kind \in TransKinds
      /\ TopFits(Top(t), "owner", holders[t])
  BY <1>1, TopFacts, Zenon
<1>3. l \in Leases
  BY <1>2, LeasesOfKinds, Zenon DEF TopFits, Asking
<1>4. CASE m_owner[l] = t
  <2>1. HasLease(holders[t], l)
    BY <1>1, <1>3, <1>4 DEF IInv, Linked, Taking
  <2> QED
    BY <1>1, <2>1, <1>4, HaveLeaseKeepsIInv, Zenon DEF AmOwner
<1>5. CASE m_owner[l] # t
  BY <1>1, <1>3, <1>5, NotReacquired, <1>2, PcStep, Zenon DEF TopFits, Asking, Acquiring,
     Claiming, AmOwner, Labels
<1> QED
  BY <1>4, <1>5, Zenon

LEMMA ReadHintKeepsIInv ==
  ASSUME IInv, NEW t \in Threads, ReadHint(t) PROVE IInv'
<1>1. /\ pc[t] = "acquire" /\ holders[t] # <<>>
      /\ UNCHANGED <<m_lock, m_owner, m_held, s_funcOwners, holders>>
  BY Zenon DEF ReadHint, leaseVars, funcVars, IInv, Types
<1>2. CASE Goto(t, "dropThread")
  BY <1>1, <1>2, FailKeepsIInv, Zenon
<1>3. ASSUME NEW p \in {"lock", "held"}, Goto(t, p) PROVE IInv'
  <2> QED
    BY <1>1, <1>3, TopFacts, PcStep, Zenon DEF Labels, TopFits, Asking, Acquiring, Claiming
<1> QED
  BY <1>2, <1>3, Zenon DEF ReadHint, Fail

LEMMA ReadHeldKeepsIInv ==
  ASSUME IInv, NEW t \in Threads, ReadHeld(t) PROVE IInv'
<1>1. /\ pc[t] = "held" /\ holders[t] # <<>>
      /\ UNCHANGED <<m_lock, m_owner, m_held, s_funcOwners, holders>>
  BY Zenon DEF ReadHeld, leaseVars, funcVars, IInv, Types
<1>2. CASE Goto(t, "dropThread")
  BY <1>1, <1>2, FailKeepsIInv, Zenon
<1>3. CASE Goto(t, "lock")
  <2>1. TopFits(Top(t), "lock", holders[t])
    BY <1>1, TopFacts, Zenon DEF TopFits, Asking, Acquiring, Claiming
  <2> QED
    BY <1>1, <1>3, <2>1, PcStep, Zenon DEF Labels
<1> QED
  BY <1>2, <1>3, Zenon DEF ReadHeld, Fail

LEMMA LockKeepsIInv ==
  ASSUME IInv, NEW t \in Threads, Lock(t) PROVE IInv'
<1> DEFINE l == LeaseOf(Top(t).kind)
<1>1. /\ pc[t] = "lock" /\ holders[t] # <<>>
      /\ UNCHANGED <<m_owner, m_held, s_funcOwners, holders>>
  BY Zenon DEF Lock, funcVars, IInv, Types
<1>2. Top(t).kind \in TransKinds /\ TopFits(Top(t), "lock", holders[t])
  BY <1>1, TopFacts, Zenon
<1>3. l \in Leases
  BY <1>2, LeasesOfKinds, Zenon DEF TopFits, Asking
<1>4. CASE m_lock[l] # NULL
  BY <1>1, <1>4, FailKeepsIInv, Zenon DEF Lock, Fail
<1>5. CASE m_lock[l] = NULL
  <2>1. m_lock' = [m_lock EXCEPT ![l] = t] /\ Goto(t, "take")
    BY <1>5, Zenon DEF Lock
  <2>2. pc'[t] = "take" /\ \A u \in Threads \ {t} : pc'[u] = pc[u]
    BY <2>1, Zenon DEF Goto, IInv, Types
  <2>3. /\ m_lock'[l] = t /\ \A k \in Leases \ {l} : m_lock'[k] = m_lock[k]
        /\ NULL # t /\ ~m_held[l] /\ ~HasLease(holders[t], l)
    BY <1>3, <1>5, <2>1 DEF IInv, Types, HeldInv, Linked
  <2>4. Types'
    BY <1>1, <1>3, <2>1, Zenon DEF IInv, Types, Goto, Labels
  <2>5. Frame(t)
    BY <1>1, <1>5, <2>2, <2>3, <2>4, Zenon DEF Frame
  <2>6. Top(t)' = Top(t)
    BY <1>1, Zenon DEF Top
  <2>7. ThreadOK(t)'
    <3>1. TopFits(Top(t), "take", holders[t])
      BY <1>2, Zenon DEF TopFits, Asking, Acquiring, Claiming
    <3> QED
      BY <1>1, <2>2, <2>6, <3>1, Zenon DEF IInv, ThreadOK
  <2>8. Linked(t)'
    BY <1>1, <2>2, <2>6, <2>3 DEF IInv, Taking, Unlocking, Linked
  <2>9. HeldInv'
    BY <1>1, <2>3, Zenon DEF IInv, HeldInv
  <2> QED
    BY <2>5, <2>7, <2>8, <2>9, StepKeepsIInv, Zenon
<1> QED
  BY <1>4, <1>5, Zenon

LEMMA SetOwnerKeepsIInv ==
  ASSUME IInv, NEW t \in Threads, SetOwner(t) PROVE IInv'
<1> DEFINE l == LeaseOf(Top(t).kind)
<1>1. /\ pc[t] = "take" /\ holders[t] # <<>> /\ Goto(t, "hold")
      /\ UNCHANGED <<m_lock, m_held, s_funcOwners, holders>>
      /\ m_owner' = [m_owner EXCEPT ![l] = t]
  BY Zenon DEF SetOwner, funcVars, IInv, Types
<1>2. Top(t).kind \in TransKinds /\ TopFits(Top(t), "take", holders[t])
  BY <1>1, TopFacts, Zenon
<1>3. l \in Leases
  BY <1>2, LeasesOfKinds, Zenon DEF TopFits, Asking
<1>4. m_lock[l] = t /\ ~HasLease(holders[t], l)
  BY <1>1, <1>3 DEF IInv, Linked, Taking
<1>5. /\ pc'[t] = "hold" /\ \A u \in Threads \ {t} : pc'[u] = pc[u]
      /\ m_owner'[l] = t /\ \A k \in Leases \ {l} : m_owner'[k] = m_owner[k]
  BY <1>1, <1>3, Zenon DEF Goto, IInv, Types
<1>6. Types'
  BY <1>1, <1>3, Zenon DEF IInv, Types, Goto, Labels
<1>7. Frame(t)
  BY <1>1, <1>4, <1>5, <1>6, Zenon DEF Frame
<1>8. Top(t)' = Top(t)
  BY <1>1, Zenon DEF Top
<1>9. ThreadOK(t)'
  <2>1. TopFits(Top(t), "hold", holders[t])
    BY <1>2, Zenon DEF TopFits, Asking, Acquiring, Claiming
  <2> QED
    BY <1>1, <1>5, <1>8, <2>1, Zenon DEF IInv, ThreadOK
<1>10. Linked(t)'
  BY <1>1, <1>5, <1>8, <1>4 DEF IInv, Taking, Unlocking, Linked
<1>11. HeldInv'
  BY <1>1, <1>4, <1>5, Zenon DEF IInv, HeldInv
<1> QED
  BY <1>7, <1>9, <1>10, <1>11, StepKeepsIInv, Zenon

\* SetHeld, whichever holder h it leaves: the lease changes from taken to noted.
LEMMA NoteLease ==
  ASSUME IInv, NEW t \in Threads, pc[t] = "hold", NEW l \in Leases,
         l = LeaseOf(Top(t).kind),
         NEW h \in Holder, NEW p \in {"func", "run"}, SetTop(t, h), Goto(t, p),
         h.m_func = Top(t).m_func, h.kind = Top(t).kind,
         h.m_acquiredFunc = Top(t).m_acquiredFunc, h.m_acquiredLease = l,
         LevelFits(h), TopFits(h, p, Replaced(holders[t], h)),
         h.m_level # "None" /\ EvalJitConcurrently > 0 => HasFunc(holders[t], h.m_func),
         m_held' = [m_held EXCEPT ![l] = TRUE],
         UNCHANGED <<m_lock, m_owner, s_funcOwners>>
  PROVE  IInv'
<1> DEFINE hs == holders[t]
           gs == Replaced(hs, h)
<1>1. holders[t] # <<>>
  BY Zenon DEF IInv, Types
<1>2. /\ hs \in Seq(Holder) /\ Stack(hs) /\ hs[Len(hs)] = Top(t)
      /\ Top(t).m_acquiredLease = NULL /\ Top(t).kind \in TransKinds
  BY Zenon, <1>1, TopFacts DEF TopFits, Acquiring, IInv, ThreadOK, Top
<1>3. /\ \A f : HasFunc(gs, f) <=> HasFunc(hs, f)
      /\ \A f : HasFunc(hs, f) <=> FuncBelow(hs, f) \/ (h.m_acquiredFunc /\ h.m_func = f)
      /\ \A k \in Leases : HasLease(gs, k) <=> HasLease(hs, k) \/ k = l
      /\ \A k \in Leases : HasLease(hs, k) <=> LeaseBelow(hs, k)
  BY SMTT(30), <1>1, <1>2, LastHas, ReplacedHas
<1>4. m_lock[l] = t /\ m_owner[l] = t /\ ~HasLease(hs, l)
  BY DEF IInv, Linked, Taking
<1>5. /\ h.m_acquiredFunc => ~FuncBelow(hs, h.m_func)
      /\ ~LeaseBelow(hs, h.m_acquiredLease)
  BY <1>1, <1>2, <1>3, <1>4, LastAlone
<1>6. Fits(h)
  BY <1>2, LeasesOfKinds, Zenon DEF Fits, LeaseOf, TransKinds
<1>7. /\ ThreadOK(t)'
      /\ holders' = [holders EXCEPT ![t] = gs]
      /\ holders' \in [Threads -> Seq(Holder)] /\ pc' \in [Threads -> Labels]
      /\ holders'[t] # <<>> /\ Top(t)' = h
      /\ \A u \in Threads : pc'[u] # "run" => holders'[u] # <<>>
  BY <1>1, <1>3, <1>5, <1>6, LastStep, Zenon DEF Labels
<1>8. /\ holders'[t] = gs /\ \A u \in Threads \ {t} : holders'[u] = holders[u]
      /\ pc'[t] = p /\ \A u \in Threads \ {t} : pc'[u] = pc[u]
      /\ m_held'[l] = TRUE /\ \A k \in Leases \ {l} : m_held'[k] = m_held[k]
  BY <1>7, Zenon DEF Goto, IInv, Types
<1>9. Types'
  BY <1>7, Zenon DEF IInv, Types
<1>10. Frame(t)
  BY Zenon, <1>4, <1>8, <1>9 DEF Frame
<1>11. Linked(t)'
  <2>1. Linked(t)
    BY Zenon DEF IInv
  <2> HIDE DEF gs
  <2>3. \A f \in Funcs : s_funcOwners'[f] = t <=> HasFunc(gs, f)
    BY <1>3, <2>1, Zenon DEF Linked
  <2>4. ASSUME NEW k \in Leases
        PROVE  /\ m_lock'[k] = t <=> HasLease(gs, k)
               /\ HasLease(gs, k) => m_owner'[k] = t /\ m_held'[k]
    BY <1>3, <1>4, <1>8, <2>1 DEF Linked, Taking, Unlocking
  <2> QED
    BY <1>8, <2>3, <2>4, Zenon DEF Linked, Taking, Unlocking
<1>12. HeldInv'
  BY <1>4, <1>8 DEF IInv, HeldInv
<1> QED
  BY <1>7, <1>10, <1>11, <1>12, StepKeepsIInv, Zenon

LEMMA SetHeldKeepsIInv ==
  ASSUME IInv, NEW t \in Threads, SetHeld(t) PROVE IInv'
<1> DEFINE top == Top(t)
           l == LeaseOf(top.kind)
           g == [top EXCEPT !.m_acquiredLease = l]
           h == [g EXCEPT !.m_level = lockLevel(g.kind)]
<1>1. /\ pc[t] = "hold" /\ holders[t] # <<>>
      /\ m_held' = [m_held EXCEPT ![l] = TRUE] /\ HaveLease(t, g)
      /\ UNCHANGED <<m_lock, m_owner, s_funcOwners>>
  BY Zenon DEF SetHeld, funcVars, IInv, Types
<1>2. /\ holders[t] \in Seq(Holder)
      /\ top \in Holder /\ top.kind \in TransKinds
      /\ LevelFits(top) /\ TopFits(top, "hold", holders[t])
      /\ top.m_level # "None" /\ EvalJitConcurrently > 0 => HasFunc(holders[t], top.m_func)
  BY <1>1, TopFacts, Zenon
<1>3. /\ l \in Leases /\ lockLevel(top.kind) \in {"Kind", "Global"}
      /\ lockLevel(top.kind) = "Global" <=> EvalJitConcurrently = 0
  BY <1>2, Levels, LeasesOfKinds, Zenon DEF TopFits, Asking
<1>4. /\ g \in Holder /\ g.m_func = top.m_func /\ g.kind = top.kind
      /\ g.m_level = top.m_level /\ g.m_acquiredThread = top.m_acquiredThread
      /\ g.m_acquiredFunc = top.m_acquiredFunc /\ g.m_acquiredLease = l
  BY <1>2, <1>3, Zenon DEF Holder
<1>5. /\ h \in Holder /\ h.m_func = top.m_func /\ h.kind = top.kind
      /\ h.m_level = lockLevel(top.kind)
      /\ h.m_acquiredFunc = top.m_acquiredFunc /\ h.m_acquiredLease = l
  BY Zenon, <1>2, <1>3 DEF Holder
<1> HIDE DEF g, h
<1>6. CASE Constructing(t) /\ EvalJitConcurrently > 0
  <2>1. SetTop(t, g) /\ Goto(t, "func")
    BY <1>1, <1>6, Zenon DEF HaveLease
  <2>2. g.m_level = "None" /\ LevelFits(g)
    BY <1>4, <1>6, Zenon DEF Constructing, LevelFits
  <2>4. TopFits(g, "func", Replaced(holders[t], g))
    BY <1>2, <1>4, <1>6, <2>2, <1>1, ReplacedHas, Zenon DEF TopFits, Asking, Acquiring,
       Claiming
  <2> QED
    BY Zenon, <1>1, <1>3, <1>4, <2>1, <2>2, <2>4, NoteLease
<1>7. CASE ~(Constructing(t) /\ EvalJitConcurrently > 0)
  <2>1. SetTop(t, h) /\ Goto(t, "run")
    BY <1>1, <1>7, Zenon DEF HaveLease, h
  <2>2. LevelFits(h)
    BY <1>3, <1>5, Zenon DEF LevelFits
  <2>3. TopFits(h, "run", Replaced(holders[t], h))
    BY <1>3, <1>5, Zenon DEF TopFits, Asking, Acquiring, Claiming
  <2>4. EvalJitConcurrently > 0 => HasFunc(holders[t], h.m_func)
    BY <1>2, <1>5, <1>7, Zenon DEF Constructing
  <2> QED
    BY Zenon, <1>1, <1>3, <1>5, <2>1, <2>2, <2>3, <2>4, NoteLease
<1> QED
  BY <1>6, <1>7, Zenon

LEMMA LoadOwnerKeepsIInv ==
  ASSUME IInv, NEW t \in Threads, LoadOwner(t) PROVE IInv'
<1> DEFINE top == Top(t)
           h == [top EXCEPT !.m_level = lockLevel(top.kind)]
<1>1. /\ pc[t] = "func" /\ holders[t] # <<>>
      /\ UNCHANGED <<m_lock, m_owner, m_held, s_funcOwners>>
  BY Zenon DEF LoadOwner, leaseVars, funcVars, IInv, Types
<1>2. /\ top \in Holder /\ top.kind \in TransKinds /\ top.m_func \in Funcs
      /\ Fits(top) /\ TopFits(top, "func", holders[t])
  BY <1>1, TopFacts, Zenon
<1>3. CASE s_funcOwners[top.m_func] = t
  <2>1. SetTop(t, h) /\ Goto(t, "run")
    BY <1>2, <1>3, Zenon DEF LoadOwner, IInv, Types
  <2>2. /\ lockLevel(top.kind) \in {"Func", "Kind", "Global"}
        /\ lockLevel(top.kind) = "Global" <=> EvalJitConcurrently = 0
        /\ lockLevel(top.kind) # "Func" => HasLease(holders[t], LeaseOf(top.kind))
    BY <1>2, Levels, LeasesOfKinds, Zenon DEF TopFits, Claiming
  <2>3. /\ h \in Holder /\ h.m_level = lockLevel(top.kind) /\ h.kind = top.kind
        /\ h.m_func = top.m_func /\ h.m_acquiredFunc = top.m_acquiredFunc
        /\ h.m_acquiredLease = top.m_acquiredLease
    BY <1>2, <2>2, Zenon DEF Holder
  <2> HIDE DEF h
  <2>5. TopFits(h, "run", holders[t])
    BY <2>2, <2>3, Zenon DEF TopFits, Asking, Acquiring, Claiming
  <2>6. HasFunc(holders[t], h.m_func)
    BY <1>2, <1>3, <2>3, Zenon DEF IInv, Linked
  <2> QED
    BY <1>1, <2>1, <2>2, <2>3, <1>2, <2>5, <2>6, TopStep, Zenon DEF Labels, Fits, LevelFits
<1>4. CASE Goto(t, "dropThread") /\ UNCHANGED holders
  BY <1>1, <1>4, FailKeepsIInv, Zenon
<1>5. ASSUME NEW p \in {"threads", "cas"}, Goto(t, p), UNCHANGED holders PROVE IInv'
  <2> QED
    BY <1>1, <1>5, <1>2, PcStep, Zenon DEF Labels, TopFits, Asking, Acquiring, Claiming
<1> QED
  BY <1>3, <1>4, <1>5, Zenon DEF LoadOwner, Fail

LEMMA LoadJittingThreadsKeepsIInv ==
  ASSUME IInv, NEW t \in Threads, LoadJittingThreads(t) PROVE IInv'
<1>1. /\ pc[t] = "threads" /\ holders[t] # <<>>
      /\ UNCHANGED <<m_lock, m_owner, m_held, s_funcOwners, holders>>
  BY Zenon DEF LoadJittingThreads, leaseVars, funcVars, IInv, Types
<1>2. CASE Goto(t, "dropThread")
  BY <1>1, <1>2, FailKeepsIInv, Zenon
<1>3. CASE Goto(t, "add")
  <2>1. TopFits(Top(t), "add", holders[t])
    BY <1>1, TopFacts, Zenon DEF TopFits, Asking, Acquiring, Claiming
  <2> QED
    BY <1>1, <1>3, <2>1, PcStep, Zenon DEF Labels
<1> QED
  BY <1>2, <1>3, Zenon DEF LoadJittingThreads, Fail

LEMMA AddJittingThreadKeepsIInv ==
  ASSUME IInv, NEW t \in Threads, AddJittingThread(t) PROVE IInv'
<1> DEFINE top == Top(t)
           h == [top EXCEPT !.m_acquiredThread = TRUE]
<1>1. /\ pc[t] = "add" /\ holders[t] # <<>> /\ SetTop(t, h)
      /\ UNCHANGED <<m_lock, m_owner, m_held, s_funcOwners>>
  BY Zenon DEF AddJittingThread, leaseVars, IInv, Types
<1>2. top \in Holder /\ Fits(top) /\ TopFits(top, "add", holders[t])
  BY <1>1, TopFacts, Zenon
<1>3. /\ h \in Holder /\ h.m_level = "None" /\ h.kind = top.kind
      /\ h.m_func = top.m_func /\ h.m_acquiredFunc = top.m_acquiredFunc
      /\ h.m_acquiredLease = top.m_acquiredLease
  BY Zenon, <1>2 DEF Holder, TopFits, Claiming
<1> HIDE DEF h
<1>4. Fits(h) /\ LevelFits(h)
  BY <1>2, <1>3, Zenon DEF Fits, LevelFits
<1>5. ASSUME NEW p \in {"dropThread", "cas"}, Goto(t, p) PROVE IInv'
  BY <1>2, <1>3, <1>1, <1>4, <1>5, TopStep, Zenon DEF TopFits, Asking, Acquiring, Claiming,
     Labels
<1> QED
  BY <1>5, Zenon DEF AddJittingThread, Fail

LEMMA CasOwnerKeepsIInv ==
  ASSUME IInv, NEW t \in Threads, CasOwner(t) PROVE IInv'
<1> DEFINE top == Top(t)
           hs == holders[t]
           h == [top EXCEPT !.m_acquiredFunc = TRUE, !.m_level = lockLevel(top.kind)]
           gs == Replaced(hs, h)
<1>1. /\ pc[t] = "cas" /\ holders[t] # <<>> /\ UNCHANGED <<m_lock, m_owner, m_held>>
  BY Zenon DEF CasOwner, leaseVars, IInv, Types
<1>2. CASE s_funcOwners[top.m_func] # NULL
  BY <1>1, <1>2, FailKeepsIInv, Zenon DEF CasOwner, Fail
<1>3. CASE s_funcOwners[top.m_func] = NULL
  <2>1. /\ SetTop(t, h) /\ Goto(t, "run")
        /\ s_funcOwners' = [s_funcOwners EXCEPT ![top.m_func] = t]
    BY <1>3, Zenon DEF CasOwner
  <2>2. /\ top \in Holder /\ top.kind \in TransKinds /\ top.m_func \in Funcs
        /\ Fits(top) /\ TopFits(top, "cas", hs)
        /\ hs \in Seq(Holder) /\ Stack(hs) /\ hs[Len(hs)] = top
    BY <1>1, TopFacts, Zenon DEF IInv, ThreadOK, Top
  <2>3. /\ lockLevel(top.kind) \in {"Func", "Kind", "Global"}
        /\ lockLevel(top.kind) = "Global" <=> EvalJitConcurrently = 0
        /\ lockLevel(top.kind) # "Func" => HasLease(hs, LeaseOf(top.kind))
        /\ ~top.m_acquiredFunc
    BY <2>2, Levels, LeasesOfKinds, Zenon DEF TopFits, Claiming
  <2>4. /\ h \in Holder /\ h.m_level = lockLevel(top.kind) /\ h.kind = top.kind
        /\ h.m_func = top.m_func /\ h.m_acquiredFunc
        /\ h.m_acquiredLease = top.m_acquiredLease
    BY Zenon, <2>2, <2>3 DEF Holder
  <2> HIDE DEF h
  <2>5. /\ \A f : HasFunc(gs, f) <=> HasFunc(hs, f) \/ f = top.m_func
        /\ \A f : HasFunc(hs, f) <=> FuncBelow(hs, f)
        /\ \A l : HasLease(gs, l) <=> HasLease(hs, l)
        /\ \A l : HasLease(hs, l) <=> LeaseBelow(hs, l) \/ h.m_acquiredLease = l
        /\ h.m_acquiredLease # NULL => ~LeaseBelow(hs, h.m_acquiredLease)
    BY <1>1, <2>2, <2>3, <2>4, LastHas, ReplacedHas, LastAlone
  <2>6. ~HasFunc(hs, top.m_func)
    <3>1. Linked(t)
      BY Zenon DEF IInv
    <3> QED
      BY <1>3, <2>2, <3>1, Zenon DEF Linked
  <2>7. Fits(h) /\ LevelFits(h)
    BY <2>2, <2>3, <2>4, Zenon DEF Fits, LevelFits
  <2>8. TopFits(h, "run", gs)
    BY <2>3, <2>4, Zenon DEF TopFits, Asking, Acquiring, Claiming
  <2>9. /\ ThreadOK(t)'
        /\ holders' = [holders EXCEPT ![t] = gs]
        /\ holders' \in [Threads -> Seq(Holder)] /\ pc' \in [Threads -> Labels]
        /\ \A u \in Threads : pc'[u] # "run" => holders'[u] # <<>>
    BY Zenon, <1>1, <2>1, <2>3, <2>4, <2>5, <2>6, <2>7, <2>8, LastStep DEF Labels
  <2>10. /\ holders'[t] = gs /\ \A u \in Threads \ {t} : holders'[u] = holders[u]
         /\ pc'[t] = "run" /\ \A u \in Threads \ {t} : pc'[u] = pc[u]
         /\ s_funcOwners'[top.m_func] = t
         /\ \A f \in Funcs \ {top.m_func} : s_funcOwners'[f] = s_funcOwners[f]
    BY Zenon, <2>1, <2>2, <2>9 DEF Goto, IInv, Types
  <2>11. Types'
    BY Zenon, <1>1, <2>1, <2>9 DEF IInv, Types
  <2>12. Frame(t)
    BY <1>1, <1>3, <2>10, <2>11 DEF Frame
  <2>13. Linked(t)'
    <3>1. Linked(t)
      BY Zenon DEF IInv
    <3>2. \A l \in Leases : /\ ~Taking(t, l)' /\ ~Taking(t, l)
                            /\ ~Unlocking(t, l)' /\ ~Unlocking(t, l)
      BY <1>1, <2>10, Zenon DEF Taking, Unlocking
    <3> HIDE DEF gs
    <3>3. \A f \in Funcs : s_funcOwners'[f] = t <=> HasFunc(gs, f)
      BY <2>5, <2>10, <3>1 DEF Linked
    <3> QED
      BY <2>10, <3>2, <1>1, <2>5, <3>1 DEF Linked
  <2>14. HeldInv'
    BY <1>1, Zenon DEF IInv, HeldInv
  <2> QED
    BY <2>9, <2>12, <2>13, <2>14, StepKeepsIInv, Zenon
<1> QED
  BY <1>2, <1>3, Zenon

-----------------------------------------------------------------------------
(* The steps that give back.                                               *)

LEMMA DropThreadKeepsIInv ==
  ASSUME IInv, NEW t \in Threads, DropThread(t) PROVE IInv'
<1> DEFINE top == Top(t)
           h == [top EXCEPT !.m_level = "None", !.m_acquiredThread = FALSE]
<1>1. /\ pc[t] = "dropThread" /\ holders[t] # <<>> /\ SetTop(t, h) /\ Goto(t, "dropFunc")
      /\ UNCHANGED <<m_lock, m_owner, m_held, s_funcOwners>>
  BY Zenon DEF DropThread, leaseVars, IInv, Types
<1>2. top \in Holder /\ Fits(top)
  BY <1>1, TopFacts, Zenon
<1>3. /\ h \in Holder /\ h.m_level = "None" /\ h.kind = top.kind /\ ~h.m_acquiredThread
      /\ h.m_func = top.m_func /\ h.m_acquiredFunc = top.m_acquiredFunc
      /\ h.m_acquiredLease = top.m_acquiredLease
  BY Zenon, <1>2 DEF Holder
<1> HIDE DEF h
<1>4. Fits(h) /\ LevelFits(h)
  BY <1>2, <1>3, Zenon DEF Fits, LevelFits
<1>5. TopFits(h, "dropFunc", holders[t])
  BY <1>3, Zenon DEF TopFits, Asking, Acquiring, Claiming
<1> QED
  BY <1>1, <1>3, <1>4, <1>5, TopStep, Zenon DEF Labels

LEMMA DropFuncKeepsIInv ==
  ASSUME IInv, NEW t \in Threads, DropFunc(t) PROVE IInv'
<1> DEFINE top == Top(t)
           hs == holders[t]
           h == [top EXCEPT !.m_acquiredFunc = FALSE]
           gs == Replaced(hs, h)
           p == IF top.m_acquiredLease = NULL THEN "dropped" ELSE "dropLease"
<1>1. /\ pc[t] = "dropFunc" /\ hs # <<>> /\ SetTop(t, h) /\ Goto(t, p)
      /\ UNCHANGED <<m_lock, m_owner, m_held>>
      /\ s_funcOwners' = IF top.m_acquiredFunc THEN [s_funcOwners EXCEPT ![top.m_func] = NULL]
                                               ELSE s_funcOwners
  BY Zenon DEF DropFunc, leaseVars, IInv, Types
<1>2. /\ top \in Holder /\ top.m_func \in Funcs
      /\ Fits(top) /\ TopFits(top, "dropFunc", hs)
      /\ hs \in Seq(Holder) /\ Stack(hs) /\ hs[Len(hs)] = top
  BY <1>1, TopFacts, Zenon DEF IInv, ThreadOK, Top
<1>3. /\ h \in Holder /\ h.m_level = "None" /\ h.kind = top.kind
      /\ h.m_acquiredThread = top.m_acquiredThread
      /\ h.m_func = top.m_func /\ ~h.m_acquiredFunc
      /\ h.m_acquiredLease = top.m_acquiredLease
  BY Zenon, <1>2 DEF Holder, TopFits
<1> HIDE DEF h
<1>4. /\ \A f : HasFunc(gs, f) <=> FuncBelow(hs, f)
      /\ \A f : HasFunc(hs, f) <=> FuncBelow(hs, f) \/ (top.m_acquiredFunc /\ top.m_func = f)
      /\ top.m_acquiredFunc => ~FuncBelow(hs, top.m_func)
      /\ \A l : HasLease(gs, l) <=> HasLease(hs, l)
      /\ h.m_acquiredLease # NULL => ~LeaseBelow(hs, h.m_acquiredLease)
  BY <1>1, <1>2, <1>3, LastHas, ReplacedHas, LastAlone
<1>5. Fits(h) /\ LevelFits(h)
  BY <1>2, <1>3, Zenon DEF Fits, LevelFits
<1>6. TopFits(h, p, gs)
  BY <1>2, <1>3, Zenon DEF TopFits, Asking, Acquiring, Claiming
<1>7. /\ ThreadOK(t)'
      /\ holders' = [holders EXCEPT ![t] = gs]
      /\ holders' \in [Threads -> Seq(Holder)] /\ pc' \in [Threads -> Labels]
      /\ \A u \in Threads : pc'[u] # "run" => holders'[u] # <<>>
  BY <1>1, <1>3, <1>4, <1>5, <1>6, LastStep, Zenon DEF Labels
<1>8. /\ holders'[t] = gs /\ \A u \in Threads \ {t} : holders'[u] = holders[u]
      /\ pc'[t] = p /\ \A u \in Threads \ {t} : pc'[u] = pc[u]
      /\ top.m_acquiredFunc => s_funcOwners'[top.m_func] = NULL
      /\ \A f \in Funcs : f # top.m_func \/ ~top.m_acquiredFunc
           => s_funcOwners'[f] = s_funcOwners[f]
  BY <1>1, <1>2, <1>7 DEF Goto, IInv, Types
<1>9. Types'
  BY <1>1, <1>2, <1>7, Zenon DEF IInv, Types
<1>10. Linked(t)
  BY Zenon DEF IInv
<1>11. top.m_acquiredFunc => s_funcOwners[top.m_func] = t
  BY <1>2, <1>4, <1>10, Zenon DEF Linked
<1>12. Frame(t)
  BY <1>1, <1>8, <1>9, <1>11 DEF Frame
<1>13. Linked(t)'
  BY <1>1, <1>8, <1>4, <1>10 DEF Taking, Unlocking, Linked
<1>14. HeldInv'
  BY <1>1, Zenon DEF IInv, HeldInv
<1> QED
  BY <1>7, <1>12, <1>13, <1>14, StepKeepsIInv, Zenon

LEMMA DropHintKeepsIInv ==
  ASSUME IInv, NEW t \in Threads, DropHint(t) PROVE IInv'
<1>1. /\ pc[t] = "dropLease" /\ holders[t] # <<>> /\ Goto(t, "dropHeld")
      /\ UNCHANGED <<m_lock, m_owner, m_held, s_funcOwners, holders>>
  BY Zenon DEF DropHint, funcVars, IInv, Types
<1>2. TopFits(Top(t), "dropHeld", holders[t])
  BY <1>1, TopFacts, Zenon DEF TopFits, Asking, Acquiring, Claiming
<1> QED
  BY <1>1, <1>2, PcStep, Zenon DEF Labels

LEMMA DropHeldKeepsIInv ==
  ASSUME IInv, NEW t \in Threads, DropHeld(t) PROVE IInv'
<1> DEFINE top == Top(t)
           hs == holders[t]
           l == top.m_acquiredLease
<1>1. /\ pc[t] = "dropHeld" /\ hs # <<>> /\ Goto(t, "unlock")
      /\ m_held' = [m_held EXCEPT ![l] = FALSE]
      /\ UNCHANGED <<m_lock, m_owner, s_funcOwners, holders>>
  BY Zenon DEF DropHeld, funcVars, IInv, Types
<1>2. top \in Holder /\ TopFits(top, "dropHeld", hs) /\ hs \in Seq(Holder)
  BY <1>1, TopFacts, Zenon
<1>3. l \in Leases /\ HasLease(hs, l)
  <2>1. l \in Leases
    BY <1>2, Zenon DEF TopFits, Holder
  <2>2. hs[Len(hs)].m_acquiredLease = l
    BY Zenon DEF Top
  <2>3. HasLease(hs, l)
    BY <1>1, <1>2, <2>2, LastHas, Zenon
  <2> QED
    BY <2>1, <2>3, Zenon
<1>4. Linked(t) /\ m_lock[l] = t
  BY <1>3, Zenon DEF IInv, Linked
<1>5. /\ pc'[t] = "unlock" /\ \A u \in Threads \ {t} : pc'[u] = pc[u]
      /\ m_held'[l] = FALSE /\ \A k \in Leases \ {l} : m_held'[k] = m_held[k]
  BY Zenon, <1>1, <1>3 DEF Goto, IInv, Types
<1>6. Types'
  BY <1>1, <1>3, Zenon DEF Goto, Labels, IInv, Types
<1>7. Frame(t)
  BY Zenon, <1>1, <1>4, <1>5, <1>6 DEF Frame
<1>8. TopFits(top, "unlock", hs)
  BY <1>2, Zenon DEF TopFits, Asking, Acquiring, Claiming
<1>9. Top(t)' = top
  BY <1>1, Zenon DEF Top
<1>10. ThreadOK(t)'
  BY <1>1, <1>5, <1>8, <1>9, Zenon DEF IInv, ThreadOK
<1>11. Linked(t)'
  BY <1>1, <1>5, <1>9, <1>4 DEF Taking, Unlocking, Linked
<1>12. HeldInv'
  BY <1>1, <1>5, Zenon DEF IInv, HeldInv
<1> QED
  BY <1>7, <1>10, <1>11, <1>12, StepKeepsIInv, Zenon

LEMMA UnlockKeepsIInv ==
  ASSUME IInv, NEW t \in Threads, Unlock(t) PROVE IInv'
<1> DEFINE top == Top(t)
           hs == holders[t]
           l == top.m_acquiredLease
           h == [top EXCEPT !.m_acquiredLease = NULL]
           gs == Replaced(hs, h)
<1>1. /\ pc[t] = "unlock" /\ hs # <<>> /\ SetTop(t, h) /\ Goto(t, "dropped")
      /\ m_lock' = [m_lock EXCEPT ![l] = NULL]
      /\ UNCHANGED <<m_owner, m_held, s_funcOwners>>
  BY Zenon DEF Unlock, funcVars, IInv, Types
<1>2. /\ top \in Holder /\ top.m_func \in Funcs /\ TopFits(top, "unlock", hs)
      /\ hs \in Seq(Holder) /\ Stack(hs) /\ hs[Len(hs)] = top
  BY <1>1, TopFacts, Zenon DEF IInv, ThreadOK, Top
<1>3. /\ l \in Leases
      /\ h \in Holder /\ h.m_level = "None" /\ h.m_acquiredThread = top.m_acquiredThread
      /\ h.m_func = top.m_func /\ ~h.m_acquiredFunc /\ ~top.m_acquiredFunc
      /\ h.m_acquiredLease = NULL
  BY <1>2, Zenon DEF Holder, TopFits
<1> HIDE DEF h
<1>4. /\ \A f : HasFunc(gs, f) <=> HasFunc(hs, f)
      /\ \A k \in Leases : HasLease(gs, k) <=> LeaseBelow(hs, k)
      /\ \A k : HasLease(hs, k) <=> LeaseBelow(hs, k) \/ k = l
      /\ ~LeaseBelow(hs, l)
  BY <1>1, <1>2, <1>3, LastHas, ReplacedHas, LastAlone
<1>5. Fits(h) /\ LevelFits(h)
  BY <1>3, Zenon DEF Fits, LevelFits
<1>6. TopFits(h, "dropped", gs)
  BY <1>2, <1>3, Zenon DEF TopFits, Asking, Acquiring, Claiming
<1>7. /\ ThreadOK(t)'
      /\ holders' = [holders EXCEPT ![t] = gs]
      /\ holders' \in [Threads -> Seq(Holder)] /\ pc' \in [Threads -> Labels]
      /\ \A u \in Threads : pc'[u] # "run" => holders'[u] # <<>>
  BY <1>1, <1>3, <1>5, <1>6, LastStep, Zenon DEF Labels
<1>8. /\ holders'[t] = gs /\ \A u \in Threads \ {t} : holders'[u] = holders[u]
      /\ pc'[t] = "dropped" /\ \A u \in Threads \ {t} : pc'[u] = pc[u]
      /\ m_lock'[l] = NULL /\ \A k \in Leases \ {l} : m_lock'[k] = m_lock[k]
  BY <1>1, <1>3, <1>7, Zenon DEF Goto, IInv, Types
<1>9. Types'
  BY <1>1, <1>3, <1>7, Zenon DEF IInv, Types
<1>10. Linked(t) /\ m_lock[l] = t /\ ~m_held[l]
  BY <1>1, <1>3, <1>4 DEF IInv, Linked, Unlocking
<1>11. Frame(t)
  BY <1>1, <1>8, <1>9, <1>10 DEF Frame
<1>12. Linked(t)'
  <2> HIDE DEF gs
  <2>2. \A f \in Funcs : s_funcOwners'[f] = t <=> HasFunc(gs, f)
    BY <1>1, <1>4, <1>10, Zenon DEF Linked
  <2>3. ASSUME NEW k \in Leases
        PROVE  /\ m_lock'[k] = t <=> HasLease(gs, k)
               /\ HasLease(gs, k) => m_owner'[k] = t /\ m_held'[k]
    BY <1>4, <1>8, <1>1, <1>10 DEF Linked, Taking, Unlocking
  <2> QED
    BY <1>8, <1>1, <2>2, <2>3, Zenon DEF Linked, Taking, Unlocking
<1>13. HeldInv'
  BY <1>1, <1>8, <1>10 DEF IInv, HeldInv
<1> QED
  BY <1>7, <1>11, <1>12, <1>13, StepKeepsIInv, Zenon

-----------------------------------------------------------------------------
(* The steps that give back, and the holders that come and go.             *)

\* A holder that has no lock comes or goes: the thread's locks stay.
LEMMA SameLocks ==
  ASSUME IInv, NEW t \in Threads, NEW gs \in Seq(Holder), NEW p \in Labels \ {"owner"},
         pc[t] \in {"run", "dropped"}, p \notin {"take", "hold", "unlock"},
         holders' = [holders EXCEPT ![t] = gs], Goto(t, p),
         UNCHANGED <<m_lock, m_owner, m_held, s_funcOwners>>,
         p # "run" => gs # <<>>,
         Stack(gs), gs # <<>> => TopFits(gs[Len(gs)], p, gs),
         \A f \in Funcs : HasFunc(gs, f) <=> HasFunc(holders[t], f),
         \A l \in Leases : HasLease(gs, l) <=> HasLease(holders[t], l)
  PROVE  IInv'
<1>1. /\ holders'[t] = gs /\ \A u \in Threads \ {t} : holders'[u] = holders[u]
      /\ pc'[t] = p /\ \A u \in Threads \ {t} : pc'[u] = pc[u]
  BY Zenon DEF Goto, IInv, Types
<1>2. Types'
  BY <1>1, Zenon DEF Goto, IInv, Types
<1>3. Frame(t)
  BY <1>1, <1>2, Zenon DEF Frame
<1>4. ThreadOK(t)'
  BY <1>1, Zenon DEF ThreadOK, Top
<1>5. Linked(t)'
  BY <1>1 DEF IInv, Taking, Unlocking, Linked
<1>6. HeldInv'
  BY Zenon DEF IInv, HeldInv
<1> QED
  BY <1>3, <1>4, <1>5, <1>6, StepKeepsIInv, Zenon

\* The holders that remain keep what Stack says of them.
LEMMA PrefixStack ==
  ASSUME NEW hs \in Seq(Holder), NEW gs \in Seq(Holder), Stack(hs),
         Len(gs) <= Len(hs), \A i \in 1..Len(gs) : gs[i] = hs[i],
         \A i \in 1..Len(gs) : gs[i].m_level # "None"
  PROVE  Stack(gs)
<1>1. Len(gs) \in Nat /\ Len(hs) \in Nat /\ \A i \in 1..Len(gs) : i \in 1..Len(hs)
  BY SeqFacts
<1>2. ASSUME NEW i \in 1..Len(gs) PROVE LocksBelow(gs, i)
  <2>1. \A j \in 1..i : gs[j] = hs[j]
    BY <1>1
  <2>2. LocksBelow(hs, i) /\ i \in 1..i
    BY <1>1 DEF Stack
  <2> QED
    BY <2>2 DEF LocksBelow
<1>3. Distinct(gs)
  BY DEF Stack, Distinct
<1> QED
  BY <1>2, <1>3 DEF Stack

LEMMA DroppedKeepsIInv ==
  ASSUME IInv, NEW t \in Threads, Dropped(t) PROVE IInv'
<1> DEFINE hs == holders[t]
           n == Len(hs)
           gs == SubSeq(hs, 1, n - 1)
<1>1. /\ pc[t] = "dropped" /\ hs # <<>> /\ Goto(t, "run")
      /\ holders' = [holders EXCEPT ![t] = gs]
      /\ UNCHANGED <<m_lock, m_owner, m_held, s_funcOwners>>
  BY Zenon DEF Dropped, leaseVars, funcVars, IInv, Types
<1>2. /\ hs \in Seq(Holder) /\ Stack(hs) /\ TopFits(hs[n], "dropped", hs)
  BY <1>1, TopFacts, Zenon DEF IInv, ThreadOK, Top
<1>3. n \in Nat /\ n >= 1
  BY <1>1
<1>4. /\ gs \in Seq(Holder) /\ Len(gs) = n - 1
      /\ \A i \in 1..(n - 1) : gs[i] = hs[i]
  BY <1>2, <1>3
<1> HIDE DEF gs
<1>5. \A i \in 1..(n - 1) : gs[i].m_level # "None"
  BY <1>2, <1>4 DEF Stack
<1>6. Stack(gs)
  <2>1. /\ Len(gs) <= Len(hs) /\ \A i \in 1..Len(gs) : gs[i] = hs[i]
        /\ \A i \in 1..Len(gs) : gs[i].m_level # "None"
    BY <1>4, <1>5
  <2> QED
    BY Zenon, <1>2, <1>4, <2>1, PrefixStack
<1>7. gs # <<>> => TopFits(gs[Len(gs)], "run", gs)
  <2>1. gs # <<>> => Len(gs) \in 1..(n - 1)
    BY <1>4
  <2> QED
    BY <1>5, <2>1, Zenon DEF TopFits, Asking, Acquiring, Claiming
<1>8. ~hs[n].m_acquiredFunc /\ hs[n].m_acquiredLease = NULL
  BY <1>2, Zenon DEF TopFits
<1>9. /\ \A f \in Funcs : HasFunc(gs, f) <=> HasFunc(hs, f)
      /\ \A l \in Leases : HasLease(gs, l) <=> HasLease(hs, l)
  <2>1. \A i : i \in 1..Len(gs) <=> i \in 1..Len(hs) /\ i # n
    BY <1>4
  <2>2. /\ \A f \in Funcs : HasFunc(gs, f) <=> FuncBelow(hs, f)
        /\ \A l \in Leases : HasLease(gs, l) <=> LeaseBelow(hs, l)
    BY Zenon, <1>4, <2>1 DEF HasFunc, HasLease, FuncBelow, LeaseBelow
  <2> QED
    BY <1>1, <1>2, <1>8, <2>2, LastHas, Zenon
<1> QED
  BY Zenon, <1>1, <1>4, <1>6, <1>7, <1>9, SameLocks DEF Labels

LEMMA ConstructKeepsIInv ==
  ASSUME IInv, NEW t \in Threads, NEW f \in Funcs, NEW k \in Kinds, Construct(t, f, k)
  PROVE  IInv'
<1> DEFINE hs == holders[t]
           n == Len(hs)
           h == NewHolder(f, k)
           gs == Append(hs, h)
           p == CASE lockLevel(k) = "Func" /\ ~threadCanAcquireConcurrent[t] -> "dropThread"
                  [] lockLevel(k) = "Func" /\ threadCanAcquireConcurrent[t] -> "func"
                  [] OTHER -> "amOwner"
<1>1. /\ pc[t] = "run" /\ Goto(t, p)
      /\ holders' = [holders EXCEPT ![t] = gs]
      /\ UNCHANGED <<m_lock, m_owner, m_held, s_funcOwners>>
  BY Zenon DEF Construct, leaseVars, funcVars, IInv, Types
<1>2. k \in TransKinds
  BY WriteLeaseAssumption, Zenon DEF TransKinds
<1>3. /\ h \in Holder /\ h.kind = k /\ h.m_level = "None" /\ ~h.m_acquiredFunc
      /\ ~h.m_acquiredThread /\ h.m_acquiredLease = NULL
  BY <1>2, Zenon DEF NewHolder, Holder
<1>4. /\ hs \in Seq(Holder) /\ Stack(hs) /\ n \in Nat
      /\ hs # <<>> => TopFits(hs[n], "run", hs)
  BY <1>1, SeqFacts, Zenon DEF IInv, Types, ThreadOK, Top
<1> HIDE DEF h
<1>5. /\ gs \in Seq(Holder) /\ gs # <<>> /\ Len(gs) = n + 1 /\ gs[n + 1] = h
      /\ \A i \in 1..n : gs[i] = hs[i]
  BY <1>3, <1>4, AppendFacts
<1> HIDE DEF gs
<1>6. \A i \in 1..n : hs[i].m_level # "None"
  <2>1. hs # <<>> => hs[n].m_level # "None"
    BY <1>4, Zenon DEF TopFits
  <2>2. n > 0 => hs # <<>>
    OBVIOUS
  <2> QED
    BY <1>4, <2>1 DEF Stack
<1>7. Stack(gs)
  <2>1. ASSUME NEW i \in 1..n PROVE LocksBelow(gs, i)
    <3>1. \A j \in 1..i : gs[j] = hs[j]
      BY <1>4, <1>5
    <3>2. LocksBelow(hs, i) /\ i \in 1..i
      BY <1>4, <1>6 DEF Stack
    <3> QED
      BY <3>1, <3>2, Zenon DEF LocksBelow
  <2>2. Fits(h) /\ LevelFits(h)
    BY <1>3, Zenon DEF Fits, LevelFits
  <2>3. \A i \in 1..Len(gs) : i = n + 1 \/ i \in 1..n
    BY <1>4, <1>5
  <2>4. Distinct(gs)
    <3>1. ASSUME NEW i \in 1..Len(gs), NEW j \in 1..Len(gs), i # j
          PROVE  /\ gs[i].m_acquiredFunc /\ gs[j].m_acquiredFunc => gs[i].m_func # gs[j].m_func
                 /\ gs[i].m_acquiredLease # NULL =>
                      gs[i].m_acquiredLease # gs[j].m_acquiredLease
      <4>1. CASE i = n + 1 \/ j = n + 1
        BY <1>3, <1>5, <4>1, Zenon
      <4>2. CASE i \in 1..n /\ j \in 1..n
        BY <1>4, <1>5, <3>1, <4>2 DEF Stack, Distinct
      <4> QED
        BY <2>3, <4>1, <4>2, Zenon
    <3> QED
      BY <3>1, Zenon DEF Distinct
  <2>5. ASSUME NEW i \in 1..Len(gs)
        PROVE  /\ Fits(gs[i]) /\ LevelFits(gs[i])
               /\ gs[i].m_level # "None" => LocksBelow(gs, i)
               /\ gs[i].m_level = "None" => i = Len(gs)
    BY <1>3, <1>4, <1>5, <1>6, <2>1, <2>2 DEF Stack
  <2> QED
    BY <2>4, <2>5, Zenon DEF Stack
<1>8. p \in {"dropThread", "func", "amOwner"} /\ TopFits(h, p, gs)
  BY <1>2, Levels, LeasesOfKinds, <1>3 DEF TopFits, Asking, Acquiring, Claiming
<1> HIDE DEF p
<1>9. /\ \A g \in Funcs : HasFunc(gs, g) <=> HasFunc(hs, g)
      /\ \A l \in Leases : HasLease(gs, l) <=> HasLease(hs, l)
  <2>1. \A i : i \in 1..n <=> i \in 1..Len(gs) /\ i # Len(gs)
    BY <1>4, <1>5
  <2>2. /\ \A g \in Funcs : HasFunc(hs, g) <=> FuncBelow(gs, g)
        /\ \A l \in Leases : HasLease(hs, l) <=> LeaseBelow(gs, l)
    BY Zenon, <1>5, <2>1 DEF HasFunc, HasLease, FuncBelow, LeaseBelow
  <2>3. ~gs[Len(gs)].m_acquiredFunc /\ gs[Len(gs)].m_acquiredLease = NULL
    BY <1>3, <1>5, Zenon
  <2> QED
    BY <1>5, <2>2, <2>3, LastHas, Zenon
<1> QED
  BY Zenon, <1>1, <1>5, <1>7, <1>8, <1>9, SameLocks DEF Labels

LEMMA CheckKindKeepsIInv ==
  ASSUME IInv, NEW t \in Threads, NEW kind \in {"Profile", "Live"}, CheckKind(t, kind)
  PROVE  IInv'
<1> DEFINE top == Top(t)
           asked == [top EXCEPT !.kind = kind]
           h == [asked EXCEPT !.m_level = lockLevel(kind)]
           level == lockLevel(kind)
<1>1. /\ pc[t] = "run" /\ holders[t] # <<>> /\ top.kind \in {"Profile", "Live"} \ {kind}
      /\ UNCHANGED <<m_lock, m_owner, m_held, s_funcOwners>>
  BY Zenon DEF CheckKind, leaseVars, funcVars
<1>2. /\ top \in Holder /\ top.kind \in TransKinds
      /\ Fits(top) /\ LevelFits(top) /\ TopFits(top, "run", holders[t])
      /\ top.m_level # "None" =>
           /\ EvalJitConcurrently > 0 => HasFunc(holders[t], top.m_func)
           /\ top.m_level \in {"Kind", "Global"} => HasLease(holders[t], LeaseOf(top.kind))
  BY <1>1, TopFacts, Zenon
<1>3. /\ kind \in TransKinds /\ top.m_level # "None"
      /\ top.m_level \in {"Func", "Kind", "Global"}
      /\ level \in {"Func", "Kind", "Global"}
      /\ level = "Global" <=> EvalJitConcurrently = 0
      /\ level = "Kind" => kind = "Live"
      /\ LeaseOf(kind) = NULL <=> level = "Func"
      /\ EvalJitConcurrently = 0 => LeaseOf(kind) = "global" /\ LeaseOf(top.kind) = "global"
      /\ lockLevel(top.kind) = "Kind" => top.kind = "Live"
      /\ top.m_level = "Global" <=> EvalJitConcurrently = 0
      /\ top.m_level = "Kind" => lockLevel(top.kind) = "Kind"
  <2>1. kind \in TransKinds
    BY Zenon DEF TransKinds
  <2>2. top.m_level # "None" /\ top.m_level \in {"Func", "Kind", "Global"}
    BY <1>2, Zenon DEF TopFits, Holder
  <2> QED
    BY <1>1, <1>2, <2>1, <2>2, Levels, LeasesOfKinds DEF LevelFits
<1> HIDE DEF level
<1>4. /\ asked \in Holder /\ asked.kind = kind /\ asked.m_level = top.m_level
      /\ asked.m_func = top.m_func /\ asked.m_acquiredFunc = top.m_acquiredFunc
      /\ asked.m_acquiredLease = top.m_acquiredLease
      /\ asked.m_acquiredThread = top.m_acquiredThread
  BY <1>2, <1>3, Zenon DEF Holder
<1>5. /\ h \in Holder /\ h.kind = kind /\ h.m_level = level
      /\ h.m_func = top.m_func /\ h.m_acquiredFunc = top.m_acquiredFunc
      /\ h.m_acquiredLease = top.m_acquiredLease
  BY Zenon, <1>2, <1>3 DEF Holder, level
<1>6. /\ level = top.m_level => SetTop(t, asked) /\ Goto(t, "run")
      /\ level # top.m_level /\ level # "Func" => SetTop(t, asked) /\ Goto(t, "amOwner")
      /\ level # top.m_level /\ level = "Func" => SetTop(t, h) /\ UNCHANGED pc
  BY <1>3, Zenon DEF CheckKind, level
<1> HIDE DEF asked, h
<1>7. Fits(asked) /\ Fits(h)
  BY <1>1, <1>2, <1>4, <1>5, Zenon DEF Fits
<1>8. CASE level = top.m_level
  <2>1. LevelFits(asked)
    BY <1>3, <1>4, <1>8, Zenon DEF LevelFits, level
  <2>2. level # "Kind"
    BY <1>1, <1>3, <1>8, Zenon
  <2>3. TopFits(asked, "run", holders[t])
    BY <1>3, <1>4, Zenon DEF TopFits, Asking, Acquiring, Claiming
  <2> QED
    BY <1>1, <1>2, <1>3, <1>4, <1>6, <1>7, <1>8, <2>1, <2>2, <2>3, TopStep DEF Labels
<1>9. CASE level # top.m_level /\ level # "Func"
  <2>1. top.m_level = "Func"
    BY <1>3, <1>9, Zenon
  <2>2. LevelFits(asked)
    BY <1>3, <1>4, <2>1, Zenon DEF LevelFits
  <2>3. TopFits(asked, "amOwner", holders[t])
    BY <1>3, <1>4, <1>9, Zenon DEF TopFits, Acquiring, Claiming
  <2> QED
    BY <1>1, <1>2, <1>4, <1>6, <1>7, <1>9, <2>1, <2>2, <2>3, TopStep DEF Labels
<1>10. CASE level # top.m_level /\ level = "Func"
  <2>1. LevelFits(h)
    BY <1>3, <1>5, <1>10, Zenon DEF LevelFits
  <2>2. TopFits(h, "run", holders[t])
    BY <1>3, <1>5, Zenon DEF TopFits, Asking, Acquiring, Claiming
  <2>3. SetTop(t, h) /\ Goto(t, "run")
    BY <1>1, <1>6, <1>10, Zenon DEF Goto, IInv, Types
  <2> QED
    BY <1>1, <1>2, <1>3, <1>5, <1>7, <1>10, <2>1, <2>2, <2>3, TopStep DEF Labels
<1> QED
  BY <1>8, <1>9, <1>10, Zenon

LEMMA NextIInv == IInv /\ [Next]_vars => IInv'
<1> SUFFICES ASSUME IInv, [Next]_vars PROVE IInv'
  BY Zenon
<1>1. CASE UNCHANGED vars
  BY <1>1, Stutter, Zenon DEF vars, leaseVars, funcVars, threadVars
<1>2. ASSUME NEW t \in Threads, NEW a \in BOOLEAN, NEW c \in BOOLEAN, SetMayAcquire(t, a, c)
      PROVE  IInv'
  BY <1>2, Stutter, Zenon DEF SetMayAcquire, leaseVars, funcVars, threadVars
<1>3. ASSUME NEW l \in Leases, Expire(l) PROVE IInv'
  BY <1>3, Stutter, Zenon DEF Expire, funcVars, threadVars
<1>4. ASSUME NEW t \in Threads, Step(t) PROVE IInv'
  BY <1>4, AmOwnerHeldKeepsIInv, AmOwnerKeepsIInv, ReadHintKeepsIInv, ReadHeldKeepsIInv,
     LockKeepsIInv, SetOwnerKeepsIInv, SetHeldKeepsIInv, LoadOwnerKeepsIInv,
     LoadJittingThreadsKeepsIInv, AddJittingThreadKeepsIInv, CasOwnerKeepsIInv,
     DropThreadKeepsIInv, DropFuncKeepsIInv, DropHintKeepsIInv, DropHeldKeepsIInv,
     UnlockKeepsIInv, DroppedKeepsIInv DEF Step
<1> QED
  BY <1>1, <1>2, <1>3, <1>4, ConstructKeepsIInv, CheckKindKeepsIInv, DestroyKeepsIInv DEF Next

-----------------------------------------------------------------------------
(* What the leases promise.                                                *)

\* The locks and the nested holders agree in every reachable state.
THEOREM Inductive == Spec => []IInv
BY InitIInv, NextIInv, PTL DEF Spec

LEMMA LiveHolder ==
  ASSUME IInv, NEW x \in Live
  PROVE  /\ x[1] \in Threads /\ x[2] \in 1..Len(holders[x[1]])
         /\ holders[x[1]] \in Seq(Holder) /\ H(x) \in Holder
         /\ H(x) = holders[x[1]][x[2]]
BY SeqFacts DEF Live, H, IInv, Types

LEMMA KeepLocks == IInv => HoldersKeepTheirLocks
<1> SUFFICES ASSUME IInv, NEW x \in Live, H(x).m_level # "None"
             PROVE  /\ EvalJitConcurrently > 0 => s_funcOwners[H(x).m_func] = x[1]
                    /\ H(x).m_level \in {"Kind", "Global"} =>
                         OwnsLease(x[1], LeaseOf(H(x).kind))
  BY Zenon DEF HoldersKeepTheirLocks
<1> DEFINE t == x[1]
           i == x[2]
           hs == holders[t]
<1>1. /\ t \in Threads /\ i \in 1..Len(hs) /\ hs \in Seq(Holder)
      /\ H(x) \in Holder /\ H(x) = hs[i]
  BY LiveHolder, Zenon
<1>2. Stack(hs) /\ Linked(t)
  BY <1>1, Zenon DEF IInv, ThreadOK
<1>3. /\ H(x).m_func \in Funcs /\ H(x).kind \in TransKinds
      /\ Len(hs) \in Nat /\ LocksBelow(hs, i) /\ LevelFits(hs[i])
  BY <1>1, <1>2, SeqFacts DEF Stack, Holder
<1>4. \A j \in 1..i : j \in 1..Len(hs)
  BY <1>1, <1>3
<1>5. ASSUME EvalJitConcurrently > 0 PROVE s_funcOwners[H(x).m_func] = t
  <2>1. PICK j \in 1..i : hs[j].m_acquiredFunc /\ hs[j].m_func = hs[i].m_func
    BY <1>3, <1>5, Zenon DEF LocksBelow
  <2>2. HasFunc(hs, H(x).m_func)
    BY <1>1, <1>4, <2>1, Zenon DEF HasFunc
  <2> QED
    BY <1>2, <1>3, <2>2, Zenon DEF Linked
<1>6. ASSUME H(x).m_level \in {"Kind", "Global"} PROVE OwnsLease(t, LeaseOf(H(x).kind))
  <2> DEFINE l == LeaseOf(H(x).kind)
  <2>1. HasLease(hs, l)
    BY <1>1, <1>3, <1>4, <1>6, Zenon DEF LocksBelow, HasLease
  <2>2. l \in Leases
    BY <1>1, <1>3, <1>6, Levels, LeasesOfKinds DEF LevelFits
  <2>3. ~Unlocking(t, l)
    <3> SUFFICES ASSUME Unlocking(t, l) PROVE FALSE
      BY Zenon
    <3>1. pc[t] = "unlock" /\ Top(t).m_acquiredLease = l /\ hs # <<>>
      BY <1>1, Zenon DEF Unlocking, IInv, Types
    <3>2. TopFits(Top(t), "unlock", hs) /\ hs[Len(hs)] = Top(t)
      BY <1>1, <3>1, TopFacts, Zenon DEF Top
    <3>3. i # Len(hs)
      BY <1>1, <3>2, Zenon DEF TopFits
    <3>4. ~LeaseBelow(hs, l)
      BY <1>1, <1>2, <2>2, <3>1, <3>2, LastAlone
    <3>5. \A j \in 1..i : j # Len(hs)
      BY <1>1, <3>3
    <3> QED
      BY <1>1, <1>3, <1>4, <1>6, <3>4, <3>5, Zenon DEF LocksBelow, LeaseBelow
  <2> QED
    BY <1>2, <2>1, <2>2, <2>3, Zenon DEF Linked, OwnsLease
<1> QED
  BY <1>5, <1>6, Zenon

\* A holder that is true keeps every lock of its level, however holders nest and
\* whichever of them acquired it: write-lease.cpp's constructor, checkKind() and
\* dropLocks() never let a nested holder give away what an outer one relies on.
THEOREM LocksKept == Spec => []HoldersKeepTheirLocks
BY Inductive, KeepLocks, PTL

LEMMA Exclude == IInv => TranslationsExclude
<1> SUFFICES ASSUME IInv, NEW x \in Live, NEW y \in Live, x[1] # y[1],
                    H(x).m_level # "None", H(y).m_level # "None"
             PROVE  /\ H(x).m_level # "Global"
                    /\ H(x).m_func # H(y).m_func
                    /\ (H(x).m_level = "Kind" /\ H(y).m_level = "Kind")
                         => LeaseOf(H(x).kind) # LeaseOf(H(y).kind)
  BY Zenon DEF TranslationsExclude
<1>1. HoldersKeepTheirLocks
  BY KeepLocks, Zenon
<1>2. ASSUME NEW z \in {x, y}
      PROVE  /\ LevelFits(H(z)) /\ z \in Live /\ z[1] \in Threads
             /\ H(z).m_level # "None" /\ H(z).kind \in TransKinds
  BY LiveHolder DEF IInv, ThreadOK, Stack, Holder
<1>3. H(x).m_level # "Global"
  BY <1>2, LeasesOfKinds, <1>1 DEF LevelFits, HoldersKeepTheirLocks, OwnsLease
<1>4. EvalJitConcurrently > 0
  BY <1>2, <1>3 DEF LevelFits
<1>5. H(x).m_func # H(y).m_func
  BY <1>1, <1>4, Zenon DEF HoldersKeepTheirLocks
<1>6. (H(x).m_level = "Kind" /\ H(y).m_level = "Kind")
        => LeaseOf(H(x).kind) # LeaseOf(H(y).kind)
  BY <1>1, Zenon DEF HoldersKeepTheirLocks, OwnsLease
<1> QED
  BY <1>3, <1>5, <1>6, Zenon

\* Two threads that may translate exclude each other as Eval.JitConcurrently
\* says, for any number of threads, Funcs and nested holders.
THEOREM Exclusion == Spec => []TranslationsExclude
BY Inductive, Exclude, PTL

LEMMA Returned == IInv => LocksAreReturned
<1> SUFFICES ASSUME IInv, NEW t \in Threads, holders[t] = <<>>
             PROVE  /\ \A f \in Funcs : s_funcOwners[f] # t
                    /\ \A l \in Leases : m_lock[l] # t
  BY Zenon DEF LocksAreReturned
<1>1. Len(holders[t]) = 0 /\ pc[t] = "run"
  BY SeqFacts, EmptyFacts, Zenon DEF IInv, Types
<1> QED
  BY <1>1 DEF IInv, Linked, HasFunc, HasLease, Taking

\* Every way out of a constructor, of checkKind() and of a translation gives
\* back what it acquired: a thread without holders owns no Func and no Lease.
THEOREM NothingLeaks == Spec => []LocksAreReturned
BY Inductive, Returned, PTL

=============================================================================
