----------------------------- MODULE WriteLease -----------------------------
(***************************************************************************)
(* hphp/runtime/vm/jit/write-lease.{h,cpp}: the leases a request thread    *)
(* takes before it writes a translation.  A LeaseHolder is a scoped        *)
(* object; holders of one thread nest (the handler of a service request    *)
(* takes one, and the functions it calls take theirs), so a holder only    *)
(* releases what it acquired itself.  Depending on Eval.JitConcurrently a  *)
(* holder takes the global Lease, the Lease of its kind of translation and *)
(* a Func, or a Func and one of Eval.JitThreads slots.                     *)
(*                                                                         *)
(* Every access of shared state (m_held, m_owner, m_hintExpire, m_lock,    *)
(* s_funcOwners, s_jittingThreads) is a step of its own, except plain      *)
(* writes made under m_lock.  TransKind's prologue kinds lock as the kinds *)
(* they belong to.  No caller passes isWorker.                             *)
(***************************************************************************)
EXTENDS Integers, Sequences, FiniteSets

CONSTANTS
  Threads, Funcs,
  NULL,                   \* kInvalidThreadIdx, an unset m_owner, no lease
  EvalJitConcurrently,
  EvalJitThreads,
  EvalJitRequireWriteLease,
  MaxHolders,             \* bound: nested holders of a thread
  Kinds,                  \* bound: the kinds of translation asked for
  MayAcquire              \* bound: what a request may be allowed to acquire

ASSUME WriteLeaseAssumption ==
  /\ NULL \notin Threads
  /\ EvalJitConcurrently \in Nat
  /\ EvalJitThreads \in Nat
  /\ EvalJitRequireWriteLease \in BOOLEAN
  /\ MaxHolders \in Nat
  /\ Kinds \subseteq {"Profile", "Optimize", "Live"}
  /\ MayAcquire \subseteq BOOLEAN \X BOOLEAN

VARIABLES
  m_lock, m_owner, m_held,       \* of each Lease
  hinted,                        \* m_hintExpire lies in the future
  s_funcOwners,
  s_jittingThreads,
  threadCanAcquire, threadCanAcquireConcurrent,
  holders,                       \* each thread's live LeaseHolders
  pc,
  expireDiff                     \* acquire()'s local: it was positive

leaseVars == <<m_lock, m_owner, m_held, hinted>>
funcVars == <<s_funcOwners, s_jittingThreads>>
mayVars == <<threadCanAcquire, threadCanAcquireConcurrent>>
threadVars == <<holders, pc, expireDiff>>
vars == <<leaseVars, funcVars, mayVars, threadVars>>

Leases == {"global", "optimize", "live"}
TransKinds == {"Profile", "Optimize", "Live"}

ASSUME LeaseNull == NULL \notin Leases

lockLevel(kind) ==
  CASE EvalJitConcurrently = 0 -> "Global"
    [] EvalJitConcurrently > 0 /\ kind = "Profile" -> "Func"
    [] EvalJitConcurrently > 0 /\ kind = "Optimize" ->
         IF EvalJitConcurrently >= 2 THEN "Func" ELSE "Kind"
    [] EvalJitConcurrently > 0 /\ kind = "Live" ->
         IF EvalJitConcurrently >= 3 THEN "Func" ELSE "Kind"

\* The Lease a level asks for, kindLease() for the level Kind.
LeaseOf(kind) ==
  CASE lockLevel(kind) = "Global" -> "global"
    [] lockLevel(kind) = "Kind" /\ kind = "Optimize" -> "optimize"
    [] lockLevel(kind) = "Kind" /\ kind = "Live" -> "live"
    [] OTHER -> NULL

blocking == EvalJitRequireWriteLease /\ EvalJitConcurrently = 0

\* m_acquiredLease stands for m_acquiredGlobal and m_acquiredKind; kind is what
\* the constructor or checkKind() was last asked for.
NewHolder(func, kind) ==
  [m_func |-> func, kind |-> kind, m_level |-> "None", m_acquiredLease |-> NULL,
   m_acquiredFunc |-> FALSE, m_acquiredThread |-> FALSE]

Init ==
  /\ m_lock = [l \in Leases |-> NULL]
  /\ m_owner = [l \in Leases |-> NULL]
  /\ m_held = [l \in Leases |-> FALSE]
  /\ hinted = [l \in Leases |-> FALSE]
  /\ s_funcOwners = [f \in Funcs |-> NULL]
  /\ s_jittingThreads = 0
  /\ threadCanAcquire = [t \in Threads |-> TRUE]
  /\ threadCanAcquireConcurrent = [t \in Threads |-> TRUE]
  /\ holders = [t \in Threads |-> <<>>]
  /\ pc = [t \in Threads |-> "run"]
  /\ expireDiff = [t \in Threads |-> FALSE]

\* The holder that is being constructed, asked or destroyed is the last one.
Top(t) == holders[t][Len(holders[t])]
SetTop(t, h) == holders' = [holders EXCEPT ![t][Len(holders[t])] = h]
Goto(t, label) == pc' = [pc EXCEPT ![t] = label]
Constructing(t) == Top(t).m_level = "None"

\* The constructor or checkKind() has its Lease and leaves h as its holder: the
\* constructor may go on to the Func.
HaveLease(t, h) ==
  IF Constructing(t) /\ EvalJitConcurrently > 0
  THEN SetTop(t, h) /\ Goto(t, "func")
  ELSE SetTop(t, [h EXCEPT !.m_level = lockLevel(h.kind)]) /\ Goto(t, "run")

\* A constructor that fails drops its locks (SCOPE_EXIT); the caller of either
\* then leaves the holder's scope.
Fail(t) == Goto(t, "dropThread")

-----------------------------------------------------------------------------
\* A request starts: profileRequestStart() says what it may acquire.
SetMayAcquire(t, lease, concurrent) ==
  /\ pc[t] = "run" /\ holders[t] = <<>>
  /\ <<lease, concurrent>> \in MayAcquire
  /\ threadCanAcquire' = [threadCanAcquire EXCEPT ![t] = lease]
  /\ threadCanAcquireConcurrent' =
       [threadCanAcquireConcurrent EXCEPT ![t] = concurrent]
  /\ UNCHANGED <<leaseVars, funcVars, threadVars>>

\* LeaseHolder::LeaseHolder(), as far as its first access of shared state.
Construct(t, func, kind) ==
  /\ pc[t] = "run" /\ Len(holders[t]) < MaxHolders
  /\ holders' = [holders EXCEPT ![t] = Append(@, NewHolder(func, kind))]
  /\ Goto(t, CASE lockLevel(kind) = "Func" /\ ~threadCanAcquireConcurrent[t] -> "dropThread"
               [] lockLevel(kind) = "Func" /\ threadCanAcquireConcurrent[t] -> "func"
               [] OTHER -> "amOwner")
  /\ UNCHANGED <<leaseVars, funcVars, mayVars, expireDiff>>

\* LeaseHolder::checkKind(), asked when profileFunc() changed its answer.
CheckKind(t, kind) ==
  LET asked == [Top(t) EXCEPT !.kind = kind] IN
  /\ pc[t] = "run" /\ holders[t] # <<>>
  /\ Top(t).kind \in {"Profile", "Live"} \ {kind}
  /\ IF lockLevel(kind) = Top(t).m_level \/ LeaseOf(kind) # NULL
     THEN /\ SetTop(t, asked)
          /\ Goto(t, IF lockLevel(kind) = Top(t).m_level THEN "run" ELSE "amOwner")
     ELSE /\ SetTop(t, [asked EXCEPT !.m_level = lockLevel(kind)])
          /\ UNCHANGED pc
  /\ UNCHANGED <<leaseVars, funcVars, mayVars, expireDiff>>

-----------------------------------------------------------------------------
\* Lease::amOwner(): m_held is read first, and m_owner only when it is set.
\* m_owner may have another value by then.  The holder asks, and acquire() asks
\* again; only the thread itself can change the answer.
AmOwnerHeld(t) ==
  /\ pc[t] = "amOwner"
  /\ Goto(t, IF m_held[LeaseOf(Top(t).kind)] THEN "owner" ELSE "acquire")
  /\ UNCHANGED <<leaseVars, funcVars, mayVars, holders, expireDiff>>

AmOwner(t) ==
  /\ pc[t] = "owner"
  /\ IF m_owner[LeaseOf(Top(t).kind)] = t
     THEN HaveLease(t, Top(t))
     ELSE Goto(t, "acquire") /\ UNCHANGED holders
  /\ UNCHANGED <<leaseVars, funcVars, mayVars, expireDiff>>

\* Lease::acquire() reads m_hintExpire and the clock.
ReadHint(t) ==
  /\ pc[t] = "acquire"
  /\ IF ~threadCanAcquire[t] /\ ~blocking
     THEN Fail(t) /\ UNCHANGED expireDiff
     ELSE /\ expireDiff' = [expireDiff EXCEPT ![t] = ~blocking /\ hinted[LeaseOf(Top(t).kind)]]
          /\ Goto(t, IF blocking THEN "lock" ELSE "held")
  /\ UNCHANGED <<leaseVars, funcVars, mayVars, holders>>

\* ... then m_held, and m_owner when the hint has not expired.
ReadHeld(t) ==
  LET l == LeaseOf(Top(t).kind) IN
  /\ pc[t] = "held"
  /\ IF m_held[l] \/ (expireDiff[t] /\ m_owner[l] # t) THEN Fail(t) ELSE Goto(t, "lock")
  /\ expireDiff' = [expireDiff EXCEPT ![t] = FALSE]
  /\ UNCHANGED <<leaseVars, funcVars, mayVars, holders>>

\* pthread_mutex_trylock(), or pthread_mutex_lock(), which waits.
Lock(t) ==
  LET l == LeaseOf(Top(t).kind) IN
  /\ pc[t] = "lock"
  /\ blocking => m_lock[l] = NULL
  /\ IF m_lock[l] = NULL
     THEN m_lock' = [m_lock EXCEPT ![l] = t] /\ Goto(t, "take")
     ELSE Fail(t) /\ UNCHANGED m_lock
  /\ UNCHANGED <<m_owner, m_held, hinted, funcVars, mayVars, holders, expireDiff>>

SetOwner(t) ==
  LET l == LeaseOf(Top(t).kind) IN
  /\ pc[t] = "take"
  /\ m_owner' = [m_owner EXCEPT ![l] = t]
  /\ hinted' = [hinted EXCEPT ![l] = FALSE]
  /\ Goto(t, "hold")
  /\ UNCHANGED <<m_lock, m_held, funcVars, mayVars, holders, expireDiff>>

\* Mutant: the holder does not note that it acquired the Lease.
SetHeld_NotNoted(t) ==
  /\ pc[t] = "hold"
  /\ m_held' = [m_held EXCEPT ![LeaseOf(Top(t).kind)] = TRUE]
  /\ HaveLease(t, Top(t))
  /\ UNCHANGED <<m_lock, m_owner, hinted, funcVars, mayVars, expireDiff>>

\* acquire() returns true: m_acquiredGlobal or m_acquiredKind is set.
SetHeld(t) ==
  LET l == LeaseOf(Top(t).kind) IN
  /\ pc[t] = "hold"
  /\ m_held' = [m_held EXCEPT ![l] = TRUE]
  /\ HaveLease(t, [Top(t) EXCEPT !.m_acquiredLease = l])
  /\ UNCHANGED <<m_lock, m_owner, hinted, funcVars, mayVars, expireDiff>>

-----------------------------------------------------------------------------
\* Mutant: a nested holder takes over the Func that its thread owns already.
LoadOwner_TakesOver(t) ==
  LET f == Top(t).m_func
      level == lockLevel(Top(t).kind) IN
  /\ pc[t] = "func"
  /\ \/ /\ s_funcOwners[f] = t
        /\ SetTop(t, [Top(t) EXCEPT !.m_level = level, !.m_acquiredFunc = TRUE])
        /\ Goto(t, "run")
     \/ /\ s_funcOwners[f] \notin {t, NULL}
        /\ Fail(t) /\ UNCHANGED holders
     \/ /\ s_funcOwners[f] = NULL
        /\ Goto(t, IF level = "Func" THEN "threads" ELSE "cas")
        /\ UNCHANGED holders
  /\ UNCHANGED <<leaseVars, funcVars, mayVars, expireDiff>>

\* The constructor, once it has its Lease: s_funcOwners[funcId].load().
LoadOwner(t) ==
  LET f == Top(t).m_func
      level == lockLevel(Top(t).kind) IN
  /\ pc[t] = "func"
  /\ \/ /\ s_funcOwners[f] = t
        /\ SetTop(t, [Top(t) EXCEPT !.m_level = level])
        /\ Goto(t, "run")
     \/ /\ s_funcOwners[f] \notin {t, NULL}
        /\ Fail(t) /\ UNCHANGED holders
     \/ /\ s_funcOwners[f] = NULL
        /\ Goto(t, IF level = "Func" THEN "threads" ELSE "cas")
        /\ UNCHANGED holders
  /\ UNCHANGED <<leaseVars, funcVars, mayVars, expireDiff>>

LoadJittingThreads(t) ==
  /\ pc[t] = "threads"
  /\ IF s_jittingThreads >= EvalJitThreads THEN Fail(t) ELSE Goto(t, "add")
  /\ UNCHANGED <<leaseVars, funcVars, mayVars, holders, expireDiff>>

\* Mutant: the limit is not tested after fetch_add().
AddJittingThread_NoRecheck(t) ==
  /\ pc[t] = "add"
  /\ s_jittingThreads' = s_jittingThreads + 1
  /\ SetTop(t, [Top(t) EXCEPT !.m_acquiredThread = TRUE])
  /\ Goto(t, "cas")
  /\ UNCHANGED <<leaseVars, s_funcOwners, mayVars, expireDiff>>

\* s_jittingThreads.fetch_add(1), and the limit tested again.
AddJittingThread(t) ==
  /\ pc[t] = "add"
  /\ s_jittingThreads' = s_jittingThreads + 1
  /\ SetTop(t, [Top(t) EXCEPT !.m_acquiredThread = TRUE])
  /\ IF s_jittingThreads >= EvalJitThreads THEN Fail(t) ELSE Goto(t, "cas")
  /\ UNCHANGED <<leaseVars, s_funcOwners, mayVars, expireDiff>>

\* Mutant: owner.store(self), on the strength of the load.
CasOwner_Stores(t) ==
  /\ pc[t] = "cas"
  /\ s_funcOwners' = [s_funcOwners EXCEPT ![Top(t).m_func] = t]
  /\ SetTop(t, [Top(t) EXCEPT !.m_acquiredFunc = TRUE,
                              !.m_level = lockLevel(Top(t).kind)])
  /\ Goto(t, "run")
  /\ UNCHANGED <<leaseVars, s_jittingThreads, mayVars, expireDiff>>

\* owner.compare_exchange_strong(): it expects no owner.
CasOwner(t) ==
  LET f == Top(t).m_func IN
  /\ pc[t] = "cas"
  /\ IF s_funcOwners[f] = NULL
     THEN /\ s_funcOwners' = [s_funcOwners EXCEPT ![f] = t]
          /\ SetTop(t, [Top(t) EXCEPT !.m_acquiredFunc = TRUE,
                                      !.m_level = lockLevel(Top(t).kind)])
          /\ Goto(t, "run")
     ELSE Fail(t) /\ UNCHANGED <<s_funcOwners, holders>>
  /\ UNCHANGED <<leaseVars, s_jittingThreads, mayVars, expireDiff>>

-----------------------------------------------------------------------------
\* The holder's scope ends, translation done: ~LeaseHolder().
Destroy(t) ==
  /\ pc[t] = "run" /\ holders[t] # <<>>
  /\ Goto(t, "dropThread")
  /\ UNCHANGED <<leaseVars, funcVars, mayVars, holders, expireDiff>>

\* Mutant: only a holder that is true drops its locks.
DropThread_IfTrue(t) ==
  /\ pc[t] = "dropThread"
  /\ s_jittingThreads' = IF Top(t).m_acquiredThread THEN s_jittingThreads - 1
                                                   ELSE s_jittingThreads
  /\ SetTop(t, [Top(t) EXCEPT !.m_level = "None", !.m_acquiredThread = FALSE])
  /\ Goto(t, IF Top(t).m_level = "None" THEN "dropped" ELSE "dropFunc")
  /\ UNCHANGED <<leaseVars, s_funcOwners, mayVars, expireDiff>>

\* dropLocks(), one lock after the other.
DropThread(t) ==
  /\ pc[t] = "dropThread"
  /\ s_jittingThreads' = IF Top(t).m_acquiredThread THEN s_jittingThreads - 1
                                                   ELSE s_jittingThreads
  /\ SetTop(t, [Top(t) EXCEPT !.m_level = "None", !.m_acquiredThread = FALSE])
  /\ Goto(t, "dropFunc")
  /\ UNCHANGED <<leaseVars, s_funcOwners, mayVars, expireDiff>>

DropFunc(t) ==
  LET f == Top(t).m_func IN
  /\ pc[t] = "dropFunc"
  /\ s_funcOwners' = IF Top(t).m_acquiredFunc THEN [s_funcOwners EXCEPT ![f] = NULL]
                                             ELSE s_funcOwners
  /\ SetTop(t, [Top(t) EXCEPT !.m_acquiredFunc = FALSE])
  /\ Goto(t, IF Top(t).m_acquiredLease = NULL THEN "dropped" ELSE "dropLease")
  /\ UNCHANGED <<leaseVars, s_jittingThreads, mayVars, expireDiff>>

\* Lease::drop(EvalJitWriteLeaseExpiration): the hint, m_held, the mutex.
DropHint(t) ==
  /\ pc[t] = "dropLease"
  /\ hinted' = [hinted EXCEPT ![Top(t).m_acquiredLease] = TRUE]
  /\ Goto(t, "dropHeld")
  /\ UNCHANGED <<m_lock, m_owner, m_held, funcVars, mayVars, holders, expireDiff>>

DropHeld(t) ==
  /\ pc[t] = "dropHeld"
  /\ m_held' = [m_held EXCEPT ![Top(t).m_acquiredLease] = FALSE]
  /\ Goto(t, "unlock")
  /\ UNCHANGED <<m_lock, m_owner, hinted, funcVars, mayVars, holders, expireDiff>>

Unlock(t) ==
  /\ pc[t] = "unlock"
  /\ m_lock' = [m_lock EXCEPT ![Top(t).m_acquiredLease] = NULL]
  /\ SetTop(t, [Top(t) EXCEPT !.m_acquiredLease = NULL])
  /\ Goto(t, "dropped")
  /\ UNCHANGED <<m_owner, m_held, hinted, funcVars, mayVars, expireDiff>>

\* The object is gone.
Dropped(t) ==
  /\ pc[t] = "dropped"
  /\ holders' = [holders EXCEPT ![t] = SubSeq(@, 1, Len(@) - 1)]
  /\ Goto(t, "run")
  /\ UNCHANGED <<leaseVars, funcVars, mayVars, expireDiff>>

\* Time passes m_hintExpire.
Expire(l) ==
  /\ hinted[l]
  /\ hinted' = [hinted EXCEPT ![l] = FALSE]
  /\ UNCHANGED <<m_lock, m_owner, m_held, funcVars, mayVars, threadVars>>

\* The steps a thread takes once it has begun an operation.
Step(t) ==
  \/ AmOwnerHeld(t) \/ AmOwner(t) \/ ReadHint(t) \/ ReadHeld(t)
  \/ Lock(t) \/ SetOwner(t) \/ SetHeld(t)
  \/ LoadOwner(t) \/ LoadJittingThreads(t) \/ AddJittingThread(t) \/ CasOwner(t)
  \/ DropThread(t) \/ DropFunc(t) \/ DropHint(t) \/ DropHeld(t) \/ Unlock(t)
  \/ Dropped(t)

Next ==
  \/ \E t \in Threads, a, c \in BOOLEAN : SetMayAcquire(t, a, c)
  \/ \E t \in Threads, f \in Funcs, k \in Kinds : Construct(t, f, k)
  \/ \E t \in Threads, k \in Kinds \cap {"Profile", "Live"} : CheckKind(t, k)
  \/ \E t \in Threads : Destroy(t)
  \/ \E t \in Threads : Step(t)
  \/ \E l \in Leases : Expire(l)

Spec == Init /\ [][Next]_vars

\* Running threads are scheduled, a mutex that is free again and again is
\* eventually obtained, and a translation ends, also one that nests others.
Fairness ==
  \A t \in Threads :
    /\ SF_vars(Step(t))
    /\ \A n \in 1..MaxHolders : SF_vars(Len(holders[t]) = n /\ Destroy(t))

-----------------------------------------------------------------------------
Labels ==
  {"run", "amOwner", "owner", "acquire", "held", "lock", "take", "hold",
   "func", "threads", "add", "cas",
   "dropThread", "dropFunc", "dropLease", "dropHeld", "unlock", "dropped"}

Holder ==
  [m_func : Funcs, kind : TransKinds, m_level : {"None", "Func", "Kind", "Global"},
   m_acquiredLease : Leases \cup {NULL},
   m_acquiredFunc : BOOLEAN, m_acquiredThread : BOOLEAN]

\* Each variable has the type of the code's, and only a thread that is not in
\* the middle of an operation is without a holder.
TypeOK ==
  /\ m_lock \in [Leases -> Threads \cup {NULL}]
  /\ m_owner \in [Leases -> Threads \cup {NULL}]
  /\ m_held \in [Leases -> BOOLEAN]
  /\ hinted \in [Leases -> BOOLEAN]
  /\ s_funcOwners \in [Funcs -> Threads \cup {NULL}]
  /\ s_jittingThreads \in Nat
  /\ threadCanAcquire \in [Threads -> BOOLEAN]
  /\ threadCanAcquireConcurrent \in [Threads -> BOOLEAN]
  /\ holders \in [Threads -> Seq(Holder)]
  /\ pc \in [Threads -> Labels]
  /\ expireDiff \in [Threads -> BOOLEAN]
  /\ \A t \in Threads : pc[t] # "run" => holders[t] # <<>>

\* All live holders, as pairs of thread and place.
Live == UNION {{t} \X (1..Len(holders[t])) : t \in Threads}
H(x) == holders[x[1]][x[2]]
OwnsLease(t, l) == m_held[l] /\ m_owner[l] = t /\ m_lock[l] = t

\* A holder that is true (operator bool) has every lock of its level for as long
\* as it lives, whichever holder of its thread acquired it, and whatever holders
\* nested in it have acquired, been refused and dropped since.
HoldersKeepTheirLocks ==
  \A x \in Live : H(x).m_level # "None" =>
    /\ EvalJitConcurrently > 0 => s_funcOwners[H(x).m_func] = x[1]
    /\ H(x).m_level \in {"Kind", "Global"} => OwnsLease(x[1], LeaseOf(H(x).kind))

\* What the leases are for.  Two threads that may both translate do so for
\* different Funcs; at level Kind with different kinds of lease ("1 Optimize
\* concurrent with 1 Live translation"); and never when one has level Global ("1
\* translation at a time").
TranslationsExclude ==
  \A x, y \in Live :
    (x[1] # y[1] /\ H(x).m_level # "None" /\ H(y).m_level # "None") =>
      /\ H(x).m_level # "Global"
      /\ H(x).m_func # H(y).m_func
      /\ (H(x).m_level = "Kind" /\ H(y).m_level = "Kind")
           => LeaseOf(H(x).kind) # LeaseOf(H(y).kind)

\* s_jittingThreads counts exactly the holders that added themselves to it, and
\* no more than Eval.JitThreads of those get to translate, although load(),
\* fetch_add() and fetch_sub() of different threads interleave.
JittingThreadsAreLimited ==
  /\ s_jittingThreads = Cardinality({x \in Live : H(x).m_acquiredThread})
  /\ Cardinality({x \in Live : H(x).m_acquiredThread /\ H(x).m_level # "None"})
       <= EvalJitThreads

\* A thread without holders has no lock left, whatever was refused on the way:
\* every path out of a constructor or of checkKind() gives all back.
LocksAreReturned ==
  \A t \in Threads : holders[t] = <<>> =>
    /\ \A f \in Funcs : s_funcOwners[f] # t
    /\ \A l \in Leases : m_lock[l] # t

\* write-lease.cpp on the limit: "Only non-worker threads with LockLevel::Func
\* count towards the Eval.JitThreads limit."  checkKind() lets a holder of level
\* Kind change to level Func without counting.
FuncLevelIsLimited ==
  Cardinality({t \in Threads : \E i \in 1..Len(holders[t]) : holders[t][i].m_level = "Func"})
    <= EvalJitThreads

\* The comment on Lease: after a hinted drop "all calls to acquire(false) from
\* threads other than the last owner will fail for a short period of time".  A
\* call that read m_hintExpire before the drop does not know of the hint.
HintKeepsOthersOut ==
  [][\A l \in Leases :
       (m_lock[l] = NULL /\ m_lock'[l] # NULL /\ hinted[l]) => m_lock'[l] = m_owner[l]]_vars

\* A thread that blocks on the global lease gets it (Eval.JitRequireWriteLease):
\* owners that nest further holders never wait for themselves.
BlockedAcquireReturns ==
  \A t \in Threads : (pc[t] = "lock") ~> (pc[t] # "lock")
=============================================================================
