-------------------------- MODULE SingleJitRequests --------------------------
(***************************************************************************)
(* hphp/runtime/vm/type-profile.cpp: which requests may acquire leases.    *)
(* The first requests are interpreted to profile them; of those that       *)
(* follow, until Eval.NumSingleJitRequests have finished, only the one     *)
(* that has singleJitLock may acquire a Lease, and only Eval.JitThreads at *)
(* a time may translate at level Func.  WriteLease is extended with the    *)
(* request each thread serves; the steps of a holder are taken by requests *)
(* that translate.                                                         *)
(*                                                                         *)
(* Each access of an atomic is a step.  Warm-up requests, served before    *)
(* the server listens, and threads that are not the VM's never get as far  *)
(* as the lock and are left out, as is relocation.                         *)
(***************************************************************************)
EXTENDS WriteLease

CONSTANTS
  EvalNumSingleJitRequests,
  EvalJitProfileInterpRequests

ASSUME SingleJitAssumption ==
  /\ EvalNumSingleJitRequests \in Nat
  /\ EvalJitProfileInterpRequests \in Nat
  /\ MayAcquire = BOOLEAN \X BOOLEAN

VARIABLES
  numRequests,             \* as far as EvalJitProfileInterpRequests
  singleJitRequests,
  singleJitLock, acquiredSingleJit,
  singleJitConcurrentCount, acquiredSingleJitConcurrent,
  threads,                 \* profileRequestStart()'s local
  request                  \* where each thread is in serving a request

jitVars ==
  <<numRequests, singleJitRequests, singleJitLock, acquiredSingleJit,
    singleJitConcurrentCount, acquiredSingleJitConcurrent, threads, request>>
allVars == <<vars, jitVars>>

SInit ==
  /\ Init
  /\ numRequests = 0
  /\ singleJitRequests = 0
  /\ singleJitLock = FALSE
  /\ acquiredSingleJit = [t \in Threads |-> FALSE]
  /\ singleJitConcurrentCount = 0
  /\ acquiredSingleJitConcurrent = [t \in Threads |-> FALSE]
  /\ threads = [t \in Threads |-> 0]
  /\ request = [t \in Threads |-> "none"]

Serve(t, stage) == request' = [request EXCEPT ![t] = stage]

-----------------------------------------------------------------------------
\* profileRequestStart(): a request is interpreted until enough are done.
ProfileRequestStart(t) ==
  /\ request[t] = "none"
  /\ IF numRequests < EvalJitProfileInterpRequests
     THEN Serve(t, "interp") /\ UNCHANGED mayVars
     ELSE /\ Serve(t, "test")
          /\ threadCanAcquire' = [threadCanAcquire EXCEPT ![t] = TRUE]
          /\ threadCanAcquireConcurrent' = [threadCanAcquireConcurrent EXCEPT ![t] = TRUE]
  /\ UNCHANGED <<leaseVars, funcVars, threadVars, numRequests, singleJitRequests,
                 singleJitLock, acquiredSingleJit, singleJitConcurrentCount,
                 acquiredSingleJitConcurrent, threads>>

TestSingleJit(t) ==
  /\ request[t] = "test"
  /\ Serve(t, IF singleJitRequests < EvalNumSingleJitRequests THEN "lock" ELSE "jit")
  /\ UNCHANGED <<vars, numRequests, singleJitRequests, singleJitLock, acquiredSingleJit,
                 singleJitConcurrentCount, acquiredSingleJitConcurrent, threads>>

\* Mutant: a request that does not get the lock is not refused.
ExchangeSingleJitLock_Refused(t) ==
  /\ request[t] = "lock"
  /\ singleJitLock' = TRUE
  /\ acquiredSingleJit' = [acquiredSingleJit EXCEPT ![t] = ~singleJitLock]
  /\ Serve(t, IF EvalJitConcurrently > 0 THEN "load" ELSE "jit")
  /\ UNCHANGED <<vars, numRequests, singleJitRequests, singleJitConcurrentCount,
                 acquiredSingleJitConcurrent, threads>>

\* singleJitLock.exchange(true)
ExchangeSingleJitLock(t) ==
  /\ request[t] = "lock"
  /\ singleJitLock' = TRUE
  /\ acquiredSingleJit' = [acquiredSingleJit EXCEPT ![t] = ~singleJitLock]
  /\ threadCanAcquire' = [threadCanAcquire EXCEPT ![t] = ~singleJitLock]
  /\ Serve(t, IF EvalJitConcurrently > 0 THEN "load" ELSE "jit")
  /\ UNCHANGED <<leaseVars, funcVars, threadVars, threadCanAcquireConcurrent, numRequests,
                 singleJitRequests, singleJitConcurrentCount,
                 acquiredSingleJitConcurrent, threads>>

\* The request is refused a place among Eval.JitThreads.
RefuseConcurrent(t) ==
  /\ threadCanAcquireConcurrent' = [threadCanAcquireConcurrent EXCEPT ![t] = FALSE]
  /\ Serve(t, "jit")

LoadConcurrentCount(t) ==
  /\ request[t] = "load"
  /\ threads' = [threads EXCEPT ![t] = singleJitConcurrentCount]
  /\ IF singleJitConcurrentCount < EvalJitThreads
     THEN Serve(t, "cas") /\ UNCHANGED threadCanAcquireConcurrent
     ELSE RefuseConcurrent(t)
  /\ UNCHANGED <<leaseVars, funcVars, threadVars, threadCanAcquire, numRequests,
                 singleJitRequests, singleJitLock, acquiredSingleJit,
                 singleJitConcurrentCount, acquiredSingleJitConcurrent>>

\* singleJitConcurrentCount.compare_exchange_strong(threads, threads + 1)
CasConcurrentCount(t) ==
  /\ request[t] = "cas"
  /\ IF singleJitConcurrentCount = threads[t]
     THEN /\ singleJitConcurrentCount' = threads[t] + 1
          /\ acquiredSingleJitConcurrent' = [acquiredSingleJitConcurrent EXCEPT ![t] = TRUE]
          /\ Serve(t, "jit")
          /\ UNCHANGED threadCanAcquireConcurrent
     ELSE /\ RefuseConcurrent(t)
          /\ UNCHANGED <<singleJitConcurrentCount, acquiredSingleJitConcurrent>>
  /\ threads' = [threads EXCEPT ![t] = 0]
  /\ UNCHANGED <<leaseVars, funcVars, threadVars, threadCanAcquire, numRequests,
                 singleJitRequests, singleJitLock, acquiredSingleJit>>

-----------------------------------------------------------------------------
\* A request that is not interpreted uses holders.
Translate(t) ==
  /\ request[t] = "jit"
  /\ \/ \E f \in Funcs, k \in Kinds : Construct(t, f, k)
     \/ \E k \in Kinds \cap {"Profile", "Live"} : CheckKind(t, k)
     \/ Destroy(t)
     \/ Step(t)
  /\ UNCHANGED jitVars

HintExpires(l) == Expire(l) /\ UNCHANGED jitVars

-----------------------------------------------------------------------------
\* profileRequestEnd(), called when the request's scopes are left.
ProfileRequestEnd(t) ==
  /\ request[t] \in {"jit", "interp"}
  /\ pc[t] = "run" /\ holders[t] = <<>>
  /\ numRequests' = IF numRequests < EvalJitProfileInterpRequests THEN numRequests + 1
                                                                   ELSE numRequests
  /\ Serve(t, IF acquiredSingleJit[t] \/ acquiredSingleJitConcurrent[t] THEN "count"
                                                                        ELSE "none")
  /\ UNCHANGED <<vars, singleJitRequests, singleJitLock, acquiredSingleJit,
                 singleJitConcurrentCount, acquiredSingleJitConcurrent, threads>>

\* ++singleJitRequests
CountSingleJit(t) ==
  /\ request[t] = "count"
  /\ singleJitRequests' = singleJitRequests + 1
  /\ Serve(t, "unlock")
  /\ UNCHANGED <<vars, numRequests, singleJitLock, acquiredSingleJit,
                 singleJitConcurrentCount, acquiredSingleJitConcurrent, threads>>

\* Mutant: whoever was counted releases the lock.
ReleaseSingleJitLock_Always(t) ==
  /\ request[t] = "unlock"
  /\ singleJitLock' = FALSE
  /\ acquiredSingleJit' = [acquiredSingleJit EXCEPT ![t] = FALSE]
  /\ Serve(t, "uncount")
  /\ UNCHANGED <<vars, numRequests, singleJitRequests,
                 singleJitConcurrentCount, acquiredSingleJitConcurrent, threads>>

ReleaseSingleJitLock(t) ==
  /\ request[t] = "unlock"
  /\ singleJitLock' = (singleJitLock /\ ~acquiredSingleJit[t])
  /\ acquiredSingleJit' = [acquiredSingleJit EXCEPT ![t] = FALSE]
  /\ Serve(t, "uncount")
  /\ UNCHANGED <<vars, numRequests, singleJitRequests,
                 singleJitConcurrentCount, acquiredSingleJitConcurrent, threads>>

ReleaseConcurrentCount(t) ==
  /\ request[t] = "uncount"
  /\ singleJitConcurrentCount' = IF acquiredSingleJitConcurrent[t]
                                 THEN singleJitConcurrentCount - 1
                                 ELSE singleJitConcurrentCount
  /\ acquiredSingleJitConcurrent' = [acquiredSingleJitConcurrent EXCEPT ![t] = FALSE]
  /\ Serve(t, "none")
  /\ UNCHANGED <<vars, numRequests, singleJitRequests, singleJitLock, acquiredSingleJit,
                 threads>>

SNext ==
  \/ \E t \in Threads :
       \/ ProfileRequestStart(t) \/ TestSingleJit(t) \/ ExchangeSingleJitLock(t)
       \/ LoadConcurrentCount(t) \/ CasConcurrentCount(t)
       \/ Translate(t)
       \/ ProfileRequestEnd(t) \/ CountSingleJit(t)
       \/ ReleaseSingleJitLock(t) \/ ReleaseConcurrentCount(t)
  \/ \E l \in Leases : HintExpires(l)

SSpec == SInit /\ [][SNext]_allVars

SFairSpec == SSpec /\ Fairness

-----------------------------------------------------------------------------
\* singleJitLock is set exactly while one request has it, and the count is the
\* number of requests counted in it, at most Eval.JitThreads, whatever starts and
\* ends in between: a lock or a place that was lost would keep every later
\* request of the warm-up from translating.
SingleJitIsExact ==
  LET locked == {t \in Threads : acquiredSingleJit[t]}
      counted == {t \in Threads : acquiredSingleJitConcurrent[t]} IN
  /\ Cardinality(locked) = IF singleJitLock THEN 1 ELSE 0
  /\ Cardinality(counted) = singleJitConcurrentCount
  /\ singleJitConcurrentCount <= EvalJitThreads

\* What Eval.NumSingleJitRequests is for: until so many requests have finished,
\* one request at a time may acquire Leases and nobody else has locked one;
\* "we still give threads permission to jit one request at a time, but we allow
\* up to Eval.JitThreads to have this permission at once", at level Func.
WarmUpIsLimited ==
  singleJitRequests < EvalNumSingleJitRequests =>
    LET leasing == {t \in Threads : request[t] = "jit" /\ threadCanAcquire[t]}
        concurrent == {t \in Threads : request[t] = "jit" /\ threadCanAcquireConcurrent[t]} IN
    /\ \A t, u \in leasing : t = u
    /\ ~blocking => \A l \in Leases : m_lock[l] \in leasing \cup {NULL}
    /\ EvalJitConcurrently > 0 => Cardinality(concurrent) <= EvalJitThreads
=============================================================================
