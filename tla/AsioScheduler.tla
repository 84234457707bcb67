--------------------------- MODULE AsioScheduler ---------------------------
(***************************************************************************)
(* The scheduler of async PHP code (runtime/ext/asio): the wait handles of *)
(* one request, the parent chains that link a handle to those it blocks,   *)
(* the stack of contexts that nested joins open, and the loop that runs a  *)
(* context until the joined handle has finished.                           *)
(*                                                                         *)
(* The request thread is sequential, but what runs next is decided by PHP  *)
(* code, by the external threads that finish events and by the clock.  A   *)
(* step is one operation of PHP code, one iteration of a loop of the       *)
(* scheduler, or one external event.  PHP code runs at the top level, in a *)
(* resumed async function and in the session's callbacks.                  *)
(*                                                                         *)
(* The program keeps a reference to every handle, so none is destroyed;    *)
(* refs counts only the references that the scheduler itself takes.  The   *)
(* callbacks on creation, Xenon and the interval timer are left out.       *)
(***************************************************************************)
EXTENDS Integers, Sequences, FiniteSets

LOCAL INSTANCE SequencesExt
LOCAL INSTANCE FiniteSetsExt

CONSTANTS
  MaxHandles,  \* bound on the handles a request creates
  MaxDepth,    \* MAX_CONTEXT_DEPTH
  MaxKids,     \* bound on the children of an AwaitAllWaitHandle
  Kinds,       \* the kinds of handles the PHP code creates
  Priorities,  \* the priorities it gives to rescheduled handles
  Hooks        \* the callbacks that are set, by the pc at which they run

AllKinds == {"AsyncFunction", "AsyncGenerator", "AwaitAll", "Condition",
             "Reschedule", "Sleep", "ExternalThreadEvent"}
WaitKinds == {"Sleep", "ExternalThreadEvent"}

ASSUME AsioAssumption ==
  /\ MaxHandles \in Nat /\ MaxDepth \in 1..255 /\ MaxKids \in Nat \ {0}
  /\ Kinds \subseteq AllKinds
  /\ Priorities \subseteq Nat /\ Priorities # {} /\ IsFiniteSet(Priorities)
  /\ Hooks \subseteq {"enterIO", "exitIO", "slept", "processed"}

VARIABLES
  wh,         \* the wait handles, in the order of their creation
  cx,         \* m_contexts: the open contexts, the current one last
  sleepers,   \* m_sleepEvents, earliest wake time first
  due,        \* how many of them have reached their wake time
  arrived,    \* events sent by external threads, the last one first
  received,   \* m_received: events taken from that queue, unprocessed
  unwinding,  \* a C++ exception is propagating
  ok          \* no assertion of the code has failed

vars == <<wh, cx, sleepers, due, arrived, received, unwinding, ok>>

(* The operations below change the handles, the contexts and ok; they map  *)
(* a record m of the three to a new one.                                   *)
M == [wh |-> wh, cx |-> cx, ok |-> ok]
Set(m) == wh' = m.wh /\ cx' = m.cx /\ ok' = m.ok

Finished(m, h) == m.wh[h].state \in {"SUCCEEDED", "FAILED"}
Check(m, cond) == [m EXCEPT !.ok = @ /\ cond]
IncRef(m, h) == [m EXCEPT !.wh[h].refs = @ + 1]
DecRef(m, h) == [m EXCEPT !.wh[h].refs = @ - 1]
SetCtx(m, h, k) == [m EXCEPT !.wh[h].ctx = k]

-----------------------------------------------------------------------------
(* A handle.  children[unfinished] is the child it is blocked on; nodes of *)
(* a parent chain are pairs <<parent, index of this child>>.               *)
NewHandle(kind, state, ctx) ==
  [kind |-> kind, state |-> state, ctx |-> ctx, children |-> <<>>,
   unfinished |-> 0, parents |-> <<>>, resumeAddr |-> FALSE, vecIdx |-> 0,
   default |-> FALSE, priority |-> 0, refs |-> 0]

NewContext(h) ==
  [target |-> h, pc |-> "loop", running |-> 0, io |-> "Sleep",
   runnable |-> <<>>, fast |-> <<>>,
   prioDefault |-> [p \in Priorities |-> <<>>],
   prioNoPendingIO |-> [p \in Priorities |-> <<>>],
   waits |-> [k \in WaitKinds |-> <<>>]]

(* Slip: the newest parent goes to the end of the chain.                   *)
AddParent_Appends(m, c, node) == [m EXCEPT !.wh[c].parents = Append(@, node)]

AddParent(m, c, node) == [m EXCEPT !.wh[c].parents = <<node>> \o @]

IsFastResumable(m, h) ==
  /\ m.wh[h].kind = "AsyncFunction" /\ m.wh[h].resumeAddr
  /\ m.wh[m.wh[h].children[1]].state = "SUCCEEDED"

Schedule(m, h) == [m EXCEPT !.cx[m.wh[h].ctx].runnable = Append(@, h)]

ScheduleResumable(m, h) ==
  IF IsFastResumable(m, h)
    THEN [m EXCEPT !.cx[m.wh[h].ctx].fast = Append(@, h)]
    ELSE Schedule(m, h)

ScheduleInContext(m, h) ==
  LET w == m.wh[h]
  IN IncRef(IF w.default
            THEN [m EXCEPT !.cx[w.ctx].prioDefault[w.priority] = Append(@, h)]
            ELSE [m EXCEPT !.cx[w.ctx].prioNoPendingIO[w.priority] = Append(@, h)], h)

RegisterToContext(m, h) ==
  LET w == m.wh[h]
  IN [m EXCEPT !.cx[w.ctx].waits[w.kind] = Append(@, h),
               !.wh[h].vecIdx = Len(m.cx[w.ctx].waits[w.kind]) + 1]

(* Slip: the handle moved into the gap keeps its old index.                *)
UnregisterFromContext_KeepsIndex(m, h) ==
  LET w == m.wh[h]
      vec == m.cx[w.ctx].waits[w.kind]
  IN IF w.vecIdx > Len(vec) THEN Check(m, FALSE)
     ELSE [m EXCEPT !.cx[w.ctx].waits[w.kind] =
                       Front([vec EXCEPT ![w.vecIdx] = Last(vec)])]

UnregisterFromContext(m, h) ==
  LET w == m.wh[h]
      vec == m.cx[w.ctx].waits[w.kind]
      n == Len(vec)
  IN IF w.vecIdx > n THEN Check(m, FALSE)
     ELSE [m EXCEPT !.cx[w.ctx].waits[w.kind] =
                       Front([vec EXCEPT ![w.vecIdx] = vec[n]]),
                    !.wh[vec[n]].vecIdx = w.vecIdx]

GetChild(m, h) ==
  IF m.wh[h].state = "BLOCKED" THEN m.wh[h].children[m.wh[h].unfinished] ELSE 0

(* isDescendantOf: does the chain of children of h lead to x?              *)
RECURSIVE IsDescendantOf(_, _, _)
IsDescendantOf(m, x, h) ==
  \/ h = x
  \/ h # 0 /\ ~Finished(m, h) /\ IsDescendantOf(m, x, GetChild(m, h))

-----------------------------------------------------------------------------
(* A handle finishes: its state changes, then each of its parents is told. *)
(* The record of a finished handle is cleared; the code reuses its memory. *)
RECURSIVE Unblock(_, _)

Finish(m, h, state) ==
  Unblock([m EXCEPT !.wh[h] =
             [NewHandle(@.kind, state, 0) EXCEPT !.refs = m.wh[h].refs]],
          m.wh[h].parents)

ResumableOnUnblocked(m, h) ==
  LET n == [m EXCEPT !.wh[h].state = "READY"]
  IN IF m.wh[h].ctx > 0 THEN ScheduleResumable(n, h) ELSE DecRef(n, h)

(* Slip: the failed handle stays in the parent chains of its children.     *)
MarkAsFailed_StaysListed(m, h) == DecRef(Finish(m, h, "FAILED"), h)

(* removeFromChain takes a node from a parent chain, and asserts that it   *)
(* is found there.                                                         *)
RemoveFromChain(m, c, node) ==
  [Check(m, node \in ToSet(m.wh[c].parents)) EXCEPT
     !.wh[c].parents = SelectSeq(@, LAMBDA x : x # node)]

MarkAsFailed(m, h) ==
  LET kids == m.wh[h].children
      Unlist(n, i) == IF Finished(n, kids[i]) THEN n
                      ELSE RemoveFromChain(n, kids[i], <<h, i>>)
      left == FoldLeft(Unlist, m, [i \in DOMAIN kids |-> i])
  IN DecRef(Finish(left, h, "FAILED"), h)

(* Slip: the next child may depend on this handle.                         *)
AwaitAllOnUnblocked_NoCycleCheck(m, h, i) ==
  LET w == m.wh[h]
      left == {j \in 1..(i - 1) : ~Finished(m, w.children[j])}
  IN IF w.state # "BLOCKED" \/ i # w.unfinished THEN m
     ELSE IF left = {} THEN DecRef(Finish(m, h, "SUCCEEDED"), h)
     ELSE [m EXCEPT !.wh[h].unfinished = Max(left)]

AwaitAllOnUnblocked(m, h, i) ==
  LET w == m.wh[h]
      a == Check(m, w.state = "BLOCKED" /\ i <= w.unfinished)
      left == {j \in 1..(i - 1) : ~Finished(m, w.children[j])}
      next == Max(left)
      n == [a EXCEPT !.wh[h].unfinished = next]
  IN IF w.state # "BLOCKED" \/ i # w.unfinished THEN a
     ELSE IF left = {} THEN DecRef(Finish(a, h, "SUCCEEDED"), h)
     ELSE IF IsDescendantOf(n, h, w.children[next]) THEN MarkAsFailed(n, h)
     ELSE n

ConditionOnUnblocked(m, h) ==
  DecRef(IF Finished(m, h) THEN m ELSE Finish(m, h, "FAILED"), h)

OnUnblocked(m, node) ==
  LET h == node[1]
  IN CASE m.wh[h].kind = "AwaitAll" -> AwaitAllOnUnblocked(m, h, node[2])
       [] m.wh[h].kind = "Condition" -> ConditionOnUnblocked(m, h)
       [] OTHER -> ResumableOnUnblocked(m, h)

Unblock(m, chain) ==
  IF chain = <<>> THEN m ELSE Unblock(OnUnblocked(m, Head(chain)), Tail(chain))

-----------------------------------------------------------------------------
(* Entering a context: the handles that root depends on and that are in an *)
(* outer context are imported, unless one of them is running.              *)
Dependencies(m, h) ==
  IF m.wh[h].state = "BLOCKED" THEN ToSet(m.wh[h].children) ELSE {}

RECURSIVE Discover(_, _, _)
Discover(m, S, k) ==
  LET found == {c \in UNION {Dependencies(m, h) : h \in S} :
                  ~Finished(m, c) /\ m.wh[c].ctx < k}
  IN IF found \subseteq S THEN S ELSE Discover(m, S \cup found, k)

ImportSet(m, root, k) ==
  IF Finished(m, root) \/ m.wh[root].ctx >= k THEN {} ELSE Discover(m, {root}, k)

HasRunning(m, S) == \E h \in S : m.wh[h].state = "RUNNING"

Enter(m, h, k) ==
  LET w == m.wh[h]
      n == SetCtx(m, h, k)
  IN CASE w.kind \in WaitKinds ->
            RegisterToContext(
              SetCtx(IF w.ctx > 0 THEN UnregisterFromContext(m, h) ELSE m, h, k), h)
       [] w.kind = "Reschedule" -> ScheduleInContext(n, h)
       [] w.state = "READY" -> IncRef(Schedule(n, h), h)
       [] OTHER -> n

(* The order of an unordered_set is unknown: every order is possible.      *)
EnterContext(m, S, k) ==
  {FoldLeft(LAMBDA n, h : Enter(n, h, k), m, order) : order \in SetToSeqs(S)}

-----------------------------------------------------------------------------
(* Leaving context k: what its queues hold moves to context k - 1, and     *)
(* with each handle those that it blocks.                                  *)
RECURSIVE ExitParents(_, _, _)

ExitParent(m, node, k) ==
  LET p == node[1]
      w == m.wh[p]
  IN IF \/ w.kind = "AwaitAll" /\ node[2] # w.unfinished
        \/ w.kind = "Condition" /\ Finished(m, p)
     THEN m
     ELSE LET a == Check(m, ~Finished(m, p) /\ w.ctx <= k)
          IN IF w.ctx # k THEN a
             ELSE ExitParents(SetCtx(a, p, k - 1), w.parents, k)

ExitParents(m, chain, k) ==
  FoldLeft(LAMBDA n, node : ExitParent(n, node, k), m, chain)

(* Slip: the reference of an entry that is out of date is kept.            *)
ResumableExit_KeepsRef(m, h, k) ==
  LET n == SetCtx(ExitParents(m, m.wh[h].parents, k), h, k - 1)
  IN IF Finished(m, h) \/ m.wh[h].ctx # k \/ m.wh[h].state = "BLOCKED" THEN m
     ELSE IF k > 1 THEN ScheduleResumable(n, h) ELSE DecRef(n, h)

ResumableExit(m, h, k) ==
  LET w == m.wh[h]
      n == SetCtx(ExitParents(m, w.parents, k), h, k - 1)
  IN IF Finished(m, h) THEN DecRef(m, h)
     ELSE IF w.ctx # k \/ w.state = "BLOCKED"
       THEN DecRef(Check(m, w.ctx <= k), h)
     ELSE IF w.state # "READY" THEN Check(m, FALSE)
     ELSE IF k > 1 THEN ScheduleResumable(n, h) ELSE DecRef(n, h)

RescheduleExit(m, h, k) ==
  LET w == m.wh[h]
      n == SetCtx(m, h, k - 1)
      moved == ExitParents(IF k > 1 THEN ScheduleInContext(n, h) ELSE n,
                           w.parents, k)
  IN DecRef(IF Finished(m, h) THEN m
            ELSE IF w.ctx # k THEN Check(m, w.ctx <= k)
            ELSE moved, h)

WaitExit(m, h, k) ==
  LET w == m.wh[h]
      a == SetCtx(Check(m, w.state = "WAITING" /\ w.ctx = k), h, k - 1)
  IN ExitParents(IF k > 1 THEN RegisterToContext(a, h) ELSE a, w.parents, k)

ByPriority(queues) ==
  FlattenSeq([i \in 1..Cardinality(Priorities) |->
                queues[SetToSortSeq(Priorities, <)[i]]])

ExitContext(m, k) ==
  LET c == m.cx[k]
      m1 == FoldLeft(LAMBDA n, h : ResumableExit(n, h, k), m,
                     Reverse(c.runnable) \o Reverse(c.fast))
      m2 == FoldLeft(LAMBDA n, h : RescheduleExit(n, h, k), m1,
                     ByPriority(c.prioDefault) \o ByPriority(c.prioNoPendingIO))
      m3 == FoldLeft(LAMBDA n, h : WaitExit(n, h, k), m2,
                     Reverse(c.waits["Sleep"])
                       \o Reverse(c.waits["ExternalThreadEvent"]))
  IN [m3 EXCEPT !.cx = Front(@)]

-----------------------------------------------------------------------------
Top == Len(cx)
Cur == cx[Top]
Goto(m, pc) == [m EXCEPT !.cx[Len(m.cx)].pc = pc]
Resume(m, h) ==
  [Check(m, Finished(m, m.wh[h].children[1])) EXCEPT
     !.wh[h] = [@ EXCEPT !.state = "RUNNING", !.children = <<>>,
                         !.unfinished = 0, !.resumeAddr = FALSE],
     !.cx[Len(m.cx)] = [@ EXCEPT !.pc = "run", !.running = h]]
BackToLoop(m) == [m EXCEPT !.cx[Len(m.cx)] = [@ EXCEPT !.pc = "loop", !.running = 0]]

Pc == IF cx = <<>> THEN "main" ELSE Cur.pc
At(pc) == ~unwinding /\ Pc = pc
PhpRuns == ~unwinding /\ Pc \in {"main", "run"} \cup Hooks
Unfinished == {h \in DOMAIN wh : ~Finished(M, h)}
Fresh(kind) == PhpRuns /\ kind \in Kinds /\ Len(wh) < MaxHandles
New == Len(wh) + 1
Created(w) == [M EXCEPT !.wh = Append(@, w)]

io == <<sleepers, due, arrived, received>>
Rest == UNCHANGED <<io, unwinding>>

(* PHP code creates a handle.  A new sleep wakes up after those that are   *)
(* due.                                                                    *)
CreateSleep ==
  /\ Fresh("Sleep")
  /\ LET m == Created([NewHandle("Sleep", "WAITING", Top) EXCEPT !.refs = 1])
     IN Set(IF Top > 0 THEN RegisterToContext(m, New) ELSE m)
  /\ \E i \in (due + 1)..(Len(sleepers) + 1) :
       sleepers' = InsertAt(sleepers, i, New)
  /\ UNCHANGED <<due, arrived, received, unwinding>>

CreateExternalThreadEvent ==
  /\ Fresh("ExternalThreadEvent")
  /\ LET m == Created([NewHandle("ExternalThreadEvent", "WAITING", Top)
                         EXCEPT !.refs = 1])
     IN Set(IF Top > 0 THEN RegisterToContext(m, New) ELSE m)
  /\ Rest

CreateReschedule ==
  /\ Fresh("Reschedule")
  /\ \E q \in BOOLEAN, p \in Priorities :
       LET m == Created([NewHandle("Reschedule", "SCHEDULED", Top)
                           EXCEPT !.default = q, !.priority = p])
       IN Set(IF Top > 0 THEN ScheduleInContext(m, New) ELSE m)
  /\ Rest

(* An eagerly executed async function or generator blocks on c; a          *)
(* condition is created with the child that has to notify it.              *)
CreateBlocked(kind, c) ==
  /\ Fresh(kind)
  /\ \E addr \in IF kind = "AsyncFunction" THEN BOOLEAN ELSE {FALSE} :
       Set(AddParent(
         Created([NewHandle(kind, "BLOCKED", wh[c].ctx) EXCEPT
                    !.children = <<c>>, !.unfinished = 1,
                    !.resumeAddr = addr, !.refs = 1]), c, <<New, 1>>))
  /\ Rest

(* children[n] is the dependency that was given first.                     *)
CreateAwaitAll(n) ==
  /\ Fresh("AwaitAll")
  /\ \E kids \in [1..n -> Unfinished] :
       LET ctxs == {wh[kids[i]].ctx : i \in 1..n}
       IN Set(FoldLeft(LAMBDA m, i : AddParent(m, kids[i], <<New, i>>),
                Created([NewHandle("AwaitAll", "BLOCKED", Min(ctxs)) EXCEPT
                           !.children = kids, !.unfinished = n, !.refs = 1]),
                [i \in 1..n |-> n + 1 - i]))
  /\ Rest

(* ConditionWaitHandle::succeed and fail.                                  *)
Notify(h, state) ==
  /\ PhpRuns /\ wh[h].kind = "Condition"
  /\ Set(Finish(M, h, state))
  /\ Rest

Cancelled(h) ==
  Finish(IF wh[h].ctx > 0 THEN UnregisterFromContext(M, h) ELSE M, h, "FAILED")

CancelSleep(h) ==
  /\ PhpRuns /\ wh[h].kind = "Sleep"
  /\ Set(Cancelled(h))
  /\ Rest

(* Slip: an event that has finished is cancelled all the same.             *)
CancelExternalThreadEvent_Finished(h) ==
  /\ PhpRuns /\ wh[h].kind = "ExternalThreadEvent"
  /\ Set(DecRef(Cancelled(h), h))
  /\ Rest

(* An event that has finished can no longer be cancelled.                  *)
CancelExternalThreadEvent(h) ==
  /\ PhpRuns /\ wh[h].kind = "ExternalThreadEvent"
  /\ h \notin ToSet(arrived \o received)
  /\ Set(DecRef(Cancelled(h), h))
  /\ Rest

(* join: a new context, h imported into it.  A running dependency makes    *)
(* enter_context throw, and the new context is left at once.               *)
Join(h) ==
  /\ PhpRuns /\ Top < MaxDepth
  /\ LET S == ImportSet(M, h, Top + 1)
     IN /\ ~HasRunning(M, S)
        /\ \E m \in EnterContext([M EXCEPT !.cx = Append(@, NewContext(h))], S, Top + 1) :
             Set(m)
  /\ Rest

-----------------------------------------------------------------------------
(* The running async function r of the current context.                    *)
Running == At("run")

(* Compiled code hands control to the newest fast resumable function, if   *)
(* it is still ready; otherwise, and from the interpreter, the scheduler's *)
(* loop goes on.                                                           *)
SwitchCtrl(m) ==
  LET f == m.cx[Len(m.cx)].fast
      h == f[Len(f)]
  IN {BackToLoop(m)} \cup
     IF f # <<>> /\ m.wh[h].state = "READY" /\ IsFastResumable(m, h)
     THEN {Resume([Check(m, m.wh[h].ctx = Len(m.cx)) EXCEPT
                     !.cx[Len(m.cx)].fast = Front(@)], h)}
     ELSE {}

(* Await an unfinished handle c.  The import is kept when the cycle check  *)
(* that follows it throws.  The hook on leaving the function may throw a   *)
(* C++ exception after its state has changed: the handle stays blocked.    *)
Suspended(m, r, c, addr) ==
  AddParent([m EXCEPT !.wh[r] = [@ EXCEPT !.state = "BLOCKED", !.children = <<c>>,
                                          !.unfinished = 1, !.resumeAddr = addr]],
            c, <<r, 1>>)

Await(c) ==
  /\ Running
  /\ LET r == Cur.running
         k == wh[r].ctx
         S == ImportSet(M, c, k)
     IN /\ ~HasRunning(M, S)
        /\ \E m \in EnterContext(M, S, k) :
             IF IsDescendantOf(m, r, c) THEN Set(m) /\ unwinding' = FALSE
             ELSE \E addr \in IF wh[r].kind = "AsyncFunction" THEN BOOLEAN ELSE {FALSE} :
                    LET n == Suspended(m, r, c, addr)
                    IN \/ unwinding' = FALSE /\ \E next \in SwitchCtrl(n) : Set(next)
                       \/ unwinding' = TRUE /\ Set(BackToLoop(n))
  /\ UNCHANGED io

(* The function returns or throws a PHP exception.                         *)
Return(state) ==
  /\ Running
  /\ LET m == DecRef(Finish(M, Cur.running, state), Cur.running)
     IN \E n \in IF state = "SUCCEEDED" THEN SwitchCtrl(m) ELSE {BackToLoop(m)} :
          Set(n)
  /\ Rest

(* asyncFuncMaybeRetToAsyncFunc: compiled code resumes the first parent    *)
(* directly, after unblocking the others.                                  *)
ReturnToParent ==
  /\ Running
  /\ LET r == Cur.running
         chain == wh[r].parents
         p == chain[1][1]
         m == [M EXCEPT !.wh[r].parents = Tail(chain)]
     IN /\ wh[r].kind = "AsyncFunction" /\ chain # <<>>
        /\ wh[p].kind = "AsyncFunction" /\ wh[p].resumeAddr
        /\ wh[p].ctx = wh[r].ctx
        /\ Set(Resume(DecRef(Finish(m, r, "SUCCEEDED"), r), p))
  /\ Rest

(* A C++ exception (a timeout, a fatal error) leaves the running function  *)
(* or the callback: failCpp, then each enclosing context is left and the   *)
(* function that joined there fails as well.                               *)
FailCpp(m) ==
  LET c == m.cx[Len(m.cx)]
  IN IF m.cx = <<>> THEN m
     ELSE CASE c.pc = "run" -> DecRef(Finish(m, c.running, "FAILED"), c.running)
            [] c.pc = "processed" -> DecRef(m, c.running)
            [] OTHER -> m

Throw ==
  /\ PhpRuns /\ cx # <<>>
  /\ Set(FailCpp(M))
  /\ unwinding' = TRUE
  /\ UNCHANGED io

Unwind ==
  /\ unwinding
  /\ Set(FailCpp(ExitContext(M, Top)))
  /\ unwinding' = (Top > 1)
  /\ UNCHANGED io

-----------------------------------------------------------------------------
(* runUntil: the loop of the current context, in the order of its tests.   *)
TargetPending == At("loop") /\ ~Finished(M, Cur.target)
NothingRunnable == Cur.runnable = <<>> /\ Cur.fast = <<>>
NoDefault == \A p \in Priorities : Cur.prioDefault[p] = <<>>
NoPending(kind) == Cur.waits[kind] = <<>>

(* The joined handle has finished: join returns.                           *)
RunUntilReturns ==
  /\ At("loop") /\ Finished(M, Cur.target)
  /\ Set(ExitContext(M, Top))
  /\ Rest

ResumeOrDrop(m, h) ==
  Set(IF wh[h].state = "READY" THEN Resume(m, h) ELSE DecRef(m, h))

RunRunnable ==
  /\ TargetPending /\ Cur.runnable # <<>>
  /\ ResumeOrDrop([M EXCEPT !.cx[Top].runnable = Front(@)], Last(Cur.runnable))
  /\ Rest

RunFastRunnable ==
  /\ TargetPending /\ Cur.runnable = <<>> /\ Cur.fast # <<>>
  /\ ResumeOrDrop([M EXCEPT !.cx[Top].fast = Front(@)], Last(Cur.fast))
  /\ Rest

(* processSleepEvents, entered from the loop or after a wait for I/O: each *)
(* sleep that is due is processed, its callback runs, and the front of the *)
(* heap is removed.  A sleep that has finished before is left as it is.    *)
InSleepLoop == At("sleep") \/ (TargetPending /\ NothingRunnable)

ProcessSleep ==
  /\ InSleepLoop /\ due > 0
  /\ LET h == Head(sleepers)
         m == IF wh[h].ctx > 0 THEN UnregisterFromContext(M, h) ELSE M
     IN IF wh[h].state = "FAILED"
        THEN /\ Set(DecRef(Goto(M, "sleep"), h))
             /\ sleepers' = Tail(sleepers) /\ due' = due - 1
        ELSE /\ Set([Goto(IF wh[h].state = "WAITING"
                            THEN Finish(m, h, "SUCCEEDED") ELSE M, "slept")
                       EXCEPT !.cx[Top].running = h])
             /\ UNCHANGED <<sleepers, due>>
  /\ UNCHANGED <<arrived, received, unwinding>>

PopSleep ==
  /\ At("slept")
  /\ Set([DecRef(Goto(M, "sleep"), Cur.running) EXCEPT !.cx[Top].running = 0])
  /\ sleepers' = Tail(sleepers) /\ due' = due - 1
  /\ UNCHANGED <<arrived, received, unwinding>>

SleepsDone ==
  /\ At("sleep") /\ due = 0
  /\ Set(Goto(M, "loop"))
  /\ Rest

(* Finished events are received and processed one by one.  Unserializing   *)
(* the result may throw a PHP exception, or a C++ exception that leaves    *)
(* the events received with it for a later loop.                           *)
ReceiveEvents ==
  /\ TargetPending /\ NothingRunnable /\ due = 0
  /\ arrived \o received # <<>>
  /\ IF received = <<>> THEN received' = arrived /\ arrived' = <<>>
                        ELSE UNCHANGED <<arrived, received>>
  /\ Set(Goto(M, "process"))
  /\ UNCHANGED <<sleepers, due, unwinding>>

ProcessEvent(state, throws) ==
  /\ At("process")
  /\ LET h == Head(received)
         a == Check(M, wh[h].state = "WAITING")
         m == IF wh[h].ctx > 0 THEN UnregisterFromContext(a, h) ELSE a
         n == Finish(m, h, state)
     IN Set(IF throws THEN DecRef(n, h)
            ELSE [Goto(n, "processed") EXCEPT !.cx[Top].running = h])
  /\ received' = Tail(received)
  /\ unwinding' = throws
  /\ UNCHANGED <<sleepers, due, arrived>>

EventProcessed ==
  /\ At("processed")
  /\ Set([DecRef(Goto(M, IF received = <<>> THEN "loop" ELSE "process"), Cur.running)
            EXCEPT !.cx[Top].running = 0])
  /\ Rest

(* runSingle: the oldest rescheduled handle of the least priority.         *)
RunSingle(queue) ==
  \E p \in Priorities :
    LET h == Head(Cur[queue][p])
        m == [M EXCEPT !.cx[Top][queue][p] = Tail(@)] IN
    /\ Cur[queue][p] # <<>>
    /\ \A p2 \in Priorities : Cur[queue][p2] # <<>> => p <= p2
    /\ Set(DecRef(IF wh[h].state = "SCHEDULED" THEN Finish(m, h, "SUCCEEDED") ELSE m, h))

NothingReceived ==
  TargetPending /\ NothingRunnable /\ due = 0 /\ arrived \o received = <<>>

RunDefault ==
  /\ NothingReceived
  /\ RunSingle("prioDefault")
  /\ Rest

(* Wait for I/O: for events until the next sleep is due or, when there are *)
(* only sleeps, for the next of them.  After the callback onIOWaitEnter    *)
(* the wait is skipped if the queues are no longer empty.                  *)
EnterIOWait ==
  /\ NothingReceived /\ NoDefault
  /\ \/ ~NoPending("ExternalThreadEvent")
     \/ ~NoPending("Sleep")
  /\ Set([Goto(M, "enterIO") EXCEPT
            !.cx[Top].io = IF NoPending("ExternalThreadEvent")
                             THEN "Sleep" ELSE "ExternalThreadEvent"])
  /\ Rest

(* Slip: the queues are not looked at again after the callback.            *)
CheckIOWait_NoRecheck ==
  /\ At("enterIO")
  /\ Set(Goto(M, "waitIO"))
  /\ Rest

CheckIOWait ==
  /\ At("enterIO")
  /\ LET wait == /\ NothingRunnable /\ NoDefault /\ ~NoPending(Cur.io)
                 /\ IF Cur.io = "Sleep" THEN NoPending("ExternalThreadEvent")
                                        ELSE received = <<>>
     IN Set(Goto(M, IF wait THEN "waitIO" ELSE "exitIO"))
  /\ Rest

EndIOWait ==
  /\ At("waitIO")
  /\ \/ due > 0
     \/ Cur.io = "ExternalThreadEvent" /\ arrived # <<>>
  /\ IF Cur.io = "ExternalThreadEvent"
       THEN received' = arrived /\ arrived' = <<>>
       ELSE UNCHANGED <<arrived, received>>
  /\ Set(Goto(M, "exitIO"))
  /\ UNCHANGED <<sleepers, due, unwinding>>

(* The request has timed out: onIOWaitExit throws.                         *)
TimeOut ==
  /\ At("waitIO") \/ At("exitIO")
  /\ unwinding' = TRUE
  /\ UNCHANGED <<wh, cx, io, ok>>

ExitIOWait ==
  /\ At("exitIO")
  /\ Set(Goto(M, IF Cur.io = "ExternalThreadEvent" /\ received # <<>>
                   THEN "process" ELSE "sleep"))
  /\ Rest

RunNoPendingIO ==
  /\ NothingReceived /\ NoDefault /\ \A k \in WaitKinds : NoPending(k)
  /\ RunSingle("prioNoPendingIO")
  /\ Rest

-----------------------------------------------------------------------------
(* An external thread finishes an event; a sleep reaches its wake time.    *)
FinishEvent(h) ==
  /\ wh[h].kind = "ExternalThreadEvent" /\ h \notin ToSet(arrived \o received)
  /\ arrived' = <<h>> \o arrived
  /\ UNCHANGED <<wh, cx, sleepers, due, received, unwinding, ok>>

TimePasses ==
  /\ due < Len(sleepers)
  /\ due' = due + 1
  /\ UNCHANGED <<wh, cx, sleepers, arrived, received, unwinding, ok>>

Init ==
  /\ wh = <<>> /\ cx = <<>> /\ ok = TRUE
  /\ sleepers = <<>> /\ due = 0 /\ arrived = <<>> /\ received = <<>>
  /\ unwinding = FALSE

Php ==
  \/ CreateSleep \/ CreateExternalThreadEvent \/ CreateReschedule
  \/ \E n \in 1..MaxKids : CreateAwaitAll(n)
  \/ \E h \in Unfinished :
       \/ \E kind \in {"AsyncFunction", "AsyncGenerator", "Condition"} :
            CreateBlocked(kind, h)
       \/ \E state \in {"SUCCEEDED", "FAILED"} : Notify(h, state)
       \/ CancelSleep(h) \/ CancelExternalThreadEvent(h)
       \/ Join(h) \/ Await(h)
  \/ Throw

EndOfFunction ==
  ReturnToParent \/ \E state \in {"SUCCEEDED", "FAILED"} : Return(state)

Loop ==
  \/ RunUntilReturns \/ RunRunnable \/ RunFastRunnable
  \/ ProcessSleep \/ PopSleep \/ SleepsDone
  \/ ReceiveEvents \/ EventProcessed
  \/ \E state \in {"SUCCEEDED", "FAILED"} : ProcessEvent(state, FALSE)
  \/ RunDefault \/ RunNoPendingIO
  \/ EnterIOWait \/ CheckIOWait \/ EndIOWait \/ ExitIOWait
  \/ Unwind

Exceptions == TimeOut \/ ProcessEvent("FAILED", TRUE)

Environment == TimePasses \/ \E h \in Unfinished : FinishEvent(h)

Next == Php \/ EndOfFunction \/ Loop \/ Exceptions \/ Environment

Spec == Init /\ [][Next]_vars

(* The loop has nothing to run: its fatal error "Invariant violation:      *)
(* queues are empty, but wait handle did not finish".                      *)
Stuck ==
  /\ NothingReceived /\ NoDefault /\ \A k \in WaitKinds : NoPending(k)
  /\ \A p \in Priorities : Cur.prioNoPendingIO[p] = <<>>

(* Weak fairness, its enabling conditions written out.  The request's      *)
(* thread goes on, so that a resumed function ends after finitely many     *)
(* operations; events finish and time passes.                              *)
CanWake == due > 0 \/ (Cur.io = "ExternalThreadEvent" /\ arrived # <<>>)
ThreadCanStep == cx # <<>> /\ (At("waitIO") => CanWake) /\ ~Stuck
Pending == {h \in Unfinished : wh[h].kind = "ExternalThreadEvent"
                                /\ h \notin ToSet(arrived \o received)}

FairSpec ==
  /\ Spec
  /\ []<>~ThreadCanStep \/ []<><<EndOfFunction \/ Loop>>_vars
  /\ []<>(Pending = {} /\ due = Len(sleepers)) \/ []<><<Environment>>_vars

-----------------------------------------------------------------------------
Handles == DOMAIN wh
Count(s, e) == Cardinality({i \in DOMAIN s : s[i] = e})

(* No assertion of the scheduler fails: AwaitAllWaitHandle::onUnblocked    *)
(* finds a blocked handle, removeFromChain the node to remove, exitContext *)
(* handles of the context being left, resume a finished child,             *)
(* maybePopFast a handle of the current context, unregisterFrom an index   *)
(* of the vector, process() of an event a handle that waits.  The assert   *)
(* in process() of a sleep is SleepsAreProcessedOnce.                      *)
AssertsHold == ok

(* runUntil never reaches its fatal error: the joined handle is unfinished *)
(* only while a queue of the context leads to it.                          *)
NeverStuck == ~Stuck

(* What a context has to run is found in its queues: an unfinished handle  *)
(* of context k is queued or registered there if it is ready, scheduled or *)
(* waiting, runs there if it is running, and depends only on handles of    *)
(* context k or an inner one if it is blocked.                             *)
WellPlaced ==
  \A h \in Handles :
    LET w == wh[h]
        c == cx[w.ctx]
        queues == IF w.default THEN c.prioDefault ELSE c.prioNoPendingIO
    IN w.ctx > 0 =>
         CASE w.state = "BLOCKED" ->
                \A i \in 1..w.unfinished :
                  LET d == w.children[i]
                  IN Finished(M, d) \/ wh[d].ctx >= w.ctx
           [] w.state = "READY" -> h \in ToSet(c.runnable \o c.fast)
           [] w.state = "RUNNING" -> c.pc = "run" /\ c.running = h
           [] w.state = "SCHEDULED" -> h \in ToSet(queues[w.priority])
           [] w.state = "WAITING" ->
                /\ w.vecIdx \in DOMAIN c.waits[w.kind]
                /\ c.waits[w.kind][w.vecIdx] = h
           [] OTHER -> FALSE

(* A blocked handle will be woken, once: it is listed once in the parent   *)
(* chain of every unfinished child it waits for, and a parent chain lists  *)
(* nothing else but conditions that were notified early; and cycles of     *)
(* blocked handles are refused when they would be closed, by await or by   *)
(* AwaitAllWaitHandle::onUnblocked.                                        *)
WillBeWoken ==
  LET blocked == {h \in Handles : wh[h].state = "BLOCKED"}
  IN /\ \A h \in blocked : \A i \in 1..wh[h].unfinished :
          LET c == wh[h].children[i]
          IN Finished(M, c) \/ Count(wh[c].parents, <<h, i>>) = 1
     /\ \A c \in Handles : \A j \in DOMAIN wh[c].parents :
          LET p == wh[c].parents[j][1]
              i == wh[c].parents[j][2]
          IN \/ p \in blocked /\ i <= wh[p].unfinished /\ wh[p].children[i] = c
             \/ wh[p].kind = "Condition" /\ Finished(M, p)
     /\ \A S \in SUBSET blocked \ {{}} : \E h \in S : GetChild(M, h) \notin S

(* The references the scheduler takes are those it holds: one for each     *)
(* entry of a queue, for running, for being listed by an unfinished child, *)
(* for being in the heap of sleeps or for an event that is pending.        *)
RefsAreExact ==
  \A h \in Handles :
    LET w == wh[h]
        entries == MapThenSumSet(LAMBDA k :
                     Count(cx[k].runnable \o cx[k].fast
                             \o ByPriority(cx[k].prioDefault)
                             \o ByPriority(cx[k].prioNoPendingIO), h), DOMAIN cx)
        listed == \E c \in Handles : \E j \in DOMAIN wh[c].parents :
                    wh[c].parents[j][1] = h
        held == \/ listed
                \/ w.state = "RUNNING"
                \/ w.kind = "Sleep" /\ h \in ToSet(sleepers)
                \/ w.kind = "ExternalThreadEvent" /\ w.state = "WAITING"
                \/ \E k \in DOMAIN cx : /\ cx[k].pc = "processed" /\ cx[k].running = h
                                        /\ ~(unwinding /\ k = Top)
    IN w.refs = entries + (IF held THEN 1 ELSE 0)

(* SleepWaitHandle::process() asserts that the sleep it is called for      *)
(* waits: processSleepEvents, which passes over those that were cancelled, *)
(* calls it once.  A join in the callback onSleepSuccess finds the same    *)
(* sleep at the front of the heap again.                                   *)
SleepsAreProcessedOnce ==
  InSleepLoop /\ due > 0 => wh[Head(sleepers)].state \in {"WAITING", "FAILED"}

(* Every join returns, by its handle finishing or by an exception.         *)
JoinReturns == \A k \in 1..MaxDepth : (Len(cx) >= k) ~> (Len(cx) < k)

=============================================================================
