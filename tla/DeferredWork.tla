---------------------------- MODULE DeferredWork ----------------------------
(***************************************************************************)
(* What the treadmill promises (hphp/runtime/vm/treadmill.h): it defers    *)
(* work "until all currently outstanding requests have finished".  No      *)
(* counters and no clock: each item of work remembers the requests that    *)
(* were outstanding when it was handed over, and becomes due only when a   *)
(* request finishes and none of the remembered ones is left.               *)
(***************************************************************************)
CONSTANTS Threads, Objects

VARIABLES
  inFlight,  \* threads that are in a request
  waits,     \* for each queued item, the requests it still waits for
  state      \* "live", "queued", "due", "done" or "discarded"

dvars == <<inFlight, waits, state>>

DeferredInit ==
  /\ inFlight = {}
  /\ waits = [o \in Objects |-> {}]
  /\ state = [o \in Objects |-> "live"]

\* A request starts; work handed over earlier does not wait for it.
StartRequest(t) ==
  /\ t \notin inFlight
  /\ inFlight' = inFlight \cup {t}
  /\ UNCHANGED <<waits, state>>

\* Work is handed over: it waits for every request outstanding now.
Enqueue(o) ==
  /\ state[o] = "live"
  /\ state' = [state EXCEPT ![o] = "queued"]
  /\ waits' = [waits EXCEPT ![o] = inFlight]
  /\ UNCHANGED inFlight

\* A request finishes, and some of the work that waits for nobody is now due.
FinishRequest(t) ==
  /\ t \in inFlight
  /\ inFlight' = inFlight \ {t}
  /\ waits' = [o \in Objects |-> waits[o] \ {t}]
  /\ \E due \in SUBSET {o \in Objects : state[o] = "queued" /\ waits[o] \subseteq {t}} :
       state' = [o \in Objects |-> IF o \in due THEN "due" ELSE state[o]]

Run(o) ==
  /\ state[o] = "due"
  /\ state' = [state EXCEPT ![o] = "done"]
  /\ UNCHANGED <<inFlight, waits>>

\* At process exit work that has not become due is thrown away.
Discard ==
  /\ inFlight = {}
  /\ \E gone \in SUBSET {o \in Objects : state[o] \in {"live", "queued"}} :
       state' = [o \in Objects |-> IF o \in gone THEN "discarded" ELSE state[o]]
  /\ UNCHANGED <<inFlight, waits>>

DeferredNext ==
  \/ \E t \in Threads : StartRequest(t) \/ FinishRequest(t)
  \/ \E o \in Objects : Enqueue(o) \/ Run(o)
  \/ Discard

DeferredSpec == DeferredInit /\ [][DeferredNext]_dvars
=============================================================================
