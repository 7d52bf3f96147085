--------------------------- MODULE RuntimeService ---------------------------
(***************************************************************************)
(* RuntimeService (agent/runtime_service.py): one in-memory queue and one  *)
(* worker thread in front of the agent loop.  A producer puts a work item  *)
(* on the queue under the service's lock, if the thread is alive; the      *)
(* thread takes items in order and calls the handler, whose exceptions it  *)
(* counts and survives.  stop() sets an event, puts a sentinel on the      *)
(* queue and waits a bounded time for the thread.                          *)
(*                                                                         *)
(* The counters and timestamps of RuntimeServiceState are left out.        *)
(***************************************************************************)
EXTENDS Integers, Sequences

CONSTANTS
  Items,        \* what a work item stands for: a perception record
  NoItem,
  Sentinel,     \* _QUEUE_STOP
  MaxRestarts   \* bound on the calls of stop()

ASSUME RuntimeAssumption ==
  /\ NoItem \notin Items
  /\ Sentinel \notin Items \cup {NoItem}
  /\ MaxRestarts \in Nat

VARIABLES
  queue,      \* _queue
  stopEvent,  \* _stop_event
  rpc,        \* phase of the worker thread
  work,       \* the item it handles
  cpc,        \* phase of a caller of stop()
  stops,      \* calls of stop() so far
  accepted,   \* history: items ever put on the queue
  handled     \* history: items whose handler has returned or raised

runtimeVars == <<queue, stopEvent, rpc, work, cpc, stops, accepted, handled>>

RuntimePhases == {"none", "loop", "get", "work", "leaving", "exited"}

\* _worker_is_alive: also while the thread is on its way out.
Alive == rpc \in {"loop", "get", "work", "leaving"}

RuntimeInit ==
  /\ queue = <<>>
  /\ stopEvent = FALSE
  /\ rpc = "loop"
  /\ work = NoItem
  /\ cpc = "idle"
  /\ stops = 0
  /\ accepted = {}
  /\ handled = {}

\* The queue and the thread die with the process; bootstrap starts a new one.
RuntimeRestart ==
  /\ queue' = <<>>
  /\ stopEvent' = FALSE
  /\ rpc' = "loop"
  /\ work' = NoItem
  /\ cpc' = "idle"
  /\ UNCHANGED <<stops, accepted, handled>>

----------------------------------------------------------------------------
\* Producers

EnqueuePerception(i) ==
  /\ Alive
  /\ queue' = Append(queue, i)
  /\ accepted' = accepted \cup {i}
  /\ UNCHANGED <<stopEvent, rpc, work, cpc, stops, handled>>

----------------------------------------------------------------------------
\* The worker thread

KeepRunning ==
  /\ rpc = "loop"
  /\ rpc' = IF stopEvent THEN "leaving" ELSE "get"
  /\ UNCHANGED <<queue, stopEvent, work, cpc, stops, accepted, handled>>

\* Queue.get returns the head of the queue ...
GetWork ==
  /\ rpc = "get"
  /\ queue # <<>>
  /\ queue' = Tail(queue)
  /\ IF Head(queue) = Sentinel
     THEN rpc' = "leaving" /\ UNCHANGED work
     ELSE rpc' = "work" /\ work' = Head(queue)
  /\ UNCHANGED <<stopEvent, cpc, stops, accepted, handled>>

\* Mutant: an empty poll ends the thread.
TimeoutLeaves ==
  /\ rpc = "get"
  /\ queue = <<>>
  /\ rpc' = "leaving"
  /\ UNCHANGED <<queue, stopEvent, work, cpc, stops, accepted, handled>>

\* ... or times out.
GetTimesOut ==
  /\ rpc = "get"
  /\ queue = <<>>
  /\ rpc' = "loop"
  /\ UNCHANGED <<queue, stopEvent, work, cpc, stops, accepted, handled>>

\* The handler returns or raises; both end in task_done.
HandlerDone ==
  /\ rpc = "work"
  /\ rpc' = "loop"
  /\ work' = NoItem
  /\ handled' = handled \cup {work}
  /\ UNCHANGED <<queue, stopEvent, cpc, stops, accepted>>

WorkerExits ==
  /\ rpc = "leaving"
  /\ rpc' = "exited"
  /\ UNCHANGED <<queue, stopEvent, work, cpc, stops, accepted, handled>>

RuntimeThread ==
  KeepRunning \/ GetWork \/ GetTimesOut \/ HandlerDone \/ WorkerExits

----------------------------------------------------------------------------
\* start and stop

\* start() on a live thread, one that is about to leave included, changes
\* nothing.
StartRuntime ==
  /\ cpc = "idle"
  /\ ~Alive
  /\ stopEvent' = FALSE
  /\ rpc' = "loop"
  /\ UNCHANGED <<queue, work, cpc, stops, accepted, handled>>

\* _mark_stopping found a live thread; then the event, the sentinel, and the
\* join, which ends when the thread does or after its timeout.
BeginStop ==
  /\ cpc = "idle"
  /\ Alive
  /\ stops < MaxRestarts
  /\ cpc' = "set event"
  /\ stops' = stops + 1
  /\ UNCHANGED <<queue, stopEvent, rpc, work, accepted, handled>>

SetStopEvent ==
  /\ cpc = "set event"
  /\ cpc' = "put sentinel"
  /\ stopEvent' = TRUE
  /\ UNCHANGED <<queue, rpc, work, stops, accepted, handled>>

PutSentinel ==
  /\ cpc = "put sentinel"
  /\ cpc' = "join"
  /\ queue' = Append(queue, Sentinel)
  /\ UNCHANGED <<stopEvent, rpc, work, stops, accepted, handled>>

EndStop ==
  /\ cpc = "join"
  /\ cpc' = "idle"
  /\ UNCHANGED <<queue, stopEvent, rpc, work, stops, accepted, handled>>

StopRuntime == BeginStop \/ SetStopEvent \/ PutSentinel \/ EndStop

----------------------------------------------------------------------------
RuntimeTypeOK ==
  /\ accepted \subseteq Items
  /\ queue \in Seq(accepted \cup {Sentinel})
  /\ stopEvent \in BOOLEAN
  /\ rpc \in RuntimePhases
  /\ work \in accepted \cup {NoItem}
  /\ (work # NoItem) <=> (rpc = "work")
  /\ cpc \in {"idle", "set event", "put sentinel", "join"}
  /\ stops \in 0..MaxRestarts
  /\ handled \subseteq accepted

\* What waits in the queue, behind what is being handled.
InLine == IF rpc = "work" THEN <<work>> \o queue ELSE queue
=============================================================================
