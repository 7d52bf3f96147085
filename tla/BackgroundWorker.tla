-------------------------- MODULE BackgroundWorker --------------------------
(***************************************************************************)
(* BackgroundTaskWorker (agent/background_task_worker.py): one thread that *)
(* takes task identifiers from a queue and runs each task, a map of the    *)
(* tasks it already holds, a periodic scan of the task files, and the      *)
(* start / stop operations of the thread.                                  *)
(*                                                                         *)
(* The phases of the thread (wpc) are the places between two accesses to a *)
(* file or to the queue.  What the subagent does with the model is opaque: *)
(* the phase "running" ends with a result or an exception.                 *)
(***************************************************************************)
EXTENDS TaskStore

CONSTANTS
  Stop,       \* the None sentinel that stop() puts on the queue
  MaxStops,   \* bound: calls of stop()
  Faults      \* may file accesses of the services raise?

ASSUME WorkerAssumption ==
  /\ Stop \notin TaskIds
  /\ Stop # None
  /\ MaxStops \in Nat
  /\ Faults \in BOOLEAN

VARIABLES
  queue,      \* _queue
  queuedBy,   \* keys of _queued_by_task_id
  stopEvent,  \* _stop_event
  wpc,        \* phase of the worker thread; "dead": no live thread
  item,       \* the work item being processed
  outcome,    \* status of the execution result of the current item
  scanned,    \* queued tasks the current ready scan has listed, not yet enqueued
  ctl,        \* progress of stop()
  stops       \* calls of stop() so far

workerVars == <<queue, queuedBy, stopEvent, wpc, item, outcome, scanned>>
ctlVars == <<ctl, stops>>

\* Phases inside the try block of _process_work_item.
TryPhases == {"claim", "claimed", "writingRunning", "running", "apply",
              "writingOutcome", "feedback", "writingFeedback", "feedbackSync"}
\* Phases of _mark_task_failed, which nothing guards.
FailPhases == {"failing", "writingFailed", "failedSync"}
Busy == TryPhases \cup FailPhases \cup {"finish"}
WorkerPhases == {"dead", "loop", "scan", "get"} \cup Busy

Outcomes == {"completed", "blocked", "failed"}

Alive == wpc # "dead"

WorkerInit ==
  /\ queue = << >>
  /\ queuedBy = {}
  /\ stopEvent = FALSE
  /\ wpc = "loop"        \* _bootstrap_background_services has called start()
  /\ item = None
  /\ outcome = None
  /\ scanned = {}
  /\ ctl = "idle"
  /\ stops = 0

\* Mutant: the map is not consulted.
EnqueueTwice(t) ==
  /\ queue' = Append(queue, t)
  /\ queuedBy' = queuedBy \cup {t}

(***************************************************************************)
(* _enqueue_existing_task, under the lock: a task that is already held is  *)
(* not put on the queue again.                                             *)
(***************************************************************************)
Enqueue(t) ==
  /\ queue' = IF t \in queuedBy THEN queue ELSE Append(queue, t)
  /\ queuedBy' = queuedBy \cup {t}

-----------------------------------------------------------------------------
(* The loop of _run_worker.                                                *)

LeaveOnStop ==
  /\ wpc = "loop"
  /\ stopEvent
  /\ wpc' = "dead"
  /\ UNCHANGED <<taskVars, queue, queuedBy, stopEvent, item, outcome, scanned>>

\* Mutant: the scan looks for tasks that nobody has released yet.
StartScanScheduled ==
  /\ wpc = "loop"
  /\ ~stopEvent
  /\ scanned' = {t \in TaskIds : HasStatus(t, "scheduled")}
  /\ wpc' = "scan"
  /\ UNCHANGED <<taskVars, queue, queuedBy, stopEvent, item, outcome>>

\* The scan interval has passed: list the task files, keep the queued ones.
StartScan ==
  /\ wpc = "loop"
  /\ ~stopEvent
  /\ scanned' = {t \in TaskIds : HasStatus(t, "queued")}
  /\ wpc' = "scan"
  /\ UNCHANGED <<taskVars, queue, queuedBy, stopEvent, item, outcome>>

SkipScan ==
  /\ wpc = "loop"
  /\ ~stopEvent
  /\ wpc' = "get"
  /\ UNCHANGED <<taskVars, queue, queuedBy, stopEvent, item, outcome, scanned>>

ScanEnqueue(t) ==
  /\ wpc = "scan"
  /\ t \in scanned
  /\ Enqueue(t)
  /\ scanned' = scanned \ {t}
  /\ UNCHANGED <<taskVars, stopEvent, wpc, item, outcome>>

EndScan ==
  /\ wpc = "scan"
  /\ scanned = {}
  /\ wpc' = "get"
  /\ UNCHANGED <<taskVars, queue, queuedBy, stopEvent, item, outcome, scanned>>

\* An unreadable task file ends the scan; the thread goes on.
ScanRaises ==
  /\ Faults
  /\ wpc = "scan"
  /\ scanned' = {}
  /\ wpc' = "get"
  /\ UNCHANGED <<taskVars, queue, queuedBy, stopEvent, item, outcome>>

GetTimesOut ==
  /\ wpc = "get"
  /\ queue = << >>
  /\ wpc' = "loop"
  /\ UNCHANGED <<taskVars, queue, queuedBy, stopEvent, item, outcome, scanned>>

GetSentinel ==
  /\ wpc = "get"
  /\ queue # << >>
  /\ Head(queue) = Stop
  /\ queue' = Tail(queue)
  /\ wpc' = "dead"
  /\ UNCHANGED <<taskVars, queuedBy, stopEvent, item, outcome, scanned>>

GetItem ==
  /\ wpc = "get"
  /\ queue # << >>
  /\ Head(queue) # Stop
  /\ item' = Head(queue)
  /\ queue' = Tail(queue)
  /\ wpc' = "claim"
  /\ UNCHANGED <<taskVars, queuedBy, stopEvent, outcome, scanned>>

-----------------------------------------------------------------------------
(* _process_work_item: _mark_task_running, the handler,                    *)
(* _apply_execution_result and _send_completion_feedback.                  *)

KeepQueue == UNCHANGED <<queue, queuedBy, stopEvent, scanned>>

\* Mutants: a task of any status is run; a refused one is given a result.
ClaimAny ==
  /\ wpc = "claim"
  /\ wpc' = IF Exists(item) THEN "claimed" ELSE "failing"
  /\ KeepQueue
  /\ UNCHANGED <<taskVars, item, outcome>>

\* _mark_task_running reads the task and requires it to be queued ...
Claim ==
  /\ wpc = "claim"
  /\ wpc' = IF HasStatus(item, "queued") THEN "claimed" ELSE "failing"
  /\ KeepQueue
  /\ UNCHANGED <<taskVars, item, outcome>>

\* ... and then update_task reads it again and writes it as running.
BeginRunning ==
  /\ wpc = "claimed"
  /\ BeginUpdate(Worker, item, [tasks[item] EXCEPT !.status = "running"])
  /\ wpc' = "writingRunning"
  /\ KeepQueue
  /\ UNCHANGED <<item, outcome>>

WriteRunning ==
  /\ wpc = "writingRunning"
  /\ CommitRun(Worker)
  /\ wpc' = "running"
  /\ KeepQueue
  /\ UNCHANGED <<item, outcome>>

HandlerReturns(o) ==
  /\ wpc = "running"
  /\ outcome' = o
  /\ wpc' = "apply"
  /\ KeepQueue
  /\ UNCHANGED <<taskVars, item>>

BeginApply ==
  /\ wpc = "apply"
  /\ BeginUpdate(Worker, item, [tasks[item] EXCEPT !.status = outcome])
  /\ wpc' = "writingOutcome"
  /\ KeepQueue
  /\ UNCHANGED <<item, outcome>>

WriteOutcome ==
  /\ wpc = "writingOutcome"
  /\ CommitUpdate(Worker)
  /\ wpc' = "feedback"
  /\ KeepQueue
  /\ UNCHANGED <<item, outcome>>

\* Not completed, no gateway, or nothing to tell the user.
SkipFeedback ==
  /\ wpc = "feedback"
  /\ wpc' = "finish"
  /\ KeepQueue
  /\ UNCHANGED <<taskVars, item, outcome>>

\* Mutant: the status of the result is written along.
BeginFeedbackWithStatus ==
  /\ wpc = "feedback"
  /\ outcome = "completed"
  /\ BeginUpdate(Worker, item, [tasks[item] EXCEPT !.status = outcome])
  /\ wpc' = "writingFeedback"
  /\ KeepQueue
  /\ UNCHANGED <<item, outcome>>

\* _record_feedback_result changes next_action only, but rewrites the record.
BeginFeedback ==
  /\ wpc = "feedback"
  /\ outcome = "completed"
  /\ BeginUpdate(Worker, item, tasks[item])
  /\ wpc' = "writingFeedback"
  /\ KeepQueue
  /\ UNCHANGED <<item, outcome>>

WriteFeedback ==
  /\ wpc = "writingFeedback"
  /\ CommitUpdate(Worker)
  /\ wpc' = "feedbackSync"
  /\ KeepQueue
  /\ UNCHANGED <<item, outcome>>

FeedbackSynced ==
  /\ wpc = "feedbackSync"
  /\ wpc' = "finish"
  /\ KeepQueue
  /\ UNCHANGED <<taskVars, item, outcome>>

\* The handler raises.
HandlerRaises ==
  /\ wpc = "running"
  /\ wpc' = "failing"
  /\ KeepQueue
  /\ UNCHANGED <<taskVars, item, outcome>>

\* A file access or the control-state sync inside the try block raises.
ProcessRaises ==
  /\ Faults
  /\ wpc \in TryPhases
  /\ AbandonUpdate(Worker)
  /\ wpc' = "failing"
  /\ KeepQueue
  /\ UNCHANGED <<item, outcome>>

(* _mark_task_failed.                                                      *)

BeginFail ==
  /\ wpc = "failing"
  /\ BeginUpdate(Worker, item, [tasks[item] EXCEPT !.status = "failed"])
  /\ wpc' = "writingFailed"
  /\ KeepQueue
  /\ UNCHANGED <<item, outcome>>

WriteFailed ==
  /\ wpc = "writingFailed"
  /\ CommitUpdate(Worker)
  /\ wpc' = "failedSync"
  /\ KeepQueue
  /\ UNCHANGED <<item, outcome>>

FailSynced ==
  /\ wpc = "failedSync"
  /\ wpc' = "finish"
  /\ KeepQueue
  /\ UNCHANGED <<taskVars, item, outcome>>

\* An exception in the except branch leaves _run_worker: the thread ends.
FailRaises ==
  /\ Faults
  /\ wpc \in FailPhases
  /\ AbandonUpdate(Worker)
  /\ wpc' = "dead"
  /\ item' = None
  /\ outcome' = None
  /\ KeepQueue

\* _mark_work_finished / _mark_work_failed, under the lock.
Finish ==
  /\ wpc = "finish"
  /\ queuedBy' = queuedBy \ {item}
  /\ item' = None
  /\ outcome' = None
  /\ wpc' = "loop"
  /\ UNCHANGED <<taskVars, queue, stopEvent, scanned>>

WorkerThread ==
  \/ LeaveOnStop \/ StartScan \/ SkipScan \/ EndScan \/ ScanRaises
  \/ \E t \in TaskIds : ScanEnqueue(t)
  \/ GetTimesOut \/ GetSentinel \/ GetItem
  \/ Claim \/ BeginRunning \/ WriteRunning
  \/ \E o \in Outcomes : HandlerReturns(o)
  \/ HandlerRaises
  \/ BeginApply \/ WriteOutcome
  \/ SkipFeedback \/ BeginFeedback \/ WriteFeedback \/ FeedbackSynced
  \/ ProcessRaises
  \/ BeginFail \/ WriteFailed \/ FailSynced \/ FailRaises
  \/ Finish

-----------------------------------------------------------------------------
(* start() and stop(), called by one controlling thread.                   *)

\* start() when the thread is not alive; when it is, start() changes nothing.
StartWorker ==
  /\ ctl = "idle"
  /\ ~Alive
  /\ stopEvent' = FALSE
  /\ wpc' = "loop"
  /\ UNCHANGED <<taskVars, queue, queuedBy, item, outcome, scanned, ctlVars>>

\* _mark_stopping finds the thread alive.
BeginStop ==
  /\ ctl = "idle"
  /\ Alive
  /\ stops < MaxStops
  /\ stops' = stops + 1
  /\ ctl' = "setEvent"
  /\ UNCHANGED <<taskVars, workerVars>>

SetStopEvent ==
  /\ ctl = "setEvent"
  /\ stopEvent' = TRUE
  /\ ctl' = "putSentinel"
  /\ UNCHANGED <<taskVars, queue, queuedBy, wpc, item, outcome, scanned, stops>>

PutSentinel ==
  /\ ctl = "putSentinel"
  /\ queue' = Append(queue, Stop)
  /\ ctl' = "join"
  /\ UNCHANGED <<taskVars, queuedBy, stopEvent, wpc, item, outcome, scanned, stops>>

\* join(timeout): the thread has ended, or two seconds have passed.
EndStop ==
  /\ ctl = "join"
  /\ ctl' = "idle"
  /\ UNCHANGED <<taskVars, workerVars, stops>>

WorkerControl ==
  StartWorker \/ BeginStop \/ SetStopEvent \/ PutSentinel \/ EndStop

WorkerTypeOK ==
  /\ queue \in Seq(TaskIds \cup {Stop})
  /\ queuedBy \subseteq TaskIds
  /\ stopEvent \in BOOLEAN
  /\ wpc \in WorkerPhases
  /\ item \in TaskIds \cup {None}
  /\ outcome \in Outcomes \cup {None}
  /\ scanned \subseteq TaskIds
  /\ ctl \in {"idle", "setEvent", "putSentinel", "join"}
  /\ stops \in 0..MaxStops
=============================================================================
