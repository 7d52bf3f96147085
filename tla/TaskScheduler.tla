--------------------------- MODULE TaskScheduler ---------------------------
(***************************************************************************)
(* TaskSchedulerService (tasks/task_scheduler.py): a thread that lists the *)
(* scheduled tasks whose time has come and, for each one of that list,     *)
(* writes it back as queued and hands it to the background worker through  *)
(* DutyFlowApp._enqueue_scheduled_task_to_background_worker.               *)
(*                                                                         *)
(* The list is a snapshot: by the time a listed task is written, another   *)
(* thread may have changed it, and nothing looks again.                    *)
(***************************************************************************)
EXTENDS BackgroundWorker

VARIABLES
  arrived,   \* tasks whose scheduled_for has passed
  due,       \* the rest of the list run_once is working through
  spc,       \* phase of the scheduler thread
  stask      \* the task being dispatched

schedulerVars == <<arrived, due, spc, stask>>

SchedulerInit ==
  /\ arrived = {}
  /\ due = {}
  /\ spc = "idle"
  /\ stask = None

\* The wall clock passes scheduled_for.
TimeArrives(t) ==
  /\ t \in ScheduledTasks \ arrived
  /\ Exists(t)
  /\ arrived' = arrived \cup {t}
  /\ UNCHANGED <<taskVars, workerVars, due, spc, stask>>

IsDueScheduledTask(t) == HasStatus(t, "scheduled") /\ t \in arrived

ScanDueTasks ==
  /\ spc = "idle"
  /\ due' = {t \in TaskIds : IsDueScheduledTask(t)}
  /\ due' # {}
  /\ spc' = "dispatch"
  /\ UNCHANGED <<taskVars, workerVars, arrived, stask>>

BeginDispatch(t) ==
  /\ spc = "dispatch"
  /\ t \in due
  /\ BeginUpdate(Scheduler, t, [tasks[t] EXCEPT !.status = "queued"])
  /\ stask' = t
  /\ due' = due \ {t}
  /\ spc' = "writing"
  /\ UNCHANGED <<workerVars, arrived>>

WriteQueued ==
  /\ spc = "writing"
  /\ CommitRelease(Scheduler)
  /\ spc' = "enqueue"
  /\ UNCHANGED <<workerVars, arrived, due, stask>>

\* The end of one run_once, or of a run_once that raised.
Rest ==
  /\ due' = {}
  /\ spc' = "idle"
  /\ stask' = None

\* dispatch_handler: enqueue_task on a live worker.
DispatchToWorker ==
  /\ spc = "enqueue"
  /\ Alive
  /\ Enqueue(stask)
  /\ IF due = {} THEN Rest ELSE spc' = "dispatch" /\ UNCHANGED <<due, stask>>
  /\ UNCHANGED <<taskVars, stopEvent, wpc, item, outcome, scanned, arrived>>

\* enqueue_task raises when the worker is not running: _run_loop drops the
\* rest of the list.
DispatchRefused ==
  /\ spc = "enqueue"
  /\ ~Alive
  /\ Rest
  /\ UNCHANGED <<taskVars, workerVars, arrived>>

\* A file access or the control-state sync raises; same consequence.
SchedulerRaises ==
  /\ Faults
  /\ spc # "idle"
  /\ AbandonUpdate(Scheduler)
  /\ Rest
  /\ UNCHANGED <<workerVars, arrived>>

SchedulerThread ==
  \/ ScanDueTasks
  \/ \E t \in TaskIds : BeginDispatch(t)
  \/ WriteQueued
  \/ DispatchToWorker
  \/ DispatchRefused
  \/ SchedulerRaises

SchedulerTypeOK ==
  /\ arrived \subseteq ScheduledTasks
  /\ due \subseteq TaskIds
  /\ spc \in {"idle", "dispatch", "writing", "enqueue"}
  /\ stask \in TaskIds \cup {None}
=============================================================================
