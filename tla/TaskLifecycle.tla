--------------------------- MODULE TaskLifecycle ---------------------------
(***************************************************************************)
(* The life of the tasks when everything runs together: the agent that     *)
(* creates tasks, the background worker, the scheduler, the threads that   *)
(* request and decide approvals, and crashes of the process, all sharing   *)
(* the files under data/tasks and data/approvals.  DutyFlowApp starts      *)
(* these threads in _bootstrap_background_services.                        *)
(***************************************************************************)
EXTENDS TaskScheduler, ApprovalFlow

CONSTANT MaxCrashes   \* bound: crashes of the process

ASSUME LifecycleAssumption == MaxCrashes \in Nat

VARIABLE crashes

vars == <<taskVars, workerVars, ctlVars, schedulerVars, approvalVars, crashes>>

Init ==
  /\ TaskStoreInit
  /\ WorkerInit
  /\ SchedulerInit
  /\ ApprovalInit
  /\ crashes = 0

AgentCreatesTask ==
  /\ \E t \in TaskIds : CreateAsyncTask(t) \/ CreateScheduledTask(t)
  /\ UNCHANGED <<workerVars, ctlVars, schedulerVars, approvalVars, crashes>>

TimePasses ==
  /\ \E t \in ScheduledTasks : TimeArrives(t)
  /\ UNCHANGED <<ctlVars, approvalVars, crashes>>

WorkerStep ==
  /\ WorkerThread
  /\ UNCHANGED <<ctlVars, schedulerVars, approvalVars, crashes>>

ControlStep ==
  /\ WorkerControl
  /\ UNCHANGED <<schedulerVars, approvalVars, crashes>>

SchedulerStep ==
  /\ SchedulerThread
  /\ UNCHANGED <<ctlVars, approvalVars, crashes>>

RequestStep ==
  /\ \E r \in Requesters : RequesterThread(r)
  /\ UNCHANGED <<workerVars, ctlVars, schedulerVars, crashes>>

DecisionStep ==
  /\ \E d \in Deciders : DeciderThread(d)
  /\ UNCHANGED <<workerVars, ctlVars, schedulerVars, crashes>>

(***************************************************************************)
(* The process dies between two file accesses and is started again.  Files *)
(* survive; queues, maps and the progress of every thread do not.  Nothing *)
(* at start looks for tasks that were running.                             *)
(***************************************************************************)
CrashAndRestart ==
  /\ crashes < MaxCrashes
  /\ crashes' = crashes + 1
  /\ upd' = [th \in Threads |-> None]
  /\ queue' = << >>
  /\ queuedBy' = {}
  /\ stopEvent' = FALSE
  /\ wpc' = "loop"
  /\ item' = None
  /\ outcome' = None
  /\ scanned' = {}
  /\ ctl' = "idle"
  /\ Rest
  /\ req' = [r \in Requesters |-> NoRequest]
  /\ dec' = [d \in Deciders |-> NoDecision]
  /\ UNCHANGED <<tasks, released, stops, arrived, recordVars>>

Next ==
  \/ AgentCreatesTask
  \/ TimePasses
  \/ WorkerStep
  \/ ControlStep
  \/ SchedulerStep
  \/ RequestStep
  \/ DecisionStep
  \/ CrashAndRestart

Spec == Init /\ [][Next]_vars

(***************************************************************************)
(* Fairness.  The worker and scheduler threads keep running, a handler     *)
(* ends (the loop of the subagent is bounded), the ready scan is never     *)
(* skipped for ever (it is due again every second) and time passes.        *)
(***************************************************************************)
Fairness ==
  /\ WF_vars(WorkerStep)
  /\ SF_vars(StartScan /\ UNCHANGED <<ctlVars, schedulerVars, approvalVars, crashes>>)
  /\ WF_vars(SchedulerStep)
  /\ WF_vars(TimePasses)

FairSpec == Spec /\ Fairness

-----------------------------------------------------------------------------
(* Type correctness of every variable of the composition.                  *)
TypeOK ==
  /\ TaskStoreTypeOK
  /\ WorkerTypeOK
  /\ SchedulerTypeOK
  /\ ApprovalTypeOK
  /\ crashes \in 0..MaxCrashes

(* BackgroundTaskWorker keeps one work item per task at most, whoever puts *)
(* it on the queue (ready scan, scheduler) and whenever the thread is      *)
(* stopped and started again; the map names the tasks that are on the      *)
(* queue or being processed, and no other unless an exception ended the    *)
(* thread.                                                                 *)
Held == {t \in TaskIds : item = t \/ \E i \in DOMAIN queue : queue[i] = t}

HeldOnce ==
  /\ \A i, j \in DOMAIN queue : queue[i] = queue[j] => i = j \/ queue[i] = Stop
  /\ \A i \in DOMAIN queue : queue[i] # item
  /\ Held \subseteq queuedBy
  /\ ~Faults => queuedBy = Held

(* A run of a task needs a release of its own (creation, its hour, an      *)
(* approval): no interleaving of the blind rewrites, of duplicated work    *)
(* items, of stop and start or of a crash lets the worker run it twice.    *)
Gate == INSTANCE ExecutionGate WITH
          Tasks <- TaskIds,
          executing <- IF wpc = "running" THEN item ELSE None

GateSpec == Gate!Spec

(* A release after creation has a cause on disk: the hour of a scheduled   *)
(* task has come, or completed/ holds an approved decision on it.          *)
ReleaseHasCause ==
  [][\A t \in released' \ released :
       \/ ~Exists(t)
       \/ t \in arrived
       \/ \E a \in ApprovalIds : approvalTask[a] = t /\ completed[a] = "approved"]_vars

(* One approval releases its task once: a decision that was interrupted by *)
(* a crash may be taken again, one that was applied may not.               *)
OneGrantPerApproval == \A a \in ApprovalIds : grants[a] <= 1

(* No crash so far, and no exception in the approval services.             *)
Undisturbed == crashes = 0 /\ ~ServiceFaults

(* A decision is never changed by a later one: not once its approval is    *)
(* closed, and undisturbed not from the moment it is on disk.              *)
DecisionFinal ==
  [][\A a \in ApprovalIds :
       completed[a] # None /\ (a \notin pending \/ Undisturbed)
         => completed'[a] = completed[a]]_vars

(* A scope is enabled on behalf of a task only by an approval that is      *)
(* decided for good on disk: a decision that was interrupted and taken     *)
(* again, or another approval of that task, never leaves a scope enabled   *)
(* that the records say was declined (scope_approval.py:289).              *)
ScopeNeedsApproval ==
  \A t \in scopeEnabled :
    \E a \in ApprovalIds :
      approvalTask[a] = t /\ a \notin pending /\ completed[a] = "approved"

(* File accesses stop failing at some point.  (A scan that found nothing    *)
(* ends in the same way whether it raises or not.)                         *)
FaultStep ==
  \/ scanned # {} /\ ScanRaises
  \/ ProcessRaises \/ FailRaises \/ SchedulerRaises

FaultsEnd == <>[][~FaultStep]_vars

(* What excuses the worker: it is down, or an exception has ended it with  *)
(* the task in the map, where the task stays until the process restarts.   *)
WorkerDown == ~Alive \/ stopEvent
Ended(t) == \E o \in Outcomes : HasStatus(t, o)
Stuck(t) == t \in queuedBy \ Held

(* As long as nobody requests approvals, a task that was released is run   *)
(* if the worker stays up from some point on, also when the process        *)
(* crashes before it got that far, whatever raised before and however      *)
(* often the worker was stopped and started.                               *)
ReleasedRuns ==
  FaultsEnd =>
    \A t \in TaskIds :
      t \in released ~> t \notin released \/ Ended(t) \/ WorkerDown \/ Stuck(t)

(* As long as the process lives, every task the agent created ends with a  *)
(* result, also a scheduled one, and also one that the ready scan and the  *)
(* scheduler both put on the queue; the same excuses hold.                 *)
TasksFinish ==
  FaultsEnd =>
    \A t \in TaskIds :
      Exists(t) /\ crashes = 0
        ~> crashes > 0 \/ Ended(t) \/ WorkerDown \/ Stuck(t)
=============================================================================
