----------------------------- MODULE TaskStore -----------------------------
(***************************************************************************)
(* The task records under data/tasks and the way every component changes   *)
(* them (src/src/dutyflow/tasks/task_state.py, background_task_intake.py). *)
(*                                                                         *)
(* A task is one Markdown file.  TaskStore.update_task reads the whole     *)
(* record, replaces some fields and writes the whole record back, with no  *)
(* lock and no check that the file is still the one it read: every update  *)
(* here is therefore two steps of the calling thread, BeginUpdate and      *)
(* CommitUpdate, and other threads may write the same file in between.     *)
(***************************************************************************)
EXTENDS Naturals, Sequences, FiniteSets

CONSTANTS
  AsyncTasks,      \* tasks the agent creates with create_background_task
  ScheduledTasks,  \* tasks the agent creates with schedule_background_task
  ScopeTasks,      \* tasks FeishuScopeApprovalService creates for a scope
  ApprovalIds,     \* identifiers of the approval records
  Requesters,      \* threads that run ApprovalRequestIntakeService
  Deciders,        \* threads that run ApprovalResumeIntakeService
  None             \* no record, no identifier

Worker    == "worker"     \* thread dutyflow-background-task-worker
Scheduler == "scheduler"  \* thread dutyflow-task-scheduler

TaskIds == AsyncTasks \cup ScheduledTasks \cup ScopeTasks
Threads == {Worker, Scheduler} \cup Requesters \cup Deciders

ASSUME TaskStoreAssumption ==
  /\ AsyncTasks \cap ScheduledTasks = {}
  /\ (AsyncTasks \cup ScheduledTasks) \cap ScopeTasks = {}
  /\ Requesters \cap Deciders = {}
  /\ {Worker, Scheduler} \cap (Requesters \cup Deciders) = {}
  /\ None \notin TaskIds \cup ApprovalIds

Decisions == {"approved", "rejected", "deferred", "expired"}

Status == {"queued", "scheduled", "running", "waiting_approval",
           "completed", "failed", "blocked", "cancelled", "expired"}

\* resume_point: nothing to resume, an ordinary tool call, or enable_feishu_scope.
ResumePoints == {"none", "tool", "scope"}

TaskRecord ==
  [status         : Status,
   approval       : ApprovalIds \cup {None},
   approvalStatus : {"none", "waiting"} \cup Decisions,
   resume         : ResumePoints]

Update == [task : TaskIds, rec : TaskRecord]

ASSUME NoneAssumption == None \notin TaskRecord \cup Update \cup Decisions

NewTask(status) ==
  [status |-> status, approval |-> None, approvalStatus |-> "none", resume |-> "none"]

VARIABLES
  tasks,     \* tasks[t]: the record in task_<t>.md, or None when there is no file
  upd,       \* upd[th]: the update thread th has read and not yet written
  released   \* history: the tasks that were made runnable and not run since

taskVars == <<tasks, upd, released>>

Exists(t) == tasks[t] # None

HasStatus(t, s) == Exists(t) /\ tasks[t].status = s

TaskStoreInit ==
  /\ tasks = [t \in TaskIds |-> None]
  /\ upd = [th \in Threads |-> None]
  /\ released = {}

(***************************************************************************)
(* create_task: one write of a file nobody else knows of yet.              *)
(***************************************************************************)
CreateAs(t, status) ==
  /\ ~Exists(t)
  /\ tasks' = [tasks EXCEPT ![t] = NewTask(status)]
  /\ released' = IF status = "queued" THEN released \cup {t} ELSE released
  /\ UNCHANGED upd

CreateAsyncTask(t)     == t \in AsyncTasks /\ CreateAs(t, "queued")
CreateScheduledTask(t) == t \in ScheduledTasks /\ CreateAs(t, "scheduled")

(***************************************************************************)
(* update_task, first half: thread th has read the record of task t and    *)
(* computed the record rec it is going to write.                           *)
(***************************************************************************)
BeginUpdate(th, t, rec) ==
  /\ Exists(t)
  /\ upd' = [upd EXCEPT ![th] = [task |-> t, rec |-> rec]]
  /\ UNCHANGED <<tasks, released>>

\* update_task, second half: the whole record is written over the file.
WriteBack(th) ==
  /\ tasks' = [tasks EXCEPT ![upd[th].task] = upd[th].rec]
  /\ upd' = [upd EXCEPT ![th] = None]

CommitUpdate(th) ==
  /\ WriteBack(th)
  /\ UNCHANGED released

\* A write that makes its task runnable: the task may be run once more.
CommitRelease(th) ==
  /\ WriteBack(th)
  /\ released' = released \cup {upd[th].task}

\* The write that starts a run: it uses the release up.
CommitRun(th) ==
  /\ WriteBack(th)
  /\ released' = released \ {upd[th].task}

\* An exception between the two halves: nothing is written.
AbandonUpdate(th) ==
  /\ upd' = [upd EXCEPT ![th] = None]
  /\ UNCHANGED <<tasks, released>>

TaskStoreTypeOK ==
  /\ tasks \in [TaskIds -> TaskRecord \cup {None}]
  /\ upd \in [Threads -> Update \cup {None}]
  /\ released \subseteq TaskIds
=============================================================================
