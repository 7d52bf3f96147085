------------------------ MODULE TaskLifecycleProofs ------------------------
(* Theorems of TaskLifecycle, for any tasks, threads, approvals and bounds. *)
EXTENDS ApprovalEffect, TLAPS

LEMMA RecordUpdate ==
  ASSUME NEW rec \in TaskRecord, NEW s \in Status
  PROVE  /\ [rec EXCEPT !.status = s] \in TaskRecord
         /\ [rec EXCEPT !.status = s].status = s
  BY DEF TaskRecord

LEMMA NewTaskType ==
  ASSUME NEW s \in Status
  PROVE  NewTask(s) \in TaskRecord /\ NewTask(s).status = s
  BY DEF NewTask, TaskRecord, ResumePoints

LEMMA BeginUpdateType ==
  ASSUME TaskStoreTypeOK, NEW th \in Threads, NEW t \in TaskIds, NEW rec \in TaskRecord,
         BeginUpdate(th, t, rec)
  PROVE  /\ TaskStoreTypeOK'
         /\ upd'[th] # None /\ upd'[th].task = t /\ upd'[th].rec = rec
         /\ \A o \in Threads \ {th} : upd'[o] = upd[o]
  <1>1. [task |-> t, rec |-> rec] \in Update
    BY DEF Update
  <1>2. [task |-> t, rec |-> rec] # None
    BY <1>1, NoneAssumption
  <1> QED
    BY <1>1, <1>2 DEF BeginUpdate, TaskStoreTypeOK

LEMMA WriteBackType ==
  ASSUME TaskStoreTypeOK, NEW th \in Threads, upd[th] # None, WriteBack(th)
  PROVE  /\ tasks' \in [TaskIds -> TaskRecord \cup {None}]
         /\ upd' \in [Threads -> Update \cup {None}]
         /\ upd'[th] = None
         /\ \A o \in Threads \ {th} : upd'[o] = upd[o]
         /\ upd[th].task \in TaskIds
         /\ tasks'[upd[th].task] = upd[th].rec /\ upd[th].rec # None
         /\ \A t \in TaskIds \ {upd[th].task} : tasks'[t] = tasks[t]
  BY NoneAssumption DEF WriteBack, TaskStoreTypeOK, Update

LEMMA AbandonType ==
  ASSUME TaskStoreTypeOK, NEW th \in Threads, AbandonUpdate(th)
  PROVE  /\ TaskStoreTypeOK'
         /\ \A o \in Threads \ {th} : upd'[o] = upd[o]
         /\ UNCHANGED <<tasks, released>>
  BY DEF AbandonUpdate, TaskStoreTypeOK

-----------------------------------------------------------------------------
(* The threads are distinct, and each has its own update. *)
LEMMA ThreadFacts ==
  /\ Worker \in Threads /\ Scheduler \in Threads /\ Worker # Scheduler
  /\ \A r \in Requesters : r \in Threads /\ r # Worker /\ r # Scheduler /\ r \notin Deciders
  /\ \A d \in Deciders : d \in Threads /\ d # Worker /\ d # Scheduler
  BY TaskStoreAssumption DEF Threads, Worker, Scheduler

(* What the other threads know does not depend on the update of thread th. *)
LEMMA OthersKeep ==
  ASSUME IndInv, NEW th \in Threads,
         \A o \in Threads \ {th} : upd'[o] = upd[o]
  PROVE  /\ th # Worker /\ UNCHANGED workerVars => WorkerInv'
         /\ th # Scheduler /\ UNCHANGED schedulerVars => SchedulerInv'
         /\ th \notin Requesters /\ UNCHANGED req => RequestInv'
         /\ th \notin Deciders /\ UNCHANGED <<dec, approvalTask>> => DecisionInv'
  BY ThreadFacts
     DEF IndInv, WorkerInv, SchedulerInv, RequestInv, DecisionInv, workerVars, schedulerVars

(* The steps of the worker thread that leave the task files alone.         *)
QuietWorkerStep ==
  \/ LeaveOnStop \/ StartScan \/ SkipScan \/ EndScan \/ ScanRaises
  \/ \E t \in TaskIds : ScanEnqueue(t)
  \/ GetTimesOut \/ GetSentinel \/ GetItem
  \/ Claim \/ HandlerRaises \/ \E o \in Outcomes : HandlerReturns(o)
  \/ SkipFeedback \/ FeedbackSynced \/ FailSynced \/ Finish

LEMMA QuietWorkerPreserves ==
  ASSUME IndInv, QuietWorkerStep, UNCHANGED ctlVars
  PROVE  UNCHANGED taskVars /\ WorkerTypeOK' /\ WorkerInv' /\ ReleaseInv'
  <1>1. CASE LeaveOnStop \/ StartScan \/ SkipScan \/ EndScan \/ ScanRaises
    <2>1. UNCHANGED taskVars
      BY <1>1 DEF LeaveOnStop, StartScan, SkipScan, EndScan, ScanRaises
    <2>2. WorkerTypeOK'
      BY <1>1
         DEF LeaveOnStop, StartScan, SkipScan, EndScan, ScanRaises, IndInv, TypeOK,
             WorkerTypeOK, WorkerInv, KeepQueue, WorkerPhases, Busy, TryPhases,
             FailPhases, ctlVars
    <2>3. WorkerInv'
      BY <1>1, <2>1
         DEF LeaveOnStop, StartScan, SkipScan, EndScan, ScanRaises, IndInv, TypeOK,
             WorkerTypeOK, WorkerInv, KeepQueue, Busy, TryPhases, FailPhases, taskVars
    <2>4. ReleaseInv'
      BY <1>1, <2>1
         DEF LeaveOnStop, StartScan, SkipScan, EndScan, ScanRaises, IndInv, WorkerInv,
             ReleaseInv, Busy, TryPhases, HasStatus, Exists, taskVars
    <2> QED BY <2>1, <2>2, <2>3, <2>4
  <1>2. CASE \E t \in TaskIds : ScanEnqueue(t)
    <2>1. UNCHANGED taskVars
      BY <1>2 DEF ScanEnqueue, Enqueue
    <2>2. WorkerTypeOK'
      BY <1>2
         DEF ScanEnqueue, Enqueue, IndInv, TypeOK, WorkerTypeOK, WorkerInv, KeepQueue,
             WorkerPhases, Busy, TryPhases, FailPhases, ctlVars
    <2>3. WorkerInv'
      BY <1>2, <2>1
         DEF ScanEnqueue, Enqueue, IndInv, TypeOK, WorkerTypeOK, WorkerInv, KeepQueue,
             Busy, TryPhases, FailPhases, taskVars
    <2>4. ReleaseInv'
      BY <1>2, <2>1
         DEF ScanEnqueue, Enqueue, IndInv, WorkerInv, ReleaseInv, Busy, TryPhases,
             HasStatus, Exists, taskVars
    <2> QED BY <2>1, <2>2, <2>3, <2>4
  <1>3. CASE GetTimesOut \/ GetSentinel \/ GetItem
    <2>1. UNCHANGED taskVars
      BY <1>3 DEF GetTimesOut, GetSentinel, GetItem
    <2>2. WorkerTypeOK'
      BY <1>3
         DEF GetTimesOut, GetSentinel, GetItem, IndInv, TypeOK, WorkerTypeOK, WorkerInv,
             KeepQueue, WorkerPhases, Busy, TryPhases, FailPhases, ctlVars
    <2>3. WorkerInv'
      BY <1>3, <2>1
         DEF GetTimesOut, GetSentinel, GetItem, IndInv, TypeOK, WorkerTypeOK, WorkerInv,
             KeepQueue, Busy, TryPhases, FailPhases, taskVars
    <2>4. ReleaseInv'
      BY <1>3, <2>1
         DEF GetTimesOut, GetSentinel, GetItem, IndInv, WorkerInv, ReleaseInv, Busy,
             TryPhases, HasStatus, Exists, taskVars
    <2> QED BY <2>1, <2>2, <2>3, <2>4
  <1>4. CASE Claim \/ HandlerRaises \/ \E o \in Outcomes : HandlerReturns(o)
    <2>1. UNCHANGED taskVars
      BY <1>4 DEF Claim, HandlerRaises, HandlerReturns
    <2>2. WorkerTypeOK'
      BY <1>4
         DEF Claim, HandlerRaises, HandlerReturns, IndInv, TypeOK, WorkerTypeOK,
             WorkerInv, KeepQueue, WorkerPhases, Busy, TryPhases, FailPhases, ctlVars
    <2>3. WorkerInv'
      BY <1>4, <2>1
         DEF Claim, HandlerRaises, HandlerReturns, IndInv, TypeOK, WorkerTypeOK,
             WorkerInv, KeepQueue, Busy, TryPhases, FailPhases, taskVars
    <2>4. ReleaseInv'
      BY <1>4, <2>1
         DEF Claim, HandlerRaises, HandlerReturns, IndInv, WorkerInv, ReleaseInv, Busy,
             TryPhases, HasStatus, Exists, taskVars
    <2> QED BY <2>1, <2>2, <2>3, <2>4
  <1>5. CASE SkipFeedback \/ FeedbackSynced \/ FailSynced \/ Finish
    <2>1. UNCHANGED taskVars
      BY <1>5 DEF SkipFeedback, FeedbackSynced, FailSynced, Finish
    <2>2. WorkerTypeOK'
      BY <1>5
         DEF SkipFeedback, FeedbackSynced, FailSynced, Finish, IndInv, TypeOK,
             WorkerTypeOK, WorkerInv, KeepQueue, WorkerPhases, Busy, TryPhases,
             FailPhases, ctlVars
    <2>3. WorkerInv'
      BY <1>5, <2>1
         DEF SkipFeedback, FeedbackSynced, FailSynced, Finish, IndInv, TypeOK,
             WorkerTypeOK, WorkerInv, KeepQueue, Busy, TryPhases, FailPhases, taskVars
    <2>4. ReleaseInv'
      BY <1>5, <2>1
         DEF SkipFeedback, FeedbackSynced, FailSynced, Finish, IndInv, WorkerInv,
             ReleaseInv, Busy, TryPhases, HasStatus, Exists, taskVars
    <2> QED BY <2>1, <2>2, <2>3, <2>4
  <1> QED BY <1>1, <1>2, <1>3, <1>4, <1>5 DEF QuietWorkerStep

(* The steps that read a task and are going to write it back.              *)
LEMMA WorkerBegins ==
  ASSUME IndInv, UNCHANGED ctlVars, BeginRunning \/ BeginApply \/ BeginFeedback \/ BeginFail
  PROVE  /\ TaskStoreTypeOK' /\ WorkerTypeOK' /\ WorkerInv' /\ ReleaseInv'
         /\ \A o \in Threads \ {Worker} : upd'[o] = upd[o]
  <1> DEFINE rec == upd'[Worker].rec
  <1>1. item \in TaskIds /\ Exists(item) /\ tasks[item] \in TaskRecord
    BY DEF IndInv, TypeOK, TaskStoreTypeOK, WorkerInv, BeginRunning, BeginApply,
           BeginFeedback, BeginFail, BeginUpdate, Exists, Busy, TryPhases, FailPhases
  <1>2. outcome \in Outcomes => outcome \in Status
    BY DEF Outcomes, Status
  <1>3. PICK new \in TaskRecord :
          /\ BeginUpdate(Worker, item, new)
          /\ BeginRunning => new.status = "running"
          /\ BeginApply => new.status = outcome
          /\ BeginFeedback => new = tasks[item]
          /\ BeginFail => new.status = "failed"
    <2>1. CASE BeginRunning
      BY <2>1, <1>1, RecordUpdate
         DEF BeginRunning, BeginApply, BeginFeedback, BeginFail, Status
    <2>2. CASE BeginApply
      BY <2>2, <1>1, <1>2, RecordUpdate
         DEF BeginRunning, BeginApply, BeginFeedback, BeginFail, IndInv, WorkerInv
    <2>3. CASE BeginFeedback
      BY <2>3, <1>1 DEF BeginRunning, BeginApply, BeginFeedback, BeginFail
    <2>4. CASE BeginFail
      <3>1. wpc = "failing" /\ BeginUpdate(Worker, item, [tasks[item] EXCEPT !.status = "failed"])
        BY <2>4 DEF BeginFail
      <3>2. ~BeginRunning /\ ~BeginApply /\ ~BeginFeedback
        BY <3>1 DEF BeginRunning, BeginApply, BeginFeedback
      <3> QED
        BY <1>1, <3>1, <3>2, RecordUpdate DEF Status
    <2> QED BY <2>1, <2>2, <2>3, <2>4
  <1>4. /\ TaskStoreTypeOK'
        /\ upd'[Worker] # None /\ upd'[Worker].task = item /\ upd'[Worker].rec = new
        /\ \A o \in Threads \ {Worker} : upd'[o] = upd[o]
    BY <1>1, <1>3, ThreadFacts, BeginUpdateType DEF IndInv, TypeOK
  <1>5. UNCHANGED <<tasks, released>>
    BY <1>3 DEF BeginUpdate
  <1>6. WorkerTypeOK'
    BY DEF IndInv, TypeOK, WorkerTypeOK, BeginRunning, BeginApply, BeginFeedback,
           BeginFail,
           KeepQueue, WorkerPhases, Busy, TryPhases, FailPhases, ctlVars
  <1>7. WorkerInv'
    BY <1>3, <1>4
       DEF IndInv, WorkerInv, BeginRunning, BeginApply, BeginFeedback, BeginFail,
           Busy, TryPhases, FailPhases
  <1>8. ReleaseInv'
    BY <1>1, <1>3, <1>4, <1>5
       DEF IndInv, ReleaseInv, BeginRunning, BeginApply, BeginFeedback, BeginFail,
           HasStatus, Exists
  <1> QED BY <1>4, <1>6, <1>7, <1>8

(* The steps that write a task back. *)
LEMMA WorkerWrites ==
  ASSUME IndInv, UNCHANGED ctlVars, WriteRunning \/ WriteOutcome \/ WriteFeedback \/ WriteFailed
  PROVE  /\ TaskStoreTypeOK' /\ WorkerTypeOK' /\ WorkerInv' /\ ReleaseInv'
         /\ \A o \in Threads \ {Worker} : upd'[o] = upd[o]
  <1>1. WriteBack(Worker) /\ upd[Worker] # None
    BY DEF IndInv, WorkerInv, WriteRunning, WriteOutcome, WriteFeedback, WriteFailed,
           CommitRun, CommitUpdate
  <1>2. /\ tasks' \in [TaskIds -> TaskRecord \cup {None}]
        /\ upd' \in [Threads -> Update \cup {None}]
        /\ upd'[Worker] = None
        /\ \A o \in Threads \ {Worker} : upd'[o] = upd[o]
        /\ upd[Worker].task \in TaskIds
        /\ tasks'[upd[Worker].task] = upd[Worker].rec /\ upd[Worker].rec # None
        /\ \A t \in TaskIds \ {upd[Worker].task} : tasks'[t] = tasks[t]
    BY <1>1, ThreadFacts, WriteBackType DEF IndInv, TypeOK
  <1>3. TaskStoreTypeOK'
    BY <1>2
       DEF IndInv, TypeOK, TaskStoreTypeOK, WriteRunning, WriteOutcome, WriteFeedback,
           WriteFailed, CommitRun, CommitUpdate
  <1>4. WorkerTypeOK' /\ WorkerInv'
    BY DEF IndInv, TypeOK, WorkerTypeOK, WorkerInv, WriteRunning, WriteOutcome,
           WriteFeedback,
           WriteFailed, KeepQueue, WorkerPhases, Busy, TryPhases, FailPhases, ctlVars
  <1>5. ReleaseInv'
    <2>1. CASE WriteRunning
      BY <2>1, <1>2
         DEF IndInv, WorkerInv, ReleaseInv, WriteRunning, CommitRun, HasStatus, Exists
    <2>2. CASE WriteOutcome \/ WriteFailed
      BY <2>2, <1>2
         DEF IndInv, WorkerInv, ReleaseInv, WriteOutcome, WriteFailed, CommitUpdate,
             HasStatus, Exists, Outcomes
    <2>3. CASE WriteFeedback
      BY <2>3, <1>2
         DEF IndInv, ReleaseInv, WriteFeedback, CommitUpdate, HasStatus, Exists
    <2> QED BY <2>1, <2>2, <2>3
  <1> QED BY <1>2, <1>3, <1>4, <1>5

(* The exceptions. *)
LEMMA WorkerRaises ==
  ASSUME IndInv, UNCHANGED ctlVars, ProcessRaises \/ FailRaises
  PROVE  /\ TaskStoreTypeOK' /\ WorkerTypeOK' /\ WorkerInv' /\ ReleaseInv'
         /\ \A o \in Threads \ {Worker} : upd'[o] = upd[o]
  <1>1. AbandonUpdate(Worker)
    BY DEF ProcessRaises, FailRaises
  <1>2. /\ TaskStoreTypeOK'
        /\ \A o \in Threads \ {Worker} : upd'[o] = upd[o]
        /\ UNCHANGED <<tasks, released>>
    BY <1>1, ThreadFacts, AbandonType DEF IndInv, TypeOK
  <1>3. WorkerTypeOK' /\ WorkerInv'
    BY DEF IndInv, TypeOK, WorkerTypeOK, WorkerInv, ProcessRaises, FailRaises,
           KeepQueue, WorkerPhases, Busy, TryPhases, FailPhases, ctlVars
  <1>4. ReleaseInv'
    BY <1>2 DEF IndInv, ReleaseInv, ProcessRaises, FailRaises, HasStatus, Exists
  <1> QED BY <1>2, <1>3, <1>4

LEMMA WorkerPreserves ==
  ASSUME IndInv, WorkerStep
  PROVE  IndInv'
  <1>1. UNCHANGED ctlVars /\ UNCHANGED <<schedulerVars, approvalVars, crashes>>
    BY DEF WorkerStep
  <1>2. /\ TaskStoreTypeOK' /\ WorkerTypeOK' /\ WorkerInv' /\ ReleaseInv'
        /\ \A o \in Threads \ {Worker} : upd'[o] = upd[o]
    <2>1. CASE QuietWorkerStep
      BY <2>1, <1>1, QuietWorkerPreserves DEF IndInv, TypeOK, TaskStoreTypeOK, taskVars
    <2>2. CASE BeginRunning \/ BeginApply \/ BeginFeedback \/ BeginFail
      BY <2>2, <1>1, WorkerBegins
    <2>3. CASE WriteRunning \/ WriteOutcome \/ WriteFeedback \/ WriteFailed
      BY <2>3, <1>1, WorkerWrites
    <2>4. CASE ProcessRaises \/ FailRaises
      BY <2>4, <1>1, WorkerRaises
    <2> QED BY <2>1, <2>2, <2>3, <2>4 DEF WorkerStep, WorkerThread, QuietWorkerStep
  <1>3. SchedulerInv' /\ RequestInv' /\ DecisionInv'
    BY <1>1, <1>2, ThreadFacts, OthersKeep DEF approvalVars
  <1>4. SchedulerTypeOK' /\ ApprovalTypeOK' /\ (crashes \in 0..MaxCrashes)'
    BY <1>1
       DEF IndInv, TypeOK, SchedulerTypeOK, ApprovalTypeOK, schedulerVars, approvalVars
  <1> QED BY <1>2, <1>3, <1>4 DEF IndInv, TypeOK

-----------------------------------------------------------------------------
(* Steps outside the worker thread.                                        *)

\* Nothing the worker knows changes when its own variables do not.
LEMMA WorkerUndisturbed ==
  ASSUME IndInv, UNCHANGED <<wpc, item, outcome>>, upd'[Worker] = upd[Worker]
  PROVE  WorkerInv'
  BY DEF IndInv, WorkerInv

(* Another thread writes rec over task t: the invariant on releases stays  *)
(* when a task that becomes queued is released.                            *)
LEMMA ReleaseUndisturbed ==
  ASSUME IndInv, UNCHANGED <<wpc, item>>, upd'[Worker] = upd[Worker],
         released \subseteq released',
         \A t \in TaskIds : HasStatus(t, "queued")' => HasStatus(t, "queued") \/ t \in released'
  PROVE  ReleaseInv'
  BY DEF IndInv, ReleaseInv

LEMMA CreateType ==
  ASSUME IndInv, NEW t \in TaskIds, NEW s \in Status, CreateAs(t, s)
  PROVE  TaskStoreTypeOK' /\ UNCHANGED upd /\ released \subseteq released'
         /\ \A u \in TaskIds : HasStatus(u, "queued")' => HasStatus(u, "queued") \/ u \in released'
  <1>1. NewTask(s) \in TaskRecord /\ NewTask(s).status = s
    BY NewTaskType
  <1>2. TaskStoreTypeOK' /\ UNCHANGED upd /\ released \subseteq released'
    BY <1>1 DEF IndInv, TypeOK, TaskStoreTypeOK, CreateAs
  <1>3. ASSUME NEW u \in TaskIds, HasStatus(u, "queued")'
        PROVE  HasStatus(u, "queued") \/ u \in released'
    BY <1>1, <1>3 DEF IndInv, TypeOK, TaskStoreTypeOK, CreateAs, HasStatus, Exists
  <1> QED BY <1>2, <1>3

LEMMA AgentPreserves ==
  ASSUME IndInv, AgentCreatesTask
  PROVE  IndInv'
  <1>1. PICK t \in TaskIds : CreateAsyncTask(t) \/ CreateScheduledTask(t)
    BY DEF AgentCreatesTask
  <1>2. /\ TaskStoreTypeOK' /\ UNCHANGED upd /\ released \subseteq released'
        /\ \A u \in TaskIds : HasStatus(u, "queued")' => HasStatus(u, "queued") \/ u \in released'
    <2>1. PICK s \in {"queued", "scheduled"} : CreateAs(t, s)
      BY <1>1 DEF CreateAsyncTask, CreateScheduledTask
    <2> QED BY <2>1, CreateType DEF Status
  <1>3. UNCHANGED <<workerVars, ctlVars, schedulerVars, approvalVars, crashes>>
    BY DEF AgentCreatesTask
  <1>4. WorkerTypeOK' /\ SchedulerTypeOK' /\ ApprovalTypeOK' /\ (crashes \in 0..MaxCrashes)'
    BY <1>3 DEF IndInv, TypeOK, WorkerTypeOK, SchedulerTypeOK, ApprovalTypeOK,
           workerVars, ctlVars, schedulerVars, approvalVars
  <1>5. WorkerInv' /\ SchedulerInv' /\ RequestInv' /\ DecisionInv'
    BY <1>2, <1>3 DEF IndInv, WorkerInv, SchedulerInv, RequestInv, DecisionInv,
           workerVars, schedulerVars, approvalVars
  <1>6. ReleaseInv'
    BY <1>2, <1>3, ReleaseUndisturbed DEF workerVars
  <1> QED BY <1>2, <1>4, <1>5, <1>6 DEF IndInv, TypeOK

LEMMA TimePreserves ==
  ASSUME IndInv, TimePasses
  PROVE  IndInv'
  <1>1. UNCHANGED <<taskVars, workerVars, ctlVars, due, spc, stask, approvalVars, crashes>>
        /\ arrived' \subseteq ScheduledTasks
    BY DEF TimePasses, TimeArrives, IndInv, TypeOK, SchedulerTypeOK
  <1>2. TypeOK'
    BY <1>1
       DEF IndInv, TypeOK, TaskStoreTypeOK, WorkerTypeOK, SchedulerTypeOK,
           ApprovalTypeOK,
           taskVars, workerVars, ctlVars, approvalVars
  <1>3. WorkerInv' /\ SchedulerInv' /\ RequestInv' /\ DecisionInv' /\ ReleaseInv'
    BY <1>1 DEF IndInv, WorkerInv, SchedulerInv, RequestInv, DecisionInv, ReleaseInv,
           taskVars, workerVars, approvalVars, HasStatus, Exists
  <1> QED BY <1>2, <1>3 DEF IndInv

LEMMA ControlPreserves ==
  ASSUME IndInv, ControlStep
  PROVE  IndInv'
  <1>1. UNCHANGED <<taskVars, schedulerVars, approvalVars, crashes>>
    BY DEF ControlStep, WorkerControl, StartWorker, BeginStop, SetStopEvent,
           PutSentinel, EndStop
  <1>2. WorkerTypeOK'
    <2>1. CASE StartWorker
      BY <2>1 DEF StartWorker, IndInv, TypeOK, WorkerTypeOK, ctlVars, WorkerPhases
    <2>2. CASE BeginStop \/ SetStopEvent \/ EndStop
      <3>1. stops' \in 0..MaxStops
        BY <2>2, WorkerAssumption
           DEF BeginStop, SetStopEvent, EndStop, IndInv, TypeOK, WorkerTypeOK
      <3>2. ctl' \in {"idle", "setEvent", "putSentinel", "join"}
        BY <2>2 DEF BeginStop, SetStopEvent, EndStop
      <3>3. UNCHANGED <<queue, queuedBy, wpc, item, outcome, scanned>> /\ stopEvent' \in BOOLEAN
        BY <2>2
           DEF BeginStop, SetStopEvent, EndStop, workerVars, IndInv, TypeOK,
               WorkerTypeOK
      <3> QED BY <3>1, <3>2, <3>3 DEF IndInv, TypeOK, WorkerTypeOK
    <2>3. CASE PutSentinel
      <3>1. Append(queue, Stop) \in Seq(TaskIds \cup {Stop})
        BY DEF IndInv, TypeOK, WorkerTypeOK
      <3> QED BY <2>3, <3>1 DEF PutSentinel, IndInv, TypeOK, WorkerTypeOK
    <2> QED BY <2>1, <2>2, <2>3 DEF ControlStep, WorkerControl
  <1>5. WorkerInv'
    BY <1>1 DEF IndInv, WorkerInv, ControlStep, WorkerControl, StartWorker, BeginStop,
           SetStopEvent, PutSentinel, EndStop, Alive, workerVars, taskVars, Busy, TryPhases,
           FailPhases
  <1>6. ReleaseInv'
    BY <1>1 DEF IndInv, ReleaseInv, ControlStep, WorkerControl, StartWorker, BeginStop,
           SetStopEvent, PutSentinel, EndStop, workerVars, taskVars, HasStatus, Exists
  <1>3. TaskStoreTypeOK' /\ SchedulerTypeOK' /\ ApprovalTypeOK' /\ (crashes \in 0..MaxCrashes)'
    BY <1>1 DEF IndInv, TypeOK, TaskStoreTypeOK, SchedulerTypeOK, ApprovalTypeOK,
           taskVars, schedulerVars, approvalVars
  <1>4. SchedulerInv' /\ RequestInv' /\ DecisionInv'
    BY <1>1 DEF IndInv, SchedulerInv, RequestInv, DecisionInv, taskVars, schedulerVars,
           approvalVars
  <1> QED BY <1>2, <1>3, <1>4, <1>5, <1>6 DEF IndInv, TypeOK

LEMMA SchedulerPreserves ==
  ASSUME IndInv, SchedulerStep
  PROVE  IndInv'
  <1>1. UNCHANGED <<ctlVars, approvalVars, crashes>> /\ SchedulerThread
    BY DEF SchedulerStep
  <1>2. /\ TaskStoreTypeOK' /\ released \subseteq released'
        /\ \A o \in Threads \ {Scheduler} : upd'[o] = upd[o]
        /\ \A u \in TaskIds : HasStatus(u, "queued")' => HasStatus(u, "queued") \/ u \in released'
        /\ SchedulerInv'
    <2>1. CASE ScanDueTasks \/ DispatchToWorker \/ DispatchRefused
      BY <2>1 DEF ScanDueTasks, DispatchToWorker, DispatchRefused, Rest, IndInv, TypeOK,
             TaskStoreTypeOK, SchedulerInv, SchedulerTypeOK, taskVars, HasStatus, Exists
    <2>2. CASE \E t \in TaskIds : BeginDispatch(t)
      <3>1. PICK t \in TaskIds : BeginDispatch(t)
        BY <2>2
      <3>2. tasks[t] \in TaskRecord
        BY <3>1 DEF BeginDispatch, BeginUpdate, Exists, IndInv, TypeOK, TaskStoreTypeOK
      <3>3. [tasks[t] EXCEPT !.status = "queued"] \in TaskRecord
        BY <3>2, RecordUpdate DEF Status
      <3>4. /\ TaskStoreTypeOK' /\ upd'[Scheduler] # None
            /\ \A o \in Threads \ {Scheduler} : upd'[o] = upd[o]
        BY <3>1, <3>3, BeginUpdateType, ThreadFacts DEF BeginDispatch, IndInv, TypeOK
      <3> QED BY <3>1, <3>4 DEF BeginDispatch, BeginUpdate, SchedulerInv, HasStatus, Exists
    <2>3. CASE WriteQueued
      <3>1. WriteBack(Scheduler) /\ upd[Scheduler] # None
        BY <2>3 DEF WriteQueued, CommitRelease, IndInv, SchedulerInv
      <3>2. /\ tasks' \in [TaskIds -> TaskRecord \cup {None}]
            /\ upd' \in [Threads -> Update \cup {None}]
            /\ \A o \in Threads \ {Scheduler} : upd'[o] = upd[o]
            /\ upd[Scheduler].task \in TaskIds
            /\ \A t \in TaskIds \ {upd[Scheduler].task} : tasks'[t] = tasks[t]
        BY <3>1, ThreadFacts, WriteBackType DEF IndInv, TypeOK
      <3> QED BY <2>3, <3>2 DEF WriteQueued, CommitRelease, IndInv, TypeOK, TaskStoreTypeOK,
                     SchedulerInv, HasStatus, Exists
    <2>4. CASE SchedulerRaises
      BY <2>4, ThreadFacts, AbandonType
         DEF SchedulerRaises, Rest, IndInv, TypeOK, SchedulerInv, HasStatus, Exists
    <2> QED BY <1>1, <2>1, <2>2, <2>3, <2>4 DEF SchedulerThread
  <1>3. UNCHANGED <<wpc, item, outcome, stopEvent, scanned>>
    BY <1>1
       DEF SchedulerThread, ScanDueTasks, BeginDispatch, WriteQueued, DispatchToWorker,
           DispatchRefused, SchedulerRaises, workerVars
  <1>4. queue' \in Seq(TaskIds \cup {Stop}) /\ queuedBy' \subseteq TaskIds
    <2>1. CASE DispatchToWorker
      <3>1. stask \in TaskIds
        BY <2>1 DEF DispatchToWorker, IndInv, SchedulerInv
      <3>2. Append(queue, stask) \in Seq(TaskIds \cup {Stop})
        BY <3>1 DEF IndInv, TypeOK, WorkerTypeOK
      <3> QED BY <2>1, <3>1, <3>2 DEF DispatchToWorker, Enqueue, IndInv, TypeOK, WorkerTypeOK
    <2>2. CASE UNCHANGED workerVars
      BY <2>2 DEF workerVars, IndInv, TypeOK, WorkerTypeOK
    <2> QED BY <1>1, <2>1, <2>2 DEF SchedulerThread, ScanDueTasks, BeginDispatch, WriteQueued,
              DispatchRefused, SchedulerRaises
  <1>5. SchedulerTypeOK'
    BY <1>1
       DEF IndInv, TypeOK, SchedulerTypeOK, SchedulerThread, ScanDueTasks,
           BeginDispatch,
           WriteQueued, DispatchToWorker, DispatchRefused, SchedulerRaises, Rest
  <1>6. WorkerTypeOK' /\ ApprovalTypeOK' /\ (crashes \in 0..MaxCrashes)'
    BY <1>1, <1>3, <1>4
       DEF IndInv, TypeOK, WorkerTypeOK, ApprovalTypeOK, ctlVars, approvalVars
  <1>7. WorkerInv' /\ RequestInv' /\ DecisionInv'
    BY <1>1, <1>2, <1>3, ThreadFacts, OthersKeep, WorkerUndisturbed DEF approvalVars
  <1>8. ReleaseInv'
    BY <1>2, <1>3, ThreadFacts, ReleaseUndisturbed
  <1> QED BY <1>2, <1>5, <1>6, <1>7, <1>8 DEF IndInv, TypeOK

(* What a step of thread th may do to the tasks without hurting the rest.  *)
StoreStep(th) ==
  /\ TaskStoreTypeOK'
  /\ \A o \in Threads \ {th} : upd'[o] = upd[o]
  /\ released \subseteq released'
  /\ \A t \in TaskIds : HasStatus(t, "queued")' => HasStatus(t, "queued") \/ t \in released'

LEMMA QuietStore ==
  ASSUME IndInv, NEW th \in Threads, UNCHANGED taskVars
  PROVE  StoreStep(th)
  BY DEF StoreStep, IndInv, TypeOK, TaskStoreTypeOK, taskVars, HasStatus, Exists

LEMMA BeginStore ==
  ASSUME IndInv, NEW th \in Threads, NEW t \in TaskIds, NEW rec \in TaskRecord,
         BeginUpdate(th, t, rec)
  PROVE  StoreStep(th) /\ upd'[th] # None /\ upd'[th].rec = rec
  <1>1. TaskStoreTypeOK' /\ upd'[th] # None /\ upd'[th].rec = rec
        /\ \A o \in Threads \ {th} : upd'[o] = upd[o]
    BY BeginUpdateType DEF IndInv, TypeOK
  <1> QED BY <1>1 DEF StoreStep, BeginUpdate, HasStatus, Exists

LEMMA CommitStore ==
  ASSUME IndInv, NEW th \in Threads, upd[th] # None,
         \/ CommitRelease(th)
         \/ CommitUpdate(th) /\ upd[th].rec.status # "queued"
  PROVE  StoreStep(th)
  <1>1. WriteBack(th)
    BY DEF CommitRelease, CommitUpdate
  <1>2. /\ tasks' \in [TaskIds -> TaskRecord \cup {None}]
        /\ upd' \in [Threads -> Update \cup {None}]
        /\ \A o \in Threads \ {th} : upd'[o] = upd[o]
        /\ upd[th].task \in TaskIds
        /\ tasks'[upd[th].task] = upd[th].rec
        /\ \A t \in TaskIds \ {upd[th].task} : tasks'[t] = tasks[t]
    BY <1>1, WriteBackType DEF IndInv, TypeOK
  <1>3. released' \subseteq TaskIds /\ released \subseteq released'
    BY <1>2 DEF CommitRelease, CommitUpdate, IndInv, TypeOK, TaskStoreTypeOK
  <1>4. ASSUME NEW t \in TaskIds, HasStatus(t, "queued")'
        PROVE  HasStatus(t, "queued") \/ t \in released'
    BY <1>2, <1>4 DEF CommitRelease, CommitUpdate, HasStatus, Exists
  <1> QED BY <1>2, <1>3, <1>4 DEF StoreStep, TaskStoreTypeOK

LEMMA AbandonStore ==
  ASSUME IndInv, NEW th \in Threads, AbandonUpdate(th)
  PROVE  StoreStep(th)
  BY AbandonType DEF StoreStep, IndInv, TypeOK, HasStatus, Exists

LEMMA RequestPreserves ==
  ASSUME IndInv, RequestStep
  PROVE  IndInv'
  <1>1. PICK r \in Requesters : RequesterThread(r)
    BY DEF RequestStep
  <1>2. UNCHANGED <<workerVars, ctlVars, schedulerVars, crashes, dec>>
    BY <1>1
       DEF RequestStep, RequesterThread, BeginRequest, BeginScopeRequest, WriteApproval,

           WriteInterrupt, BeginWaiting, WriteWaiting, RequestRaises
  <1>3. StoreStep(r) /\ ApprovalTypeOK' /\ RequestInv'
        /\ \A a \in ApprovalIds : approvalTask'[a] = approvalTask[a] \/ approvalTask'[a] \in TaskIds
    <2> USE DEF ApprovalTypeOK, RequestInv
    <2>0. r \in Threads /\ ApprovalTypeOK /\ RequestInv
      BY ThreadFacts DEF IndInv, TypeOK
    <2>1. CASE \E t \in TaskIds, a \in ApprovalIds : BeginRequest(r, t, a)
      <3>1. PICK t \in TaskIds, a \in ApprovalIds : BeginRequest(r, t, a)
        BY <2>1
      <3>2. StoreStep(r) /\ UNCHANGED upd
        BY <2>0, <3>1, QuietStore DEF BeginRequest, taskVars
      <3> QED BY <2>0, <3>1, <3>2 DEF BeginRequest, recordVars, ResumePoints
    <2>2. CASE \E t \in TaskIds, a \in ApprovalIds : BeginScopeRequest(r, t, a)
      <3>1. PICK t \in TaskIds, a \in ApprovalIds : BeginScopeRequest(r, t, a)
        BY <2>2
      <3>2. StoreStep(r) /\ UNCHANGED upd
        BY <3>1, CreateType DEF BeginScopeRequest, Status, StoreStep
      <3> QED BY <2>0, <3>1, <3>2 DEF BeginScopeRequest, recordVars, ResumePoints
    <2>3. CASE WriteApproval(r) \/ WriteInterrupt(r)
      BY <2>0, <2>3, QuietStore
         DEF WriteApproval, WriteInterrupt, RequestPhase, taskVars
    <2>4. CASE BeginWaiting(r)
      <3> DEFINE new == [tasks[req[r].task] EXCEPT !.status = "waiting_approval",
                                                   !.approval = req[r].approval,
                                                   !.resume = req[r].resume,
                                                   !.approvalStatus = "waiting"]
      <3>1. /\ req[r].task \in TaskIds /\ req[r].approval \in ApprovalIds
            /\ req[r].resume \in ResumePoints
        BY <2>0, <2>4 DEF BeginWaiting, RequestPhase
      <3>2. tasks[req[r].task] \in TaskRecord
        BY <2>4, <3>1
           DEF BeginWaiting, BeginUpdate, Exists, IndInv, TypeOK, TaskStoreTypeOK
      <3>3. new \in TaskRecord /\ new.status = "waiting_approval"
        BY <3>1, <3>2 DEF TaskRecord, Status
      <3>4. BeginUpdate(r, req[r].task, new)
        BY <2>4 DEF BeginWaiting
      <3> HIDE DEF new
      <3>5. StoreStep(r) /\ upd'[r] # None /\ upd'[r].rec.status = "waiting_approval"
        BY <2>0, <3>1, <3>3, <3>4, BeginStore
      <3> QED BY <2>0, <2>4, <3>5, ThreadFacts DEF BeginWaiting, RequestPhase, recordVars, StoreStep
    <2>5. CASE WriteWaiting(r)
      <3>1. StoreStep(r)
        BY <2>0, <2>5, CommitStore DEF WriteWaiting
      <3> QED BY <2>0, <2>5, <3>1, ThreadFacts
              DEF WriteWaiting, NoRequest, recordVars, StoreStep, ResumePoints
    <2>6. CASE RequestRaises(r)
      <3>1. StoreStep(r)
        BY <2>0, <2>6, AbandonStore DEF RequestRaises
      <3> QED BY <2>0, <2>6, <3>1, ThreadFacts
              DEF RequestRaises, NoRequest, recordVars, StoreStep, ResumePoints
    <2> QED BY <1>1, <2>1, <2>2, <2>3, <2>4, <2>5, <2>6 DEF RequesterThread
  <1>4. WorkerTypeOK' /\ SchedulerTypeOK' /\ (crashes \in 0..MaxCrashes)'
    BY <1>2
       DEF IndInv, TypeOK, WorkerTypeOK, SchedulerTypeOK, workerVars, ctlVars,
           schedulerVars
  <1>5. WorkerInv' /\ SchedulerInv' /\ ReleaseInv'
    BY <1>2, <1>3, ThreadFacts, OthersKeep, ReleaseUndisturbed DEF StoreStep, workerVars
  <1>6. DecisionInv'
    BY <1>2, <1>3, ThreadFacts DEF StoreStep, IndInv, DecisionInv
  <1> QED BY <1>3, <1>4, <1>5, <1>6 DEF IndInv, TypeOK, StoreStep

LEMMA DecisionPreserves ==
  ASSUME IndInv, DecisionStep
  PROVE  IndInv'
  <1>1. PICK d \in Deciders : DeciderThread(d)
    BY DEF DecisionStep
  <1>2. UNCHANGED <<workerVars, ctlVars, schedulerVars, crashes, req, approvalTask>>
    BY <1>1
       DEF DecisionStep, DeciderThread, BeginDecision, ReadForResolve, WriteCompleted,
           DeletePending, BeginDecisionUpdate, WriteApproved, WriteDeclined, CheckPostAction,
           EnableScope, BeginMarkCompleted, WriteMarkCompleted, DecisionRaises, recordVars
  <1>3. StoreStep(d) /\ ApprovalTypeOK' /\ DecisionInv'
    <2> USE DEF ApprovalTypeOK, DecisionInv
    <2>0. d \in Threads /\ ApprovalTypeOK /\ DecisionInv
      BY ThreadFacts DEF IndInv, TypeOK
    <2>1. CASE \E a \in ApprovalIds, decision \in Decisions, card \in BOOLEAN :
                 BeginDecision(d, a, decision, card)
      <3>1. PICK a \in ApprovalIds, decision \in Decisions, card \in BOOLEAN :
              BeginDecision(d, a, decision, card)
        BY <2>1
      <3>2. StoreStep(d) /\ UNCHANGED upd
        BY <2>0, <3>1, QuietStore DEF BeginDecision, taskVars
      <3>3. approvalTask[a] \in TaskIds
        BY <2>0, <3>1 DEF BeginDecision, Announced
      <3> QED BY <2>0, <3>1, <3>2, <3>3 DEF BeginDecision, recordVars
    <2>2. CASE ReadForResolve(d) \/ CheckPostAction(d)
      <3>1. StoreStep(d) /\ UNCHANGED upd
        BY <2>0, <2>2, QuietStore DEF ReadForResolve, CheckPostAction, taskVars
      <3>2. UNCHANGED recordVars
        BY <2>2 DEF ReadForResolve, CheckPostAction
      <3>3. \/ dec' = [dec EXCEPT ![d].pc = "complete"] /\ dec[d].pc # "idle"
            \/ dec' = [dec EXCEPT ![d].pc = "enable"] /\ dec[d].pc # "idle"
            \/ dec' = [dec EXCEPT ![d] = NoDecision]
        BY <2>2 DEF ReadForResolve, CheckPostAction
      <3>4. ApprovalTypeOK'
        <4>1. ASSUME NEW p \in {"complete", "enable"}, dec' = [dec EXCEPT ![d].pc = p]
              PROVE  ApprovalTypeOK'
          BY <1>2, <2>0, <3>2, <4>1 DEF recordVars
        <4>2. CASE dec' = [dec EXCEPT ![d] = NoDecision]
          BY <1>2, <2>0, <3>2, <4>2 DEF NoDecision, recordVars
        <4> QED BY <3>3, <4>1, <4>2
      <3>5. DecisionInv'
        BY <1>2, <2>0, <3>1, <3>3 DEF NoDecision
      <3> QED BY <3>1, <3>4, <3>5
    <2>3. CASE WriteCompleted(d) \/ DeletePending(d) \/ EnableScope(d)
      <3>1. StoreStep(d) /\ UNCHANGED upd
        BY <2>0, <2>3, QuietStore
           DEF WriteCompleted, DeletePending, EnableScope, taskVars
      <3>2. CASE WriteCompleted(d)
        BY <2>0, <3>1, <3>2 DEF WriteCompleted, DecisionPhase
      <3>3. CASE DeletePending(d)
        BY <2>0, <3>1, <3>3 DEF DeletePending, DecisionPhase
      <3>4. CASE EnableScope(d)
        BY <2>0, <3>1, <3>4 DEF EnableScope, DecisionPhase
      <3> QED BY <2>3, <3>2, <3>3, <3>4
    <2>4. CASE BeginDecisionUpdate(d)
      <3> DEFINE a == dec[d].approval
                 t == approvalTask[a]
                 new == [tasks[t] EXCEPT !.status = StatusAfter(dec[d].decision),
                                         !.approval = a,
                                         !.approvalStatus = dec[d].decision]
      <3>1. a \in ApprovalIds /\ t \in TaskIds /\ dec[d].decision \in Decisions
        BY <2>0, <2>4 DEF BeginDecisionUpdate, DecisionPhase
      <3>2. StatusAfter(dec[d].decision) \in Status
        BY <3>1 DEF StatusAfter, Decisions, Status
      <3>3. BeginUpdate(d, t, new)
        BY <2>4 DEF BeginDecisionUpdate
      <3>4. tasks[t] \in TaskRecord
        BY <3>1, <3>3 DEF BeginUpdate, Exists, IndInv, TypeOK, TaskStoreTypeOK
      <3>5. new \in TaskRecord /\ new.status = StatusAfter(dec[d].decision)
        BY <3>1, <3>2, <3>4 DEF TaskRecord
      <3> HIDE DEF new
      <3>6. StoreStep(d) /\ upd'[d] # None /\ upd'[d].rec.status = StatusAfter(dec[d].decision)
        BY <2>0, <3>1, <3>3, <3>5, BeginStore
      <3> QED BY <2>0, <2>4, <3>6, ThreadFacts
              DEF BeginDecisionUpdate, DecisionPhase, recordVars, StoreStep
    <2>5. CASE WriteApproved(d)
      <3>1. StoreStep(d)
        BY <2>0, <2>5, CommitStore DEF WriteApproved
      <3>2. grants' \in [ApprovalIds -> Nat]
        BY <2>0, <2>5 DEF WriteApproved
      <3> QED BY <2>0, <2>5, <3>1, <3>2, ThreadFacts DEF WriteApproved, NoDecision, StoreStep
    <2>6. CASE WriteDeclined(d) \/ WriteMarkCompleted(d)
      <3>1. upd[d] # None /\ CommitUpdate(d) /\ upd[d].rec.status # "queued"
        BY <2>0, <2>6 DEF WriteDeclined, WriteMarkCompleted, StatusAfter, Decisions
      <3>2. StoreStep(d)
        BY <2>0, <3>1, CommitStore
      <3>3. UNCHANGED recordVars /\ dec' = [dec EXCEPT ![d] = NoDecision]
        BY <2>6 DEF WriteDeclined, WriteMarkCompleted
      <3>4. ApprovalTypeOK'
        BY <1>2, <2>0, <3>3 DEF NoDecision, recordVars
      <3>5. DecisionInv'
        BY <1>2, <2>0, <3>2, <3>3, ThreadFacts DEF NoDecision, StoreStep
      <3> QED BY <3>2, <3>4, <3>5
    <2>7. CASE BeginMarkCompleted(d)
      <3> DEFINE a == dec[d].approval
                 t == approvalTask[a]
                 new == [tasks[t] EXCEPT !.status = "completed",
                                         !.approval = a,
                                         !.approvalStatus = "approved"]
      <3>1. a \in ApprovalIds /\ t \in TaskIds
        BY <2>0, <2>7 DEF BeginMarkCompleted, DecisionPhase
      <3>2. BeginUpdate(d, t, new)
        BY <2>7 DEF BeginMarkCompleted
      <3>3. tasks[t] \in TaskRecord
        BY <3>1, <3>2 DEF BeginUpdate, Exists, IndInv, TypeOK, TaskStoreTypeOK
      <3>4. new \in TaskRecord /\ new.status = "completed"
        BY <3>1, <3>3 DEF TaskRecord, Status, Decisions
      <3> HIDE DEF new
      <3>5. StoreStep(d) /\ upd'[d] # None /\ upd'[d].rec.status = "completed"
        BY <2>0, <3>1, <3>2, <3>4, BeginStore
      <3> QED BY <2>0, <2>7, <3>5, ThreadFacts
              DEF BeginMarkCompleted, DecisionPhase, recordVars, StoreStep
    <2>8. CASE DecisionRaises(d)
      <3>1. StoreStep(d)
        BY <2>0, <2>8, AbandonStore DEF DecisionRaises
      <3> QED BY <2>0, <2>8, <3>1, ThreadFacts
              DEF DecisionRaises, NoDecision, recordVars, StoreStep
    <2> QED BY <1>1, <2>1, <2>2, <2>3, <2>4, <2>5, <2>6, <2>7, <2>8 DEF DeciderThread
  <1>4. WorkerTypeOK' /\ SchedulerTypeOK' /\ (crashes \in 0..MaxCrashes)'
    BY <1>2
       DEF IndInv, TypeOK, WorkerTypeOK, SchedulerTypeOK, workerVars, ctlVars,
           schedulerVars
  <1>5. WorkerInv' /\ SchedulerInv' /\ ReleaseInv'
    BY <1>2, <1>3, ThreadFacts, OthersKeep, ReleaseUndisturbed DEF StoreStep, workerVars
  <1>6. RequestInv'
    BY <1>2, <1>3, ThreadFacts DEF StoreStep, IndInv, RequestInv
  <1> QED BY <1>3, <1>4, <1>5, <1>6 DEF IndInv, TypeOK, StoreStep

LEMMA CrashPreserves ==
  ASSUME IndInv, CrashAndRestart
  PROVE  IndInv'
  <1>1. TaskStoreTypeOK' /\ SchedulerTypeOK' /\ SchedulerInv'
    BY DEF CrashAndRestart, Rest, IndInv, TypeOK, TaskStoreTypeOK, SchedulerTypeOK,
           SchedulerInv
  <1>2. WorkerTypeOK'
    <2>1. queue' \in Seq(TaskIds \cup {Stop})
      BY DEF CrashAndRestart
    <2>2. (stops \in 0..MaxStops)'
      BY DEF CrashAndRestart, IndInv, TypeOK, WorkerTypeOK
    <2> QED BY <2>1, <2>2 DEF CrashAndRestart, WorkerTypeOK, WorkerPhases
  <1>6. WorkerInv'
    BY DEF CrashAndRestart, WorkerInv, Busy, TryPhases, FailPhases
  <1>3. ApprovalTypeOK' /\ RequestInv' /\ DecisionInv'
    BY DEF CrashAndRestart, IndInv, TypeOK, ApprovalTypeOK, RequestInv, DecisionInv,
           NoRequest, NoDecision, recordVars, ResumePoints
  <1>4. ReleaseInv'
    BY DEF CrashAndRestart, IndInv, ReleaseInv, HasStatus, Exists
  <1>5. crashes' \in 0..MaxCrashes
    BY LifecycleAssumption DEF CrashAndRestart, IndInv, TypeOK
  <1> QED BY <1>1, <1>2, <1>3, <1>4, <1>5, <1>6 DEF IndInv, TypeOK

-----------------------------------------------------------------------------
LEMMA InitInv == Init => IndInv
  <1> SUFFICES ASSUME Init PROVE IndInv
    OBVIOUS
  <1>1. TaskStoreTypeOK /\ SchedulerTypeOK /\ SchedulerInv
    BY DEF Init, TaskStoreInit, SchedulerInit, TaskStoreTypeOK, SchedulerTypeOK,
           SchedulerInv
  <1>2. WorkerTypeOK
    <2>1. stops \in 0..MaxStops
      BY WorkerAssumption DEF Init, WorkerInit
    <2>2. queue \in Seq(TaskIds \cup {Stop})
      BY DEF Init, WorkerInit
    <2> QED BY <2>1, <2>2 DEF Init, WorkerInit, WorkerTypeOK, WorkerPhases
  <1>6. WorkerInv
    BY DEF Init, WorkerInit, WorkerInv, Busy, TryPhases, FailPhases
  <1>3. ApprovalTypeOK /\ RequestInv /\ DecisionInv
    BY DEF Init, ApprovalInit, ApprovalTypeOK, RequestInv, DecisionInv, NoRequest,
           NoDecision,
           ResumePoints
  <1>4. ReleaseInv
    BY DEF Init, TaskStoreInit, WorkerInit, ReleaseInv, HasStatus, Exists
  <1>5. crashes \in 0..MaxCrashes
    BY LifecycleAssumption DEF Init
  <1> QED BY <1>1, <1>2, <1>3, <1>4, <1>5, <1>6 DEF IndInv, TypeOK

LEMMA NextInv == IndInv /\ [Next]_vars => IndInv'
  <1> SUFFICES ASSUME IndInv, [Next]_vars PROVE IndInv'
    OBVIOUS
  <1>1. CASE Next
    BY <1>1, AgentPreserves, TimePreserves, WorkerPreserves, ControlPreserves,
       SchedulerPreserves, RequestPreserves, DecisionPreserves, CrashPreserves DEF Next
  <1>2. CASE UNCHANGED vars
    <2>1. TypeOK'
      BY <1>2
         DEF vars, taskVars, workerVars, ctlVars, schedulerVars, approvalVars, IndInv,
             TypeOK, TaskStoreTypeOK, WorkerTypeOK, SchedulerTypeOK, ApprovalTypeOK
    <2>2. WorkerInv' /\ SchedulerInv' /\ RequestInv' /\ DecisionInv' /\ ReleaseInv'
      BY <1>2
         DEF vars, taskVars, workerVars, ctlVars, schedulerVars, approvalVars, IndInv,
             WorkerInv, SchedulerInv, RequestInv, DecisionInv, ReleaseInv, HasStatus, Exists
    <2> QED BY <2>1, <2>2 DEF IndInv
  <1> QED BY <1>1, <1>2

THEOREM Invariance == Spec => []IndInv
  BY InitInv, NextInv, PTL DEF Spec

(* Every variable keeps its type, whatever the number of tasks, threads    *)
(* and approvals and whatever fails.                                       *)
THEOREM TypeCorrect == Spec => []TypeOK
  BY Invariance, PTL DEF IndInv

-----------------------------------------------------------------------------
(* The refinement: the worker runs only what was released.                 *)

LEMMA GateInit == Init => Gate!Init
  BY DEF Init, TaskStoreInit, WorkerInit, Gate!Init

LEMMA GateStep == IndInv /\ [Next]_vars => [Gate!Next]_(Gate!gateVars)
  <1> SUFFICES ASSUME IndInv, [Next]_vars PROVE [Gate!Next]_(Gate!gateVars)
    OBVIOUS
  <1> DEFINE executing == IF wpc = "running" THEN item ELSE None
  <1>1. ASSUME UNCHANGED executing,
               UNCHANGED released \/ \E t \in TaskIds : released' = released \cup {t}
        PROVE  [Gate!Next]_(Gate!gateVars)
    BY <1>1 DEF Gate!Next, Gate!Release, Gate!gateVars
  <1>2. ASSUME UNCHANGED released, wpc' # "running"
        PROVE  [Gate!Next]_(Gate!gateVars)
    BY <1>2 DEF Gate!Next, Gate!End, Gate!gateVars
  <1>3. CASE UNCHANGED vars
    BY <1>1, <1>3 DEF vars, taskVars, workerVars
  <1>4. CASE WorkerStep
    <2>1. CASE WriteRunning
      <3>1. /\ item \in TaskIds /\ item \in released /\ wpc # "running"
            /\ released' = released \ {item} /\ wpc' = "running" /\ item' = item
        BY <2>1
           DEF WriteRunning, CommitRun, IndInv, WorkerInv, ReleaseInv, Busy, TryPhases
      <3> QED BY <3>1 DEF Gate!Next, Gate!Start
    <2>2. CASE QuietWorkerStep
      BY <1>2, <2>2
         DEF QuietWorkerStep, LeaveOnStop, StartScan, SkipScan, EndScan, ScanRaises,
             ScanEnqueue, GetTimesOut, GetSentinel, GetItem, Claim, HandlerRaises,
             HandlerReturns, SkipFeedback, FeedbackSynced, FailSynced, Finish, taskVars
    <2>3. CASE BeginRunning \/ BeginApply \/ BeginFeedback \/ BeginFail
      BY <1>2, <2>3 DEF BeginRunning, BeginApply, BeginFeedback, BeginFail, BeginUpdate
    <2>4. CASE WriteOutcome \/ WriteFeedback \/ WriteFailed
      BY <1>2, <2>4 DEF WriteOutcome, WriteFeedback, WriteFailed, CommitUpdate
    <2>5. CASE ProcessRaises \/ FailRaises
      BY <1>2, <2>5 DEF ProcessRaises, FailRaises, AbandonUpdate
    <2> QED BY <1>4, <2>1, <2>2, <2>3, <2>4, <2>5 DEF WorkerStep, WorkerThread, QuietWorkerStep
  <1>5. CASE AgentCreatesTask
    BY <1>1, <1>5
       DEF AgentCreatesTask, CreateAsyncTask, CreateScheduledTask, CreateAs, workerVars
  <1>6. CASE TimePasses \/ ControlStep
    BY <1>1, <1>6
       DEF TimePasses, TimeArrives, ControlStep, WorkerControl, StartWorker, BeginStop,
           SetStopEvent, PutSentinel, EndStop, Alive, taskVars, workerVars
  <1>7. CASE SchedulerStep
    <2>1. UNCHANGED executing
      BY <1>7
         DEF SchedulerStep, SchedulerThread, ScanDueTasks, BeginDispatch, WriteQueued,
             DispatchToWorker, DispatchRefused, SchedulerRaises, workerVars
    <2>2. UNCHANGED released \/ \E t \in TaskIds : released' = released \cup {t}
      <3>1. CASE WriteQueued
        BY <3>1, ThreadFacts
           DEF WriteQueued, CommitRelease, IndInv, TypeOK, TaskStoreTypeOK,
               SchedulerInv, Update
      <3>2. CASE ~WriteQueued
        BY <1>7, <3>2 DEF SchedulerStep, SchedulerThread, ScanDueTasks, BeginDispatch,
               BeginUpdate, DispatchToWorker, DispatchRefused, SchedulerRaises, AbandonUpdate,
               taskVars
      <3> QED BY <3>1, <3>2
    <2> QED BY <1>1, <2>1, <2>2
  <1>8. CASE RequestStep
    BY <1>1, <1>8
       DEF RequestStep, RequesterThread, BeginRequest, BeginScopeRequest, CreateAs,
           WriteApproval, WriteInterrupt, BeginWaiting, BeginUpdate, WriteWaiting, CommitUpdate,
           RequestRaises, AbandonUpdate, taskVars, workerVars
  <1>9. CASE DecisionStep
    <2>1. UNCHANGED executing
      BY <1>9 DEF DecisionStep, workerVars
    <2>2. PICK d \in Deciders : DeciderThread(d)
      BY <1>9 DEF DecisionStep
    <2>3. CASE WriteApproved(d)
      <3>1. upd[d].task \in TaskIds
        BY <2>3, ThreadFacts
           DEF WriteApproved, IndInv, TypeOK, TaskStoreTypeOK, DecisionInv, Update
      <3> QED BY <1>1, <2>1, <2>3, <3>1 DEF WriteApproved, CommitRelease
    <2>4. CASE ~WriteApproved(d)
      <3>1. UNCHANGED released
        BY <2>2, <2>4 DEF DeciderThread, BeginDecision, ReadForResolve, WriteCompleted,
               DeletePending, BeginDecisionUpdate, WriteDeclined, CheckPostAction, EnableScope,
               BeginMarkCompleted, WriteMarkCompleted, DecisionRaises, BeginUpdate, CommitUpdate,
               AbandonUpdate, taskVars
      <3> QED BY <1>1, <2>1, <3>1
    <2> QED BY <2>3, <2>4
  <1>10. CASE CrashAndRestart
    BY <1>2, <1>10 DEF CrashAndRestart
  <1> QED BY <1>3, <1>4, <1>5, <1>6, <1>7, <1>8, <1>9, <1>10 DEF Next

(* The task subsystem implements ExecutionGate: a task is run only after   *)
(* it was made runnable, each release is good for one run, and one task    *)
(* runs at a time, through every interleaving, exception, stop and crash.  *)
THEOREM Refinement == Spec => GateSpec
  <1>1. Init => Gate!Init
    BY GateInit
  <1>2. IndInv /\ [Next]_vars => [Gate!Next]_(Gate!gateVars)
    BY GateStep
  <1> QED BY <1>1, <1>2, Invariance, PTL DEF Spec, GateSpec, Gate!Spec

-----------------------------------------------------------------------------
(* One work item per task. *)

LEMMA AppendFacts ==
  ASSUME NEW q \in Seq(TaskIds \cup {Stop}), NEW e \in TaskIds \cup {Stop}
  PROVE  /\ Append(q, e) \in Seq(TaskIds \cup {Stop})
         /\ Len(q) \in Nat /\ DOMAIN q = 1..Len(q)
         /\ DOMAIN Append(q, e) = 1..(Len(q) + 1)
         /\ Append(q, e)[Len(q) + 1] = e
         /\ \A i \in 1..Len(q) : Append(q, e)[i] = q[i]
  OBVIOUS

LEMMA TailFacts ==
  ASSUME NEW q \in Seq(TaskIds \cup {Stop}), q # << >>
  PROVE  /\ Len(q) \in Nat \ {0} /\ DOMAIN q = 1..Len(q)
         /\ Head(q) = q[1] /\ 1 \in DOMAIN q
         /\ DOMAIN Tail(q) = 1..(Len(q) - 1)
         /\ \A i \in 1..(Len(q) - 1) : Tail(q)[i] = q[i + 1] /\ i + 1 \in DOMAIN q
         /\ \A j \in DOMAIN q : j = 1 \/ (j - 1 \in DOMAIN Tail(q) /\ Tail(q)[j - 1] = q[j])
  OBVIOUS

LEMMA HeldUnchanged ==
  ASSUME HeldOnce, UNCHANGED <<queue, queuedBy, item>>
  PROVE  HeldOnce'
  BY DEF HeldOnce, Held

LEMMA EnqueueHeld ==
  ASSUME IndInv, HeldOnce, NEW t \in TaskIds, Enqueue(t), UNCHANGED item
  PROVE  HeldOnce'
  <1>1. CASE t \in queuedBy
    BY <1>1, HeldUnchanged DEF Enqueue
  <1>2. CASE t \notin queuedBy
    <2>1. queue' = Append(queue, t) /\ queuedBy' = queuedBy \cup {t} /\ t \notin Held
      BY <1>2 DEF Enqueue, HeldOnce
    <2>2. /\ Len(queue) \in Nat /\ DOMAIN queue = 1..Len(queue)
          /\ DOMAIN queue' = 1..(Len(queue) + 1) /\ queue'[Len(queue) + 1] = t
          /\ \A i \in DOMAIN queue : queue'[i] = queue[i]
      BY <2>1, AppendFacts DEF IndInv, TypeOK, WorkerTypeOK
    <2>3. item # t /\ \A i \in DOMAIN queue : queue[i] # t
      BY <2>1 DEF Held
    <2>4. \A i, j \in DOMAIN queue' : queue'[i] = queue'[j] => i = j \/ queue'[i] = Stop
      BY <2>2, <2>3 DEF HeldOnce
    <2>5. \A i \in DOMAIN queue' : queue'[i] # item'
      BY <2>2, <2>3 DEF HeldOnce
    <2>6. Held' = Held \cup {t}
      BY <2>2 DEF Held
    <2> QED BY <2>1, <2>4, <2>5, <2>6 DEF HeldOnce
  <1> QED BY <1>1, <1>2

LEMMA SentinelHeld ==
  ASSUME IndInv, HeldOnce, PutSentinel
  PROVE  HeldOnce'
  <1>1. queue' = Append(queue, Stop) /\ UNCHANGED <<queuedBy, item>>
    BY DEF PutSentinel
  <1>2. /\ Len(queue) \in Nat /\ DOMAIN queue = 1..Len(queue)
        /\ DOMAIN queue' = 1..(Len(queue) + 1) /\ queue'[Len(queue) + 1] = Stop
        /\ \A i \in DOMAIN queue : queue'[i] = queue[i]
    BY <1>1, AppendFacts DEF IndInv, TypeOK, WorkerTypeOK
  <1>3. item # Stop /\ Stop \notin TaskIds
    BY WorkerAssumption DEF IndInv, TypeOK, WorkerTypeOK
  <1>4. Held' = Held
    BY <1>1, <1>2, <1>3 DEF Held
  <1>5. \A i, j \in DOMAIN queue' : queue'[i] = queue'[j] => i = j \/ queue'[i] = Stop
    BY <1>2 DEF HeldOnce
  <1>6. \A i \in DOMAIN queue' : queue'[i] # item'
    BY <1>1, <1>2, <1>3 DEF HeldOnce
  <1> QED BY <1>1, <1>4, <1>5, <1>6 DEF HeldOnce

LEMMA GetHeld ==
  ASSUME IndInv, HeldOnce, GetItem \/ GetSentinel
  PROVE  HeldOnce'
  <1>1. /\ queue # << >> /\ queue' = Tail(queue) /\ UNCHANGED queuedBy /\ item = None
        /\ \/ Head(queue) # Stop /\ item' = Head(queue)
           \/ Head(queue) = Stop /\ item' = None
    BY DEF GetItem, GetSentinel, IndInv, WorkerInv, Busy, TryPhases, FailPhases
  <1>2. /\ Len(queue) \in Nat \ {0} /\ DOMAIN queue = 1..Len(queue)
        /\ Head(queue) = queue[1] /\ 1 \in DOMAIN queue
        /\ DOMAIN queue' = 1..(Len(queue) - 1)
        /\ \A i \in DOMAIN queue' : queue'[i] = queue[i + 1] /\ i + 1 \in DOMAIN queue
        /\ \A j \in DOMAIN queue :
             j = 1 \/ (j - 1 \in DOMAIN queue' /\ queue'[j - 1] = queue[j])
    BY <1>1, TailFacts DEF IndInv, TypeOK, WorkerTypeOK
  <1>3. None \notin TaskIds /\ Stop \notin TaskIds /\ Stop # None
    BY TaskStoreAssumption, WorkerAssumption
  <1>4. Held' = Held
    <2>1. ASSUME NEW t \in TaskIds, t \in Held PROVE t \in Held'
      BY <1>1, <1>2, <1>3, <2>1 DEF Held
    <2>2. ASSUME NEW t \in TaskIds, t \in Held' PROVE t \in Held
      BY <1>1, <1>2, <1>3, <2>2 DEF Held
    <2> QED BY <2>1, <2>2 DEF Held
  <1>5. \A i, j \in DOMAIN queue' : queue'[i] = queue'[j] => i = j \/ queue'[i] = Stop
    BY <1>2 DEF HeldOnce
  <1>6. \A i \in DOMAIN queue' : queue'[i] # item'
    <2>1. CASE Head(queue) # Stop
      BY <1>1, <1>2, <2>1 DEF HeldOnce
    <2>2. CASE Head(queue) = Stop
      BY <1>1, <1>2, <2>2 DEF HeldOnce
    <2> QED BY <2>1, <2>2
  <1> QED BY <1>1, <1>4, <1>5, <1>6 DEF HeldOnce

LEMMA FinishHeld ==
  ASSUME IndInv, HeldOnce, Finish \/ FailRaises
  PROVE  HeldOnce'
  <1>1. /\ UNCHANGED queue /\ item' = None /\ item \in TaskIds /\ None \notin TaskIds
        /\ queuedBy' = queuedBy \ {item} \/ (Faults /\ UNCHANGED queuedBy)
    BY TaskStoreAssumption
       DEF Finish, FailRaises, KeepQueue, IndInv, WorkerInv, Busy, FailPhases
  <1>2. Held' = Held \ {item}
    BY <1>1 DEF Held, HeldOnce
  <1>3. \A i \in DOMAIN queue : queue[i] # None
    BY <1>1, WorkerAssumption DEF IndInv, TypeOK, WorkerTypeOK
  <1> QED BY <1>1, <1>2, <1>3 DEF HeldOnce

LEMMA HeldInit == Init => HeldOnce
  BY TaskStoreAssumption DEF Init, WorkerInit, HeldOnce, Held

LEMMA HeldStep == IndInv /\ HeldOnce /\ [Next]_vars => HeldOnce'
  <1> SUFFICES ASSUME IndInv, HeldOnce, [Next]_vars PROVE HeldOnce'
    OBVIOUS
  <1>1. CASE UNCHANGED <<queue, queuedBy, item>>
    BY <1>1, HeldUnchanged
  <1>2. CASE WorkerStep
    <2>1. CASE \E t \in TaskIds : ScanEnqueue(t)
      BY <2>1, EnqueueHeld DEF ScanEnqueue
    <2>2. CASE GetItem \/ GetSentinel
      BY <2>2, GetHeld
    <2>3. CASE Finish \/ FailRaises
      BY <2>3, FinishHeld
    <2>4. CASE ~(\E t \in TaskIds : ScanEnqueue(t)) /\ ~GetItem /\ ~GetSentinel
               /\ ~Finish /\ ~FailRaises
      BY <1>1, <1>2, <2>4
         DEF WorkerStep, WorkerThread, LeaveOnStop, StartScan, SkipScan, EndScan, ScanRaises,
             GetTimesOut, Claim, BeginRunning, WriteRunning, HandlerReturns, HandlerRaises,
             BeginApply, WriteOutcome, SkipFeedback, BeginFeedback, WriteFeedback,
             FeedbackSynced, ProcessRaises, BeginFail, WriteFailed, FailSynced, KeepQueue
    <2> QED BY <2>1, <2>2, <2>3, <2>4
  <1>3. CASE ControlStep
    BY <1>1, <1>3, SentinelHeld
       DEF ControlStep, WorkerControl, StartWorker, BeginStop, SetStopEvent, EndStop, workerVars
  <1>4. CASE SchedulerStep
    <2>1. CASE DispatchToWorker
      BY <2>1, EnqueueHeld DEF DispatchToWorker, IndInv, SchedulerInv
    <2>2. CASE ~DispatchToWorker
      BY <1>1, <1>4, <2>2
         DEF SchedulerStep, SchedulerThread, ScanDueTasks, BeginDispatch,
             WriteQueued, DispatchRefused, SchedulerRaises, workerVars
    <2> QED BY <2>1, <2>2
  <1>5. CASE CrashAndRestart
    BY <1>5, TaskStoreAssumption DEF CrashAndRestart, HeldOnce, Held
  <1>6. CASE AgentCreatesTask \/ TimePasses \/ RequestStep \/ DecisionStep \/ UNCHANGED vars
    BY <1>1, <1>6
       DEF AgentCreatesTask, TimePasses, TimeArrives, RequestStep, DecisionStep, vars,
           workerVars
  <1> QED BY <1>2, <1>3, <1>4, <1>5, <1>6 DEF Next

(* However many tasks there are and however the ready scan, the scheduler, *)
(* stops, starts, exceptions and crashes interleave, the worker holds one  *)
(* work item per task, and its map holds the tasks that have one.          *)
THEOREM OneWorkItem == Spec => []HeldOnce
  <1>1. Init => HeldOnce
    BY HeldInit
  <1>2. IndInv /\ HeldOnce /\ [Next]_vars => HeldOnce'
    BY HeldStep
  <1> QED BY <1>1, <1>2, Invariance, PTL DEF Spec
-----------------------------------------------------------------------------
(* Decisions, as long as no two threads decide one approval at once.       *)

\* None is not the name of anything (TaskStoreAssumption).
LEMMA NoneApart == None \notin TaskIds /\ None \notin ApprovalIds /\ None \notin Decisions
  BY TaskStoreAssumption, NoneAssumption

\* The types that the proofs below use over and over.
LEMMA DecisionTypes ==
  ASSUME IndInv
  PROVE  /\ pending \subseteq ApprovalIds
         /\ completed \in [ApprovalIds -> Decisions \cup {None}]
         /\ approvalTask \in [ApprovalIds -> TaskIds \cup {None}]
         /\ grants \in [ApprovalIds -> Nat]
         /\ \A d \in Deciders : dec[d].pc # "idle" =>
              /\ dec[d].approval \in ApprovalIds
              /\ dec[d].decision \in Decisions
              /\ approvalTask[dec[d].approval] \in TaskIds
         /\ \A r \in Requesters : req[r].pc # "idle" =>
              req[r].task \in TaskIds /\ req[r].approval \in ApprovalIds
  BY DEF IndInv, TypeOK, ApprovalTypeOK, DecisionInv, RequestInv

\* A step that leaves the records, the requesters, the deciders and their
\* updates alone.
LEMMA DecidedUndisturbed ==
  ASSUME IndInv, DecidedInv, UNCHANGED <<approvalVars, crashes>>,
         \A d \in Deciders : upd'[d] = upd[d],
         HourInv'
  PROVE  DecidedInv'
  <1>1. RecordInv' /\ OpenInv' /\ ScopeNeedsApproval'
    BY DEF DecidedInv, RecordInv, OpenInv, ScopeNeedsApproval, approvalVars
  <1>2. PhaseInv'
    BY DEF DecidedInv, PhaseInv, PhaseOf, approvalVars
  <1>3. AppliedInv'
    BY DEF DecidedInv, AppliedInv, Undisturbed, Settled, Progress, approvalVars
  <1> QED BY <1>1, <1>2, <1>3 DEF DecidedInv

LEMMA DecidedInit == Init => DecidedInv
  <1> SUFFICES ASSUME Init PROVE DecidedInv
    OBVIOUS
  <1>1. RecordInv /\ OpenInv
    BY DEF Init, ApprovalInit, RecordInv, OpenInv, NoRequest
  <1>2. PhaseInv
    BY DEF Init, ApprovalInit, PhaseInv, PhaseOf, NoDecision, Deciding, Applying,
           Enabling
  <1>3. AppliedInv
    BY DEF Init, ApprovalInit, AppliedInv, Settled, Progress, NoDecision, Enabling
  <1>4. ScopeNeedsApproval /\ HourInv
    BY DEF Init, ApprovalInit, SchedulerInit, ScopeNeedsApproval, HourInv
  <1> QED BY <1>1, <1>2, <1>3, <1>4 DEF DecidedInv

\* The steps of the threads that neither request nor decide.
LEMMA OtherThreadsDecided ==
  ASSUME IndInv, DecidedInv,
         AgentCreatesTask \/ TimePasses \/ WorkerStep \/ ControlStep \/ SchedulerStep
  PROVE  DecidedInv'
  <1>1. UNCHANGED <<approvalVars, crashes>>
    BY DEF AgentCreatesTask, TimePasses, WorkerStep, ControlStep, SchedulerStep
  <1>2. CASE AgentCreatesTask
    <2>1. UNCHANGED <<upd, due, arrived, spc>>
      BY <1>2
         DEF AgentCreatesTask, CreateAsyncTask, CreateScheduledTask, CreateAs,
             schedulerVars
    <2>2. HourInv'
      BY <2>1 DEF DecidedInv, HourInv
    <2> QED BY <1>1, <2>1, <2>2, DecidedUndisturbed
  <1>3. CASE TimePasses
    <2>1. UNCHANGED <<upd, due, spc>> /\ arrived \subseteq arrived'
      BY <1>3 DEF TimePasses, TimeArrives, taskVars
    <2>2. HourInv'
      BY <2>1 DEF DecidedInv, HourInv
    <2> QED BY <1>1, <2>1, <2>2, DecidedUndisturbed
  <1>4. CASE WorkerStep
    <2>1. \A o \in Threads \ {Worker} : upd'[o] = upd[o]
      <3>1. UNCHANGED ctlVars
        BY <1>4 DEF WorkerStep
      <3>2. CASE QuietWorkerStep
        BY <3>1, <3>2, QuietWorkerPreserves DEF taskVars
      <3>3. CASE ~QuietWorkerStep
        BY <1>4, <3>1, <3>3, WorkerBegins, WorkerWrites, WorkerRaises
           DEF WorkerStep, WorkerThread, QuietWorkerStep
      <3> QED BY <3>2, <3>3
    <2>2. HourInv'
      BY <1>4, <2>1, ThreadFacts DEF WorkerStep, schedulerVars, DecidedInv, HourInv
    <2> QED BY <1>1, <2>1, <2>2, ThreadFacts, DecidedUndisturbed
  <1>5. CASE ControlStep
    <2>1. UNCHANGED <<taskVars, schedulerVars>>
      BY <1>5
         DEF ControlStep, WorkerControl, StartWorker, BeginStop, SetStopEvent,
             PutSentinel,
             EndStop
    <2>2. HourInv'
      BY <2>1 DEF taskVars, schedulerVars, DecidedInv, HourInv
    <2> QED BY <1>1, <2>1, <2>2, DecidedUndisturbed DEF taskVars
  <1>6. CASE SchedulerStep
    <2>1. SchedulerThread /\ due \subseteq arrived /\ upd \in [Threads -> Update \cup {None}]
      BY <1>6 DEF SchedulerStep, DecidedInv, HourInv, IndInv, TypeOK, TaskStoreTypeOK
    <2>2. (\A o \in Threads \ {Scheduler} : upd'[o] = upd[o]) /\ HourInv'
      <3>1. CASE ScanDueTasks
        BY <2>1, <3>1 DEF ScanDueTasks, taskVars, HourInv, IsDueScheduledTask
      <3>2. CASE \E t \in TaskIds : BeginDispatch(t)
        BY <2>1, <3>2, ThreadFacts DEF BeginDispatch, BeginUpdate, HourInv
      <3>3. CASE WriteQueued
        BY <2>1, <3>3, ThreadFacts DEF WriteQueued, CommitRelease, WriteBack, HourInv
      <3>4. CASE DispatchToWorker \/ DispatchRefused
        BY <2>1, <3>4 DEF DispatchToWorker, DispatchRefused, Rest, taskVars, HourInv
      <3>5. CASE SchedulerRaises
        BY <2>1, <3>5, ThreadFacts DEF SchedulerRaises, AbandonUpdate, Rest, HourInv
      <3> QED BY <2>1, <3>1, <3>2, <3>3, <3>4, <3>5 DEF SchedulerThread
    <2> QED BY <1>1, <2>2, ThreadFacts, DecidedUndisturbed
  <1> QED BY <1>2, <1>3, <1>4, <1>5, <1>6

\* The updates of the other threads, and the hour of the scheduler's task.
LEMMA ServiceStore ==
  ASSUME IndInv, DecidedInv, NEW th \in Requesters \cup Deciders, UNCHANGED schedulerVars,
         \/ UNCHANGED upd
         \/ \E v : upd' = [upd EXCEPT ![th] = v]
  PROVE  HourInv' /\ \A o \in Threads \ {th} : upd'[o] = upd[o]
  <1>1. \A o \in Threads \ {th} : upd'[o] = upd[o]
    BY DEF IndInv, TypeOK, TaskStoreTypeOK
  <1>2. th # Scheduler /\ Scheduler \in Threads
    BY ThreadFacts
  <1> QED BY <1>1, <1>2 DEF schedulerVars, DecidedInv, HourInv

LEMMA RequestDecided ==
  ASSUME IndInv, DecidedInv, RequestStep
  PROVE  DecidedInv'
  <1>1. PICK r \in Requesters : RequesterThread(r)
    BY DEF RequestStep
  <1>2. UNCHANGED <<schedulerVars, crashes, completed, scopeEnabled, dec, grants>>
    BY <1>1
       DEF RequestStep, RequesterThread, BeginRequest, BeginScopeRequest, WriteApproval,

           WriteInterrupt, BeginWaiting, WriteWaiting, RequestRaises, recordVars
  <1>3. HourInv' /\ \A d \in Deciders : upd'[d] = upd[d]
    <2>1. UNCHANGED upd \/ \E v : upd' = [upd EXCEPT ![r] = v]
      BY <1>1
         DEF RequesterThread, BeginRequest, BeginScopeRequest, CreateAs, WriteApproval,
             WriteInterrupt, BeginWaiting, BeginUpdate, WriteWaiting, CommitUpdate, WriteBack,
             RequestRaises, AbandonUpdate, taskVars
    <2> QED BY <1>2, <2>1, ThreadFacts, ServiceStore
  <1>4. req \in [Requesters -> [pc : {"idle", "approval", "interrupt", "update", "writing"},
                                task : TaskIds \cup {None}, approval : ApprovalIds \cup {None},
                                resume : ResumePoints]]
    BY DEF IndInv, TypeOK, ApprovalTypeOK
  <1>5. CASE WriteApproval(r)
    <2> DEFINE a == req[r].approval
    <2>1. /\ a \in ApprovalIds /\ req[r].task \in TaskIds /\ approvalTask[a] = None
          /\ approvalTask' = [approvalTask EXCEPT ![a] = req[r].task]
          /\ pending' = pending \cup {a}
          /\ req[r].pc = "approval" /\ req' = [req EXCEPT ![r].pc = "interrupt"]
      BY <1>5, DecisionTypes DEF WriteApproval, RequestPhase, DecidedInv, RecordInv
    <2>2. completed[a] = None /\ grants[a] = 0
      BY <2>1 DEF DecidedInv, RecordInv
    <2>3. \A d \in Deciders : dec[d].approval # a
      BY <2>1, DecisionTypes, NoneApart DEF DecidedInv, PhaseInv, PhaseOf
    <2>4. RecordInv'
      <3>1. ASSUME NEW b \in ApprovalIds
            PROVE  IF approvalTask'[b] = None
                     THEN b \notin pending' /\ completed'[b] = None /\ grants'[b] = 0
                     ELSE b \in pending' \/ completed'[b] # None
        <4>1. CASE b = a
          BY <2>1, <4>1, DecisionTypes, NoneApart
        <4>2. CASE b # a
          BY <1>2, <2>1, <4>2, DecisionTypes DEF DecidedInv, RecordInv
        <4> QED BY <4>1, <4>2
      <3>2. ASSUME NEW q \in Requesters, NEW s \in Requesters, req'[q].pc = "approval"
            PROVE  /\ approvalTask'[req'[q].approval] = None
                   /\ req'[s].pc = "approval" /\ req'[s].approval = req'[q].approval => q = s
        <4>1. q # r /\ req'[q] = req[q]
          BY <1>4, <2>1, <3>2
        <4>2. req[q].approval # a /\ req[q].approval \in ApprovalIds
          BY <2>1, <3>2, <4>1, DecisionTypes DEF DecidedInv, RecordInv
        <4>3. (s # r /\ req'[s] = req[s]) \/ req'[s].pc # "approval"
          BY <1>4, <2>1
        <4> QED BY <2>1, <3>2, <4>1, <4>2, <4>3, DecisionTypes DEF DecidedInv, RecordInv
      <3> QED BY <3>1, <3>2 DEF RecordInv
    <2>5. OpenInv'
      BY <1>2, <2>1, <2>2 DEF DecidedInv, OpenInv
    <2>6. PhaseInv'
      <3>1. \A d \in Deciders : dec[d].pc # "idle" =>
              approvalTask'[dec[d].approval] = approvalTask[dec[d].approval]
        BY <2>1, <2>3, DecisionTypes
      <3> QED BY <1>2, <1>3, <2>1, <2>3, <3>1
              DEF DecidedInv, PhaseInv, PhaseOf, Deciding, Applying, Enabling
    <2>7. AppliedInv'
      BY <1>2, <2>1, <2>2 DEF DecidedInv, AppliedInv, Undisturbed, Settled, Progress
    <2>8. ScopeNeedsApproval'
      <3>1. ASSUME NEW t \in scopeEnabled
            PROVE  \E b \in ApprovalIds :
                     approvalTask'[b] = t /\ b \notin pending' /\ completed'[b] = "approved"
        <4>1. PICK b \in ApprovalIds :
                approvalTask[b] = t /\ b \notin pending /\ completed[b] = "approved"
          BY DEF DecidedInv, ScopeNeedsApproval
        <4>2. b # a
          BY <2>2, <4>1, NoneApart DEF Decisions
        <4>3. approvalTask'[b] = t /\ b \notin pending' /\ completed'[b] = "approved"
          BY <1>2, <2>1, <4>1, <4>2, DecisionTypes
        <4> QED BY <4>3
      <3> QED BY <1>2, <3>1 DEF ScopeNeedsApproval
    <2> QED BY <1>3, <2>4, <2>5, <2>6, <2>7, <2>8 DEF DecidedInv
  <1>6. CASE ~WriteApproval(r)
    <2>1. UNCHANGED <<pending, approvalTask>>
      BY <1>1, <1>6
         DEF RequesterThread, BeginRequest, BeginScopeRequest, WriteInterrupt,
             BeginWaiting, WriteWaiting, RequestRaises, recordVars
    <2>2. OpenInv' /\ PhaseInv' /\ AppliedInv' /\ ScopeNeedsApproval'
      BY <1>2, <1>3, <2>1
         DEF DecidedInv, OpenInv, PhaseInv, PhaseOf, AppliedInv, Settled, Progress, Undisturbed,
             ScopeNeedsApproval
    <2>3. RecordInv'
      <3>1. \A q \in Requesters \ {r} : req'[q] = req[q]
        BY <1>1, <1>4, <1>6
           DEF RequesterThread, BeginRequest, BeginScopeRequest, WriteInterrupt,
               RequestPhase, BeginWaiting, WriteWaiting, RequestRaises
      <3>2. req'[r].pc = "approval" =>
              /\ approvalTask[req'[r].approval] = None
              /\ \A q \in Requesters : req[q].approval # req'[r].approval
        BY <1>1, <1>4, <1>6 DEF RequesterThread, BeginRequest, BeginScopeRequest, Fresh,
               WriteInterrupt, RequestPhase, BeginWaiting, WriteWaiting, RequestRaises, NoRequest
      <3>3. \A a \in ApprovalIds :
              IF approvalTask'[a] = None
                THEN a \notin pending' /\ completed'[a] = None /\ grants'[a] = 0
                ELSE a \in pending' \/ completed'[a] # None
        BY <1>2, <2>1 DEF DecidedInv, RecordInv
      <3>4. ASSUME NEW q \in Requesters, NEW s \in Requesters, req'[q].pc = "approval"
            PROVE  /\ approvalTask'[req'[q].approval] = None
                   /\ req'[s].pc = "approval" /\ req'[s].approval = req'[q].approval => q = s
        BY <2>1, <3>1, <3>2, <3>4 DEF DecidedInv, RecordInv
      <3> QED BY <3>3, <3>4 DEF RecordInv
    <2> QED BY <1>3, <2>2, <2>3 DEF DecidedInv
  <1> QED BY <1>5, <1>6

\* A step of a decider that has begun, in terms of its own approval: the
\* other deciders have other approvals.
LEMMA DecisionLocal ==
  ASSUME IndInv, DecidedInv, DecidedApart, NEW d \in Deciders, NEW a \in ApprovalIds,
         dec[d].pc # "idle", a = dec[d].approval,
         UNCHANGED <<approvalTask, req, crashes, schedulerVars>>,
         UNCHANGED upd \/ \E v : upd' = [upd EXCEPT ![d] = v],
         \A e \in Deciders \ {d} : dec'[e] = dec[e],
         dec'[d].approval = a \/ (dec'[d].approval = None /\ (Undisturbed => Settled(a)')),
         \A b \in ApprovalIds \ {a} :
           /\ b \in pending' <=> b \in pending
           /\ completed'[b] = completed[b] /\ grants'[b] = grants[b],
         a \in pending' \/ completed'[a] # None,
         a \notin pending => a \notin pending' /\ completed'[a] = completed[a],
         grants'[a] <= 1, a \in pending' => grants'[a] = 0,
         PhaseOf(d)', Undisturbed => Progress(d)',
         \/ scopeEnabled' = scopeEnabled
         \/ /\ scopeEnabled' = scopeEnabled \cup {approvalTask[a]}
            /\ a \notin pending' /\ completed'[a] = "approved"
  PROVE  DecidedInv'
  <1>1. HourInv' /\ \A e \in Deciders \ {d} : upd'[e] = upd[e]
    BY ThreadFacts, ServiceStore
  <1>2. approvalTask[a] \in TaskIds /\ None \notin TaskIds /\ None \notin ApprovalIds
    BY DecisionTypes, NoneApart
  <1>3. ASSUME NEW e \in Deciders \ {d}
        PROVE  /\ dec'[e] = dec[e] /\ upd'[e] = upd[e] /\ dec[e].approval # a
               /\ dec[e].pc = "idle" \/ dec[e].approval \in ApprovalIds \ {a}
    BY <1>1, <1>2, DecisionTypes DEF DecidedApart, DecidedInv, PhaseInv, PhaseOf
  <1>4. RecordInv'
    BY <1>2 DEF DecidedInv, RecordInv
  <1>5. OpenInv'
    BY DEF DecidedInv, OpenInv
  <1>6. PhaseInv'
    <2>1. ASSUME NEW e \in Deciders \ {d} PROVE PhaseOf(e)'
      BY <1>3, <2>1 DEF DecidedInv, PhaseInv, PhaseOf, Deciding, Applying, Enabling
    <2> QED BY <2>1 DEF PhaseInv
  <1>7. AppliedInv'
    <2>1. Undisturbed' = Undisturbed
      BY DEF Undisturbed
    <2>2. ASSUME Undisturbed, NEW b \in ApprovalIds, \A e \in Deciders : dec'[e].approval # b
          PROVE  Settled(b)'
      <3>1. CASE b = a
        BY <2>2, <3>1
      <3>2. CASE b # a
        <4>1. \A e \in Deciders : dec[e].approval # b
          BY <1>3, <2>2, <3>2
        <4>2. Settled(b)
          BY <2>2, <4>1 DEF DecidedInv, AppliedInv
        <4> QED BY <3>2, <4>2 DEF Settled
      <3> QED BY <3>1, <3>2
    <2>3. ASSUME Undisturbed, NEW e \in Deciders \ {d} PROVE Progress(e)'
      BY <1>3, <2>3 DEF DecidedInv, AppliedInv, Progress, Enabling
    <2> QED BY <2>1, <2>2, <2>3 DEF AppliedInv
  <1>8. ScopeNeedsApproval'
    <2>1. ASSUME NEW t \in scopeEnabled'
          PROVE  \E b \in ApprovalIds :
                   approvalTask'[b] = t /\ b \notin pending' /\ completed'[b] = "approved"
      <3>1. CASE t \in scopeEnabled
        <4>1. PICK b \in ApprovalIds :
                approvalTask[b] = t /\ b \notin pending /\ completed[b] = "approved"
          BY <3>1 DEF DecidedInv, ScopeNeedsApproval
        <4>2. b \notin pending' /\ completed'[b] = completed[b] /\ approvalTask'[b] = t
          BY <4>1
        <4> QED BY <4>1, <4>2
      <3>2. CASE t \notin scopeEnabled
        BY <3>2, <2>1
      <3> QED BY <3>1, <3>2
    <2> QED BY <2>1 DEF ScopeNeedsApproval
  <1> QED BY <1>1, <1>4, <1>5, <1>6, <1>7, <1>8 DEF DecidedInv

\* resume_after_decision begins on an approval that is open.
LEMMA BeginDecided ==
  ASSUME IndInv, DecidedInv, DecidedApart', NEW d \in Deciders, NEW a \in ApprovalIds,
         NEW decision \in Decisions, NEW card \in BOOLEAN,
         BeginDecision(d, a, decision, card), UNCHANGED <<crashes, schedulerVars>>
  PROVE  DecidedInv'
  <1>1. /\ UNCHANGED <<taskVars, recordVars, req>> /\ dec[d].pc = "idle"
        /\ dec'[d] = [pc |-> "resolve", approval |-> a, decision |-> decision, card |-> card]
        /\ \A e \in Deciders \ {d} : dec'[e] = dec[e]
    BY DEF BeginDecision, IndInv, TypeOK, ApprovalTypeOK
  <1>2. a \in pending
    BY NoneApart
       DEF BeginDecision, Announced, ReadApproval, DecidedInv, RecordInv, IndInv,
       TypeOK, ApprovalTypeOK, Decisions
  <1>3. \A e \in Deciders : dec[e].approval # a
    BY <1>1, NoneApart DEF DecidedApart, DecidedInv, PhaseInv, PhaseOf
  <1>4. RecordInv' /\ OpenInv' /\ ScopeNeedsApproval' /\ HourInv'
    BY <1>1 DEF DecidedInv, RecordInv, OpenInv, ScopeNeedsApproval, HourInv, recordVars,
       taskVars, schedulerVars
  <1>5. PhaseInv'
    <2>1. PhaseOf(d)'
      BY <1>1, <1>2 DEF PhaseOf, Deciding, Applying, Enabling, recordVars
    <2>2. ASSUME NEW e \in Deciders \ {d} PROVE PhaseOf(e)'
      BY <1>1, <2>2 DEF DecidedInv, PhaseInv, PhaseOf, recordVars, taskVars
    <2> QED BY <2>1, <2>2 DEF PhaseInv
  <1>6. AppliedInv'
    <2>1. ASSUME Undisturbed PROVE completed[a] = None
      BY <1>2, <1>3, <2>1 DEF DecidedInv, AppliedInv, Settled
    <2>2. Undisturbed => Progress(d)'
      BY <1>1, <2>1 DEF Progress, Enabling, recordVars
    <2>3. ASSUME Undisturbed, NEW e \in Deciders \ {d} PROVE Progress(e)'
      BY <1>1, <2>3 DEF DecidedInv, AppliedInv, Progress, recordVars
    <2>4. ASSUME Undisturbed, NEW b \in ApprovalIds, \A e \in Deciders : dec'[e].approval # b
          PROVE  Settled(b)'
      <3>1. \A e \in Deciders : dec[e].approval # b
        BY <1>1, <2>4, NoneApart DEF DecidedInv, PhaseInv, PhaseOf
      <3> QED BY <1>1, <2>4, <3>1 DEF DecidedInv, AppliedInv, Settled, recordVars
    <2> QED BY <2>2, <2>3, <2>4 DEF AppliedInv, Undisturbed
  <1> QED BY <1>4, <1>5, <1>6 DEF DecidedInv

LEMMA DecisionDecided ==
  ASSUME IndInv, DecidedInv, DecidedApart, DecidedApart', DecisionStep
  PROVE  DecidedInv'
  <1>1. PICK d \in Deciders : DeciderThread(d)
    BY DEF DecisionStep
  <1>2. UNCHANGED <<workerVars, schedulerVars, crashes, req, approvalTask>>
    BY <1>1
       DEF DecisionStep, DeciderThread, BeginDecision, ReadForResolve, WriteCompleted,
           DeletePending, BeginDecisionUpdate, WriteApproved, WriteDeclined, CheckPostAction,
           EnableScope, BeginMarkCompleted, WriteMarkCompleted, DecisionRaises, recordVars
  <1>3. CASE \E a \in ApprovalIds, decision \in Decisions, card \in BOOLEAN :
               BeginDecision(d, a, decision, card)
    BY <1>2, <1>3, BeginDecided
  <1>4. CASE ~\E a \in ApprovalIds, decision \in Decisions, card \in BOOLEAN :
                BeginDecision(d, a, decision, card)
    <2>1. dec[d].pc # "idle"
      BY <1>1, <1>4 DEF DeciderThread, ReadForResolve, WriteCompleted, DecisionPhase,
             DeletePending, BeginDecisionUpdate, WriteApproved, WriteDeclined, CheckPostAction,
             EnableScope, BeginMarkCompleted, WriteMarkCompleted, DecisionRaises
    <2>0. PICK a \in ApprovalIds : a = dec[d].approval
      BY <2>1, DecisionTypes
    <2>2. /\ a \in ApprovalIds /\ dec[d].decision \in Decisions /\ approvalTask[a] \in TaskIds
          /\ pending \subseteq ApprovalIds
          /\ completed \in [ApprovalIds -> Decisions \cup {None}]
          /\ grants \in [ApprovalIds -> Nat]
      BY <2>0, <2>1, DecisionTypes
    <2>3. dec \in [Deciders ->
            [pc : {"idle", "resolve", "complete", "delete", "update", "writing",
                   "post", "enable", "finish", "writingCompleted"},
             approval : ApprovalIds \cup {None},
             decision : Decisions \cup {None},
             card : BOOLEAN]]
      BY DEF IndInv, TypeOK, ApprovalTypeOK
    <2>4. PhaseOf(d) /\ (Undisturbed => Progress(d))
      BY DEF DecidedInv, PhaseInv, AppliedInv
    <2>5. grants[a] <= 1 /\ (a \in pending => grants[a] = 0)
      BY <2>2 DEF DecidedInv, OpenInv
    <2>6. a \in pending \/ completed[a] # None
      BY <2>2, NoneApart DEF DecidedInv, RecordInv
    <2>7. None \notin Decisions
      BY NoneApart
    <2>8. \A e \in Deciders \ {d} : dec'[e] = dec[e]
      BY <1>1, <1>4, <2>3
         DEF DeciderThread, ReadForResolve, WriteCompleted, DecisionPhase,
             DeletePending, BeginDecisionUpdate, WriteApproved, WriteDeclined, CheckPostAction,
             EnableScope, BeginMarkCompleted, WriteMarkCompleted, DecisionRaises
    <2>9. UNCHANGED upd \/ \E v : upd' = [upd EXCEPT ![d] = v]
      BY <1>1, <1>4 DEF DeciderThread, ReadForResolve, WriteCompleted, DeletePending,
             BeginDecisionUpdate, BeginUpdate, WriteApproved, CommitRelease, WriteBack,
             WriteDeclined, CommitUpdate, CheckPostAction, EnableScope, BeginMarkCompleted,
             WriteMarkCompleted, DecisionRaises, AbandonUpdate, taskVars
    <2>a. ASSUME NEW p \in {"complete", "delete", "update", "writing", "post", "enable",
                            "finish", "writingCompleted"},
                 dec' = [dec EXCEPT ![d].pc = p]
          PROVE  dec'[d].pc = p /\ dec'[d].approval = a /\ dec'[d].decision = dec[d].decision
      BY <2>0, <2>3, <2>a
    <2>b. ASSUME dec' = [dec EXCEPT ![d] = NoDecision]
          PROVE  dec'[d].pc = "idle" /\ dec'[d].approval = None /\ PhaseOf(d)' /\ Progress(d)'
      BY <2>3, <2>b DEF NoDecision, PhaseOf, Progress, Deciding, Applying, Enabling
    <2>c. ASSUME dec'[d].approval = a \/ (dec'[d].approval = None /\ (Undisturbed => Settled(a)')),
                 \A b \in ApprovalIds \ {a} :
                   /\ b \in pending' <=> b \in pending
                   /\ completed'[b] = completed[b] /\ grants'[b] = grants[b],
                 a \in pending' \/ completed'[a] # None,
                 a \notin pending => a \notin pending' /\ completed'[a] = completed[a],
                 grants'[a] <= 1, a \in pending' => grants'[a] = 0,
                 PhaseOf(d)', Undisturbed => Progress(d)',
                 \/ scopeEnabled' = scopeEnabled
                 \/ /\ scopeEnabled' = scopeEnabled \cup {approvalTask[a]}
                    /\ a \notin pending' /\ completed'[a] = "approved"
          PROVE  DecidedInv'
      BY <1>2, <2>0, <2>1, <2>8, <2>9, <2>c, DecisionLocal
    <2> USE DEF Deciding, Applying, Enabling
    <2>10. CASE ReadForResolve(d)
      <3>1. /\ dec[d].pc = "resolve" /\ UNCHANGED recordVars
            /\ dec' = [dec EXCEPT ![d].pc = "complete"]
        BY <2>0, <2>4, <2>10 DEF ReadForResolve, ReadApproval, PhaseOf
      <3>2. dec'[d].pc = "complete" /\ dec'[d].approval = a
        BY <2>a, <3>1
      <3>3. PhaseOf(d)' /\ (Undisturbed => Progress(d)')
        BY <2>0, <2>4, <3>1, <3>2 DEF PhaseOf, Progress, recordVars
      <3> QED BY <2>2, <2>5, <2>6, <3>1, <3>2, <3>3, <2>c DEF recordVars
    <2>11. CASE WriteCompleted(d)
      <3>1. /\ dec[d].pc = "complete" /\ dec' = [dec EXCEPT ![d].pc = "delete"]
            /\ completed' = [completed EXCEPT ![a] = dec[d].decision]
            /\ UNCHANGED <<pending, grants, scopeEnabled>>
        BY <2>0, <2>11 DEF WriteCompleted, DecisionPhase
      <3>2. /\ dec'[d].pc = "delete" /\ dec'[d].approval = a /\ dec'[d].decision = dec[d].decision
            /\ completed'[a] = dec[d].decision /\ a \in pending
            /\ \A b \in ApprovalIds \ {a} : completed'[b] = completed[b]
        BY <2>0, <2>2, <2>4, <2>a, <3>1 DEF PhaseOf
      <3>3. PhaseOf(d)' /\ (Undisturbed => Progress(d)')
        BY <2>0, <2>4, <3>1, <3>2 DEF PhaseOf, Progress
      <3> QED BY <2>2, <2>5, <2>7, <3>1, <3>2, <3>3, <2>c
    <2>12. CASE DeletePending(d)
      <3>1. /\ dec[d].pc = "delete" /\ dec' = [dec EXCEPT ![d].pc = "update"]
            /\ pending' = pending \ {a}
            /\ UNCHANGED <<completed, grants, scopeEnabled>>
        BY <2>0, <2>12 DEF DeletePending, DecisionPhase
      <3>2. /\ dec'[d].pc = "update" /\ dec'[d].approval = a /\ dec'[d].decision = dec[d].decision
            /\ completed[a] = dec[d].decision /\ completed[a] # None /\ grants[a] = 0
        BY <2>0, <2>2, <2>4, <2>5, <2>7, <2>a, <3>1 DEF PhaseOf
      <3>3. PhaseOf(d)' /\ (Undisturbed => Progress(d)')
        BY <2>0, <2>4, <3>1, <3>2 DEF PhaseOf, Progress
      <3> QED BY <2>2, <2>5, <3>1, <3>2, <3>3, <2>c
    <2>13. CASE BeginDecisionUpdate(d)
      <3>1. /\ dec[d].pc = "update" /\ dec' = [dec EXCEPT ![d].pc = "writing"]
            /\ UNCHANGED recordVars
            /\ \E v : upd' = [upd EXCEPT ![d] = [task |-> approvalTask[a], rec |-> v]]
        BY <2>0, <2>13 DEF BeginDecisionUpdate, DecisionPhase, BeginUpdate
      <3>2. dec'[d].pc = "writing" /\ dec'[d].approval = a /\ dec'[d].decision = dec[d].decision
        BY <2>a, <3>1
      <3>3. upd'[d].task = approvalTask[a]
        BY <3>1, ThreadFacts DEF IndInv, TypeOK, TaskStoreTypeOK
      <3>4. PhaseOf(d)' /\ (Undisturbed => Progress(d)')
        BY <1>2, <2>0, <2>4, <3>1, <3>2, <3>3 DEF PhaseOf, Progress, recordVars
      <3> QED BY <2>2, <2>5, <2>6, <3>1, <3>2, <3>4, <2>c
              DEF recordVars
    <2>14. CASE WriteApproved(d)
      <3>1. /\ dec[d].pc = "writing" /\ dec[d].decision = "approved"
            /\ \/ dec' = [dec EXCEPT ![d].pc = "post"]
               \/ dec' = [dec EXCEPT ![d] = NoDecision]
            /\ grants' = [grants EXCEPT ![a] = grants[a] + 1]
            /\ UNCHANGED <<pending, completed, scopeEnabled>>
        BY <2>0, <2>14 DEF WriteApproved
      <3>2. /\ grants'[a] = 1 /\ a \notin pending /\ completed[a] = "approved"
            /\ \A b \in ApprovalIds \ {a} : grants'[b] = grants[b]
        BY <2>0, <2>2, <2>4, <3>1 DEF PhaseOf
      <3>3. Settled(a)'
        BY <3>1, <3>2 DEF Settled
      <3>4. CASE dec' = [dec EXCEPT ![d].pc = "post"]
        <4>1. dec'[d].pc = "post" /\ dec'[d].approval = a
          BY <2>a, <3>4
        <4>2. PhaseOf(d)' /\ Progress(d)'
          BY <3>1, <3>2, <4>1 DEF PhaseOf, Progress
        <4> QED BY <2>2, <2>6, <3>1, <3>2, <4>1, <4>2, <2>c
      <3>5. CASE dec' = [dec EXCEPT ![d] = NoDecision]
        BY <2>2, <2>6, <2>b, <3>1, <3>2, <3>3, <3>5,
           <2>c
      <3> QED BY <3>1, <3>4, <3>5
    <2>15. CASE WriteDeclined(d) \/ WriteMarkCompleted(d) \/ DecisionRaises(d)
      <3>1. UNCHANGED recordVars /\ dec' = [dec EXCEPT ![d] = NoDecision]
        BY <2>15 DEF WriteDeclined, WriteMarkCompleted, DecisionRaises
      <3>2. Undisturbed => Settled(a)'
        BY <2>0, <2>4, <2>15, <3>1
           DEF WriteDeclined, WriteMarkCompleted, DecisionRaises,
           Undisturbed, Settled, PhaseOf, Progress, recordVars
      <3> QED BY <2>2, <2>5, <2>6, <2>b, <3>1, <3>2, <2>c
              DEF recordVars
    <2>16. CASE CheckPostAction(d)
      <3>1. /\ dec[d].pc = "post" /\ UNCHANGED recordVars
            /\ \/ dec' = [dec EXCEPT ![d].pc = "enable"]
               \/ dec' = [dec EXCEPT ![d] = NoDecision]
        BY <2>16 DEF CheckPostAction
      <3>2. Undisturbed => Settled(a)'
        BY <2>0, <2>4, <3>1 DEF Settled, PhaseOf, Progress, recordVars
      <3>3. CASE dec' = [dec EXCEPT ![d].pc = "enable"]
        <4>1. dec'[d].pc = "enable" /\ dec'[d].approval = a
          BY <2>a, <3>3
        <4>2. PhaseOf(d)' /\ (Undisturbed => Progress(d)')
          BY <2>0, <2>4, <3>1, <4>1 DEF PhaseOf, Progress, recordVars
        <4> QED BY <2>2, <2>5, <2>6, <3>1, <4>1, <4>2, <2>c
                DEF recordVars
      <3>4. CASE dec' = [dec EXCEPT ![d] = NoDecision]
        BY <2>2, <2>5, <2>6, <2>b, <3>1, <3>2, <3>4,
           <2>c
           DEF recordVars
      <3> QED BY <3>1, <3>3, <3>4
    <2>17. CASE EnableScope(d)
      <3>1. /\ dec[d].pc = "enable" /\ dec' = [dec EXCEPT ![d].pc = "finish"]
            /\ scopeEnabled' = scopeEnabled \cup {approvalTask[a]}
            /\ UNCHANGED <<pending, completed, grants>>
        BY <2>0, <2>17 DEF EnableScope, DecisionPhase
      <3>2. /\ dec'[d].pc = "finish" /\ dec'[d].approval = a
            /\ a \notin pending /\ completed[a] = "approved"
        BY <2>0, <2>4, <2>a, <3>1 DEF PhaseOf
      <3>3. PhaseOf(d)' /\ (Undisturbed => Progress(d)')
        BY <2>0, <2>4, <3>1, <3>2 DEF PhaseOf, Progress
      <3> QED BY <2>2, <2>5, <2>6, <3>1, <3>2, <3>3, <2>c
    <2>18. CASE BeginMarkCompleted(d)
      <3>1. /\ dec[d].pc = "finish" /\ dec' = [dec EXCEPT ![d].pc = "writingCompleted"]
            /\ UNCHANGED recordVars
        BY <2>18 DEF BeginMarkCompleted, DecisionPhase
      <3>2. dec'[d].pc = "writingCompleted" /\ dec'[d].approval = a
        BY <2>a, <3>1
      <3>3. PhaseOf(d)' /\ (Undisturbed => Progress(d)')
        BY <2>0, <2>4, <3>1, <3>2 DEF PhaseOf, Progress, recordVars
      <3> QED BY <2>2, <2>5, <2>6, <3>1, <3>2, <3>3, <2>c
              DEF recordVars
    <2> QED BY <1>1, <1>4, <2>10, <2>11, <2>12, <2>13, <2>14, <2>15, <2>16, <2>17, <2>18
            DEF DeciderThread
  <1> QED BY <1>3, <1>4

\* The files survive a crash, the threads do not.
LEMMA CrashDecided ==
  ASSUME IndInv, DecidedInv, CrashAndRestart
  PROVE  DecidedInv'
  <1>1. UNCHANGED <<arrived, recordVars>>
    BY DEF CrashAndRestart
  <1>2. ~Undisturbed'
    <2>1. crashes \in Nat /\ crashes' = crashes + 1
      BY LifecycleAssumption DEF CrashAndRestart, IndInv, TypeOK
    <2> QED BY <2>1 DEF Undisturbed
  <1>3. RecordInv' /\ OpenInv' /\ ScopeNeedsApproval'
    BY <1>1
       DEF CrashAndRestart, NoRequest, DecidedInv, RecordInv, OpenInv,
           ScopeNeedsApproval,
       recordVars
  <1>4. PhaseInv'
    BY DEF CrashAndRestart, NoDecision, PhaseInv, PhaseOf, Deciding, Applying, Enabling
  <1>5. AppliedInv' /\ HourInv'
    BY <1>2 DEF CrashAndRestart, Rest, AppliedInv, HourInv
  <1> QED BY <1>3, <1>4, <1>5 DEF DecidedInv

LEMMA DecidedStep ==
  ASSUME IndInv, DecidedInv, DecidedApart, DecidedApart', [Next]_vars
  PROVE  DecidedInv'
  <1>1. CASE UNCHANGED vars
    <2>1. UNCHANGED <<approvalVars, crashes, upd, due, arrived, spc>>
      BY <1>1 DEF vars, taskVars, schedulerVars
    <2>2. HourInv'
      BY <2>1 DEF DecidedInv, HourInv
    <2> QED BY <2>1, <2>2, DecidedUndisturbed
  <1> QED BY <1>1, OtherThreadsDecided, RequestDecided, DecisionDecided, CrashDecided DEF Next

THEOREM DecisionInvariance == Spec /\ []DecidedApart => []DecidedInv
  BY DecidedInit, DecidedStep, Invariance, PTL DEF Spec

(* The condition of the theorems below always holds with one decider: the  *)
(* card listener, which handles one card after the other. The second one   *)
(* there is in the code is the agent's resume_after_approval tool.         *)
THEOREM OneDeciderSuffices ==
  ASSUME \A d, e \in Deciders : d = e
  PROVE  Spec => []DecidedApart
  <1>1. DecidedApart
    BY DEF DecidedApart
  <1> QED BY <1>1, PTL

(* As long as no two threads decide one approval at the same time, and     *)
(* through every other interleaving, crash and exception: one approval     *)
(* releases its task once (resume_after_decision).                         *)
THEOREM GrantedOnce == Spec /\ []DecidedApart => []OneGrantPerApproval
  <1>1. DecidedInv => OneGrantPerApproval
    BY DEF DecidedInv, OpenInv, OneGrantPerApproval
  <1> QED BY <1>1, DecisionInvariance, PTL

(* Under the same condition a scope is enabled only by an approval whose   *)
(* last word on disk is "approved" (enable_scope_from_approval).           *)
THEOREM EnabledByApproval == Spec /\ []DecidedApart => []ScopeNeedsApproval
  <1>1. DecidedInv => ScopeNeedsApproval
    BY DEF DecidedInv
  <1> QED BY <1>1, DecisionInvariance, PTL

(* Under the same condition a closed decision is final, and undisturbed    *)
(* every decision is, from the write of its completed record on.           *)
THEOREM DecisionsAreFinal == Spec /\ []DecidedApart => DecisionFinal
  <1> DEFINE Final == \A a \in ApprovalIds :
                        completed[a] # None /\ (a \notin pending \/ Undisturbed)
                          => completed'[a] = completed[a]
  <1>1. ASSUME IndInv, DecidedInv, [Next]_vars
        PROVE  [Final]_vars
    <2>1. CASE UNCHANGED completed
      BY <2>1
    <2>2. CASE \E d \in Deciders : WriteCompleted(d)
      <3>1. PICK d \in Deciders : WriteCompleted(d)
        BY <2>2
      <3>2. /\ dec[d].approval \in pending
            /\ Undisturbed => completed[dec[d].approval] = None
        <4>1. PhaseOf(d) /\ (Undisturbed => Progress(d))
          BY <1>1 DEF DecidedInv, PhaseInv, AppliedInv
        <4>2. dec[d].pc = "complete"
          BY <3>1 DEF WriteCompleted, DecisionPhase
        <4> QED BY <4>1, <4>2 DEF PhaseOf, Deciding, Progress
      <3>3. ASSUME NEW b \in ApprovalIds, completed[b] # None, b \notin pending \/ Undisturbed
            PROVE  completed'[b] = completed[b]
        <4>1. b # dec[d].approval
          BY <3>2, <3>3
        <4> QED BY <1>1, <3>1, <4>1, DecisionTypes DEF WriteCompleted
      <3> QED BY <3>3
    <2>3. CASE ~(\E d \in Deciders : WriteCompleted(d)) /\ DecisionStep
      <3>1. UNCHANGED completed
        BY <2>3
           DEF DecisionStep, DeciderThread, BeginDecision, ReadForResolve,
               DeletePending,
           BeginDecisionUpdate, WriteApproved, WriteDeclined, CheckPostAction, EnableScope,
           BeginMarkCompleted, WriteMarkCompleted, DecisionRaises, recordVars
      <3> QED BY <3>1
    <2>4. CASE RequestStep
      <3>1. UNCHANGED completed
        BY <2>4
           DEF RequestStep, RequesterThread, BeginRequest, BeginScopeRequest,
               WriteApproval,
           WriteInterrupt, BeginWaiting, WriteWaiting, RequestRaises, recordVars
      <3> QED BY <3>1
    <2>5. CASE AgentCreatesTask \/ TimePasses \/ WorkerStep \/ ControlStep \/ SchedulerStep
                \/ CrashAndRestart \/ UNCHANGED vars
      <3>1. UNCHANGED completed
        BY <2>5
           DEF AgentCreatesTask, TimePasses, WorkerStep, ControlStep, SchedulerStep,
           CrashAndRestart, recordVars, approvalVars, vars
      <3> QED BY <3>1
    <2> QED BY <1>1, <2>2, <2>3, <2>4, <2>5 DEF Next
  <1> QED BY <1>1, Invariance, DecisionInvariance, PTL DEF Spec, DecisionFinal

(* Under the same condition a task is released after its creation only     *)
(* when its hour has come or an approved decision on it is on disk.        *)
THEOREM ReleasesHaveCause == Spec /\ []DecidedApart => ReleaseHasCause
  <1> DEFINE Caused == \A t \in released' \ released :
                         \/ ~Exists(t)
                         \/ t \in arrived
                         \/ \E a \in ApprovalIds :
                              approvalTask[a] = t /\ completed[a] = "approved"
  <1>1. ASSUME IndInv, DecidedInv, [Next]_vars
        PROVE  [Caused]_vars
    <2>1. ASSUME released' \subseteq released PROVE Caused
      BY <2>1
    <2>2. ASSUME NEW t \in TaskIds, NEW s \in Status, CreateAs(t, s) PROVE Caused
      BY <2>2 DEF CreateAs
    <2>3. CASE AgentCreatesTask
      BY <2>2, <2>3 DEF AgentCreatesTask, CreateAsyncTask, CreateScheduledTask, Status
    <2>4. CASE TimePasses \/ ControlStep \/ CrashAndRestart \/ UNCHANGED vars
      <3>1. UNCHANGED released
        BY <2>4
           DEF TimePasses, TimeArrives, ControlStep, WorkerControl, StartWorker,
               BeginStop,
           SetStopEvent, PutSentinel, EndStop, CrashAndRestart, vars, taskVars
      <3> QED BY <2>1, <3>1
    <2>5. CASE WorkerStep
      <3>1. released' \subseteq released
        <4>1. CASE QuietWorkerStep
          BY <1>1, <2>5, <4>1, QuietWorkerPreserves DEF WorkerStep, taskVars
        <4>2. CASE ~QuietWorkerStep
          BY <2>5, <4>2
             DEF WorkerStep, WorkerThread, QuietWorkerStep, BeginRunning, BeginApply,
             BeginFeedback, BeginFail, BeginUpdate, WriteRunning, CommitRun, WriteOutcome,
             WriteFeedback, WriteFailed, CommitUpdate, ProcessRaises, FailRaises, AbandonUpdate
        <4> QED BY <4>1, <4>2
      <3> QED BY <2>1, <3>1
    <2>6. CASE SchedulerStep
      <3>1. CASE WriteQueued
        BY <1>1, <3>1 DEF WriteQueued, CommitRelease, DecidedInv, HourInv
      <3>2. CASE ~WriteQueued
        <4>1. UNCHANGED released
          BY <2>6, <3>2 DEF SchedulerStep, SchedulerThread, ScanDueTasks, BeginDispatch,
             BeginUpdate, DispatchToWorker, DispatchRefused, SchedulerRaises, AbandonUpdate,
             taskVars
        <4> QED BY <2>1, <4>1
      <3> QED BY <3>1, <3>2
    <2>7. CASE RequestStep
      <3>1. PICK r \in Requesters : RequesterThread(r)
        BY <2>7 DEF RequestStep
      <3>2. CASE \E t \in TaskIds, a \in ApprovalIds : BeginScopeRequest(r, t, a)
        BY <2>2, <3>2 DEF BeginScopeRequest, Status
      <3>3. CASE ~\E t \in TaskIds, a \in ApprovalIds : BeginScopeRequest(r, t, a)
        <4>1. UNCHANGED released
          BY <3>1, <3>3
             DEF RequesterThread, BeginRequest, WriteApproval, WriteInterrupt,
             BeginWaiting, BeginUpdate, WriteWaiting, CommitUpdate, RequestRaises, AbandonUpdate,
             taskVars
        <4> QED BY <2>1, <4>1
      <3> QED BY <3>2, <3>3
    <2>8. CASE DecisionStep
      <3>1. PICK d \in Deciders : DeciderThread(d)
        BY <2>8 DEF DecisionStep
      <3>2. CASE WriteApproved(d)
        <4>1. /\ dec[d].pc = "writing" /\ dec[d].decision = "approved"
              /\ released' = released \cup {upd[d].task}
          BY <3>2 DEF WriteApproved, CommitRelease
        <4>2. /\ upd[d].task = approvalTask[dec[d].approval]
              /\ completed[dec[d].approval] = "approved"
              /\ dec[d].approval \in ApprovalIds
          BY <1>1, <4>1, DecisionTypes DEF DecidedInv, PhaseInv, PhaseOf, Applying
        <4> QED BY <4>1, <4>2
      <3>3. CASE ~WriteApproved(d)
        <4>1. UNCHANGED released
          BY <3>1, <3>3
             DEF DeciderThread, BeginDecision, ReadForResolve, WriteCompleted,
             DeletePending, BeginDecisionUpdate, WriteDeclined, CheckPostAction, EnableScope,
             BeginMarkCompleted, WriteMarkCompleted, DecisionRaises, BeginUpdate, CommitUpdate,
             AbandonUpdate, taskVars
        <4> QED BY <2>1, <4>1
      <3> QED BY <3>2, <3>3
    <2> QED BY <1>1, <2>3, <2>4, <2>5, <2>6, <2>7, <2>8 DEF Next
  <1> QED BY <1>1, Invariance, DecisionInvariance, PTL DEF Spec, ReleaseHasCause

-----------------------------------------------------------------------------
(* What an approved decision brings about on disk (ApprovalEffect).         *)

(* What the requesters and deciders do to the task files: a thread writes   *)
(* back the record it has read, a new task gets a file, or nothing.         *)
LEMMA ServiceWrites ==
  ASSUME IndInv, RequestStep \/ DecisionStep
  PROVE  \E th \in Requesters \cup Deciders :
           /\ \A o \in Threads \ {th} : upd'[o] = upd[o]
           /\ \A t \in TaskIds :
                tasks'[t] = tasks[t] \/ ~Exists(t) \/ (upd[th] # None /\ upd[th].task = t)
  <1>1. CASE RequestStep
    <2>1. PICK r \in Requesters : RequesterThread(r)
      BY <1>1 DEF RequestStep
    <2>2. CASE UNCHANGED taskVars
      BY <2>1, <2>2 DEF taskVars
    <2>3. CASE \E t \in TaskIds, a \in ApprovalIds : BeginScopeRequest(r, t, a)
      <3>1. UNCHANGED upd /\ \E t \in TaskIds : CreateAs(t, "queued")
        BY <2>3 DEF BeginScopeRequest, CreateAs
      <3> QED
        BY <2>1, <3>1 DEF CreateAs, Exists, IndInv, TypeOK, TaskStoreTypeOK
    <2>4. CASE BeginWaiting(r) \/ RequestRaises(r)
      BY <2>1, <2>4 DEF BeginWaiting, RequestRaises, BeginUpdate, AbandonUpdate, IndInv,
                        TypeOK, TaskStoreTypeOK
    <2>5. CASE WriteWaiting(r)
      <3>1. upd[r] # None /\ WriteBack(r) /\ r \in Threads
        BY <2>1, <2>5, ThreadFacts
           DEF WriteWaiting, CommitUpdate, IndInv, RequestInv
      <3> QED
        BY <2>1, <3>1, WriteBackType DEF IndInv, TypeOK
    <2> QED
      BY <2>1, <2>2, <2>3, <2>4, <2>5
         DEF RequesterThread, BeginRequest, WriteApproval, WriteInterrupt
  <1>2. CASE DecisionStep
    <2>1. PICK d \in Deciders : DeciderThread(d)
      BY <1>2 DEF DecisionStep
    <2>2. CASE UNCHANGED taskVars
      BY <2>1, <2>2 DEF taskVars
    <2>3. CASE BeginDecisionUpdate(d) \/ BeginMarkCompleted(d) \/ DecisionRaises(d)
      BY <2>1, <2>3 DEF BeginDecisionUpdate, BeginMarkCompleted, DecisionRaises, BeginUpdate,
                        AbandonUpdate, IndInv, TypeOK, TaskStoreTypeOK
    <2>4. CASE WriteApproved(d) \/ WriteDeclined(d) \/ WriteMarkCompleted(d)
      <3>1. upd[d] # None /\ WriteBack(d) /\ d \in Threads
        BY <2>1, <2>4, ThreadFacts
           DEF WriteApproved, WriteDeclined, WriteMarkCompleted, CommitRelease, CommitUpdate,
               IndInv, DecisionInv
      <3> QED
        BY <2>1, <3>1, WriteBackType DEF IndInv, TypeOK
    <2> QED
      BY <2>1, <2>2, <2>3, <2>4
         DEF DeciderThread, BeginDecision, ReadForResolve, WriteCompleted, DeletePending,
             CheckPostAction, EnableScope
  <1> QED
    BY <1>1, <1>2

\* The other threads do not touch what the worker holds.
LEMMA WorkerHolds ==
  ASSUME IndInv,
         \/ UNCHANGED vars \/ AgentCreatesTask \/ TimePasses
         \/ SchedulerStep \/ RequestStep \/ DecisionStep
  PROVE  UNCHANGED <<wpc, item>> /\ upd'[Worker] = upd[Worker]
  <1>1. CASE UNCHANGED vars
    BY <1>1 DEF vars, taskVars, workerVars
  <1>2. CASE AgentCreatesTask
    BY <1>2 DEF AgentCreatesTask, CreateAsyncTask, CreateScheduledTask, CreateAs, workerVars
  <1>3. CASE TimePasses
    BY <1>3 DEF TimePasses, TimeArrives, taskVars, workerVars
  <1>4. CASE SchedulerStep
    <2>1. upd'[Worker] = upd[Worker]
      BY <1>4, ThreadFacts
         DEF SchedulerStep, SchedulerThread, ScanDueTasks, BeginDispatch, WriteQueued,
             DispatchToWorker, DispatchRefused, SchedulerRaises, BeginUpdate, CommitRelease,
             WriteBack, AbandonUpdate, IndInv, TypeOK, TaskStoreTypeOK, taskVars
    <2> QED
      BY <1>4, <2>1
         DEF SchedulerStep, SchedulerThread, ScanDueTasks, BeginDispatch, WriteQueued,
             DispatchToWorker, DispatchRefused, SchedulerRaises, workerVars
  <1>5. CASE RequestStep \/ DecisionStep
    BY <1>5, ServiceWrites, ThreadFacts DEF RequestStep, DecisionStep, workerVars
  <1> QED
    BY <1>1, <1>2, <1>3, <1>4, <1>5

LEMMA ItemWritten ==
  ASSUME IndInv, UpdateOfItem, [Next]_vars
  PROVE  UpdateOfItem'
  <1>1. CASE \/ UNCHANGED vars \/ AgentCreatesTask \/ TimePasses
             \/ SchedulerStep \/ RequestStep \/ DecisionStep
    BY <1>1, WorkerHolds DEF UpdateOfItem
  <1>2. CASE ControlStep
    BY <1>2
       DEF ControlStep, WorkerControl, StartWorker, BeginStop, SetStopEvent, PutSentinel,
           EndStop, taskVars, workerVars, UpdateOfItem
  <1>3. CASE CrashAndRestart
    BY <1>3 DEF CrashAndRestart, UpdateOfItem
  <1>4. CASE WorkerStep
    <2>1. CASE BeginRunning \/ BeginApply \/ BeginFeedback \/ BeginFail
      BY <2>1, ThreadFacts
         DEF BeginRunning, BeginApply, BeginFeedback, BeginFail, BeginUpdate, UpdateOfItem,
             IndInv, TypeOK, TaskStoreTypeOK
    <2>2. CASE ~(BeginRunning \/ BeginApply \/ BeginFeedback \/ BeginFail)
      <3>1. wpc' \notin {"writingRunning", "writingOutcome", "writingFeedback", "writingFailed"}
        BY <1>4, <2>2
           DEF WorkerStep, WorkerThread, LeaveOnStop, StartScan, SkipScan, EndScan, ScanRaises,
               ScanEnqueue, GetTimesOut, GetSentinel, GetItem, Claim, WriteRunning,
               HandlerReturns, HandlerRaises, WriteOutcome, SkipFeedback, WriteFeedback,
               FeedbackSynced, ProcessRaises, WriteFailed, FailSynced, FailRaises, Finish
      <3> QED
        BY <3>1 DEF UpdateOfItem
    <2> QED
      BY <2>1, <2>2
  <1> QED
    BY <1>1, <1>2, <1>3, <1>4 DEF Next

LEMMA SchedulerWritesQueued ==
  ASSUME IndInv, SchedulerQueues, [Next]_vars
  PROVE  SchedulerQueues'
  <1>1. CASE UNCHANGED vars
    BY <1>1 DEF vars, taskVars, schedulerVars, SchedulerQueues
  <1>2. CASE AgentCreatesTask
    BY <1>2 DEF AgentCreatesTask, CreateAsyncTask, CreateScheduledTask, CreateAs,
                schedulerVars, SchedulerQueues
  <1>3. CASE TimePasses
    BY <1>3 DEF TimePasses, TimeArrives, taskVars, SchedulerQueues
  <1>4. CASE ControlStep
    BY <1>4
       DEF ControlStep, WorkerControl, StartWorker, BeginStop, SetStopEvent, PutSentinel,
           EndStop, taskVars, schedulerVars, SchedulerQueues
  <1>5. CASE CrashAndRestart
    BY <1>5 DEF CrashAndRestart, Rest, SchedulerQueues
  <1>6. CASE WorkerStep
    <2>1. upd'[Scheduler] = upd[Scheduler]
      <3>1. CASE QuietWorkerStep
        BY <3>1
           DEF QuietWorkerStep, LeaveOnStop, StartScan, SkipScan, EndScan, ScanRaises,
               ScanEnqueue, GetTimesOut, GetSentinel, GetItem, Claim, HandlerReturns,
               HandlerRaises, SkipFeedback, FeedbackSynced, FailSynced, Finish, taskVars
      <3>2. CASE ~QuietWorkerStep
        <4>1. UNCHANGED ctlVars
          BY <1>6 DEF WorkerStep
        <4>2. \/ BeginRunning \/ BeginApply \/ BeginFeedback \/ BeginFail
              \/ WriteRunning \/ WriteOutcome \/ WriteFeedback \/ WriteFailed
              \/ ProcessRaises \/ FailRaises
          BY <1>6, <3>2 DEF WorkerStep, WorkerThread, QuietWorkerStep
        <4> QED
          BY <4>1, <4>2, WorkerBegins, WorkerWrites, WorkerRaises, ThreadFacts
      <3> QED
        BY <3>1, <3>2
    <2> QED
      BY <1>6, <2>1 DEF WorkerStep, schedulerVars, SchedulerQueues
  <1>7. CASE SchedulerStep
    <2>1. CASE \E t \in TaskIds : BeginDispatch(t)
      BY <2>1, ThreadFacts
         DEF BeginDispatch, BeginUpdate, SchedulerQueues, IndInv, TypeOK, TaskStoreTypeOK,
             TaskRecord, Exists
    <2>2. CASE ~\E t \in TaskIds : BeginDispatch(t)
      BY <1>7, <2>2
         DEF SchedulerStep, SchedulerThread, ScanDueTasks, WriteQueued, DispatchToWorker,
             DispatchRefused, SchedulerRaises, Rest, SchedulerQueues
    <2> QED
      BY <2>1, <2>2
  <1>8. CASE RequestStep \/ DecisionStep
    <2>1. upd'[Scheduler] = upd[Scheduler] /\ UNCHANGED schedulerVars
      BY <1>8, ServiceWrites, ThreadFacts DEF RequestStep, DecisionStep
    <2> QED
      BY <2>1 DEF schedulerVars, SchedulerQueues
  <1> QED
    BY <1>1, <1>2, <1>3, <1>4, <1>5, <1>6, <1>7, <1>8 DEF Next

(* The core of the argument: whatever step is taken, a task that is open   *)
(* for its run stays so, unless the run starts or a service takes it up.   *)
LEMMA OpenStands ==
  ASSUME IndInv, UpdateOfItem, SchedulerQueues, ~Faults, [Next]_vars,
         NEW t \in TaskIds, Open(t)
  PROVE  RunStarts(t) \/ (HasStatus(t, "queued")' /\ ~Finishing(t)')
  <1>0. /\ HasStatus(t, "queued") /\ ~Rewriting(t) /\ ~Finishing(t)
        /\ t # None /\ Exists(t)
    BY TaskStoreAssumption DEF Open, HasStatus
  <1>1. ASSUME UNCHANGED <<wpc, item>>, upd'[Worker] = upd[Worker], tasks'[t] = tasks[t]
        PROVE  HasStatus(t, "queued")' /\ ~Finishing(t)'
    BY <1>0, <1>1 DEF HasStatus, Exists, Finishing
  <1>2. CASE UNCHANGED vars
    BY <1>1, <1>2 DEF vars, taskVars, workerVars
  <1>3. CASE AgentCreatesTask
    <2>1. tasks'[t] = tasks[t]
      BY <1>0, <1>3
         DEF AgentCreatesTask, CreateAsyncTask, CreateScheduledTask, CreateAs, IndInv, TypeOK,
             TaskStoreTypeOK
    <2> QED
      BY <1>1, <1>3, <2>1
         DEF AgentCreatesTask, CreateAsyncTask, CreateScheduledTask, CreateAs, workerVars
  <1>4. CASE TimePasses
    BY <1>1, <1>4 DEF TimePasses, TimeArrives, taskVars, workerVars
  <1>5. CASE ControlStep
    <2>1. UNCHANGED <<tasks, upd, item>> /\ (wpc' = wpc \/ wpc' = "loop")
      BY <1>5
         DEF ControlStep, WorkerControl, StartWorker, BeginStop, SetStopEvent, PutSentinel,
             EndStop, taskVars, workerVars
    <2> QED
      BY <1>0, <2>1 DEF HasStatus, Exists, Finishing
  <1>6. CASE CrashAndRestart
    BY <1>0, <1>6 DEF CrashAndRestart, HasStatus, Exists, Finishing
  <1>7. CASE SchedulerStep
    <2>1. UNCHANGED <<wpc, item>> /\ upd'[Worker] = upd[Worker]
      BY <1>7, WorkerHolds
    <2>2. CASE WriteQueued
      <3>1. WriteBack(Scheduler) /\ upd[Scheduler] # None /\ upd[Scheduler].rec.status = "queued"
        BY <2>2 DEF WriteQueued, CommitRelease, IndInv, SchedulerInv, SchedulerQueues
      <3>2. HasStatus(t, "queued")'
        BY <1>0, <3>1, ThreadFacts, WriteBackType DEF IndInv, TypeOK, HasStatus, Exists
      <3> QED
        BY <1>0, <2>1, <3>2 DEF Finishing
    <2>3. CASE ~WriteQueued
      <3>1. tasks' = tasks
        BY <1>7, <2>3
           DEF SchedulerStep, SchedulerThread, ScanDueTasks, BeginDispatch, DispatchToWorker,
               DispatchRefused, SchedulerRaises, BeginUpdate, AbandonUpdate, taskVars
      <3> QED
        BY <1>1, <2>1, <3>1
    <2> QED
      BY <2>2, <2>3
  <1>8. CASE RequestStep \/ DecisionStep
    <2>1. PICK th \in Requesters \cup Deciders :
            /\ \A o \in Threads \ {th} : upd'[o] = upd[o]
            /\ \A u \in TaskIds :
                 tasks'[u] = tasks[u] \/ ~Exists(u) \/ (upd[th] # None /\ upd[th].task = u)
      BY <1>8, ServiceWrites
    <2>2. tasks'[t] = tasks[t]
      BY <1>0, <2>1 DEF Rewriting
    <2>3. upd'[Worker] = upd[Worker] /\ UNCHANGED <<wpc, item>>
      BY <1>8, <2>1, ThreadFacts DEF RequestStep, DecisionStep, workerVars
    <2> QED
      BY <1>1, <2>2, <2>3
  <1>9. CASE WorkerStep
    <2>1. UNCHANGED ctlVars
      BY <1>9 DEF WorkerStep
    <2>2. CASE QuietWorkerStep
      <3>1. UNCHANGED taskVars
        BY <2>2
           DEF QuietWorkerStep, LeaveOnStop, StartScan, SkipScan, EndScan, ScanRaises,
               ScanEnqueue, GetTimesOut, GetSentinel, GetItem, Claim, HandlerReturns,
               HandlerRaises, SkipFeedback, FeedbackSynced, FailSynced, Finish
      <3>2. ~Finishing(t)'
        <4>1. CASE Claim \/ HandlerRaises \/ \E o \in Outcomes : HandlerReturns(o)
          BY <1>0, <4>1 DEF Claim, HandlerRaises, HandlerReturns, Finishing
        <4>2. CASE ~(Claim \/ HandlerRaises \/ \E o \in Outcomes : HandlerReturns(o))
          <5>1. \/ wpc' \in {"dead", "loop", "scan", "get", "claim", "finish"}
                \/ wpc' = wpc /\ item' = item
            BY <2>2, <4>2
               DEF QuietWorkerStep, LeaveOnStop, StartScan, SkipScan, EndScan, ScanRaises,
                   ScanEnqueue, GetTimesOut, GetSentinel, GetItem, SkipFeedback,
                   FeedbackSynced, FailSynced, Finish
          <5> QED
            BY <1>0, <3>1, <5>1 DEF Finishing, taskVars
        <4> QED
          BY <4>1, <4>2
      <3> QED
        BY <1>0, <3>1, <3>2 DEF taskVars, HasStatus, Exists
    <2>3. CASE BeginRunning \/ BeginApply \/ BeginFeedback \/ BeginFail
      <3>1. UNCHANGED <<tasks, item>>
        BY <2>3 DEF BeginRunning, BeginApply, BeginFeedback, BeginFail, BeginUpdate
      <3>2. CASE item # t
        BY <1>0, <3>1, <3>2 DEF HasStatus, Exists, Finishing
      <3>3. CASE item = t
        <4>1. wpc \notin {"apply", "failing"}
          BY <1>0, <3>3 DEF Finishing
        <4>2. CASE BeginRunning
          BY <1>0, <3>1, <4>2 DEF BeginRunning, HasStatus, Exists, Finishing
        <4>3. CASE BeginFeedback
          <5>1. upd'[Worker].rec = tasks[t]
            BY <3>3, <4>3, ThreadFacts
               DEF BeginFeedback, BeginUpdate, IndInv, TypeOK, TaskStoreTypeOK
          <5> QED
            BY <1>0, <3>1, <4>3, <5>1 DEF BeginFeedback, HasStatus, Exists, Finishing
        <4> QED
          BY <2>3, <4>1, <4>2, <4>3 DEF BeginApply, BeginFail
      <3> QED
        BY <3>2, <3>3
    <2>4. CASE WriteRunning \/ WriteOutcome \/ WriteFeedback \/ WriteFailed
      <3>1. upd[Worker] # None /\ upd[Worker].task = item /\ WriteBack(Worker) /\ item' = item
        BY <2>4
           DEF WriteRunning, WriteOutcome, WriteFeedback, WriteFailed, CommitRun,
               CommitUpdate, IndInv, WorkerInv, UpdateOfItem
      <3>2. CASE item # t
        BY <1>0, <3>1, <3>2, ThreadFacts, WriteBackType
           DEF IndInv, TypeOK, HasStatus, Exists, Finishing
      <3>3. CASE item = t
        <4>1. wpc \notin {"writingOutcome", "writingFailed"}
          BY <1>0, <3>3 DEF Finishing
        <4>2. CASE WriteRunning
          BY <3>3, <4>2 DEF WriteRunning, RunStarts
        <4>3. CASE WriteFeedback
          <5>1. wpc = "writingFeedback" /\ wpc' = "feedbackSync"
            BY <4>3 DEF WriteFeedback
          <5>2. upd[Worker].rec.status = "queued"
            BY <1>0, <3>3, <5>1 DEF Finishing
          <5>3. tasks'[t] = upd[Worker].rec /\ upd[Worker].rec # None
            BY <3>1, <3>3, ThreadFacts, WriteBackType DEF IndInv, TypeOK
          <5> QED
            BY <5>1, <5>2, <5>3 DEF HasStatus, Exists, Finishing
        <4> QED
          BY <2>4, <4>1, <4>2, <4>3 DEF WriteOutcome, WriteFailed
      <3> QED
        BY <3>2, <3>3
    <2>5. CASE ProcessRaises \/ FailRaises
      BY <2>5 DEF ProcessRaises, FailRaises
    <2> QED
      BY <1>9, <2>2, <2>3, <2>4, <2>5 DEF WorkerStep, WorkerThread, QuietWorkerStep
  <1> QED
    BY <1>2, <1>3, <1>4, <1>5, <1>6, <1>7, <1>8, <1>9 DEF Next

\* What a release needs: only the decider of an approval counts it.
LEMMA GrantStep ==
  ASSUME IndInv, DecidedInv, [Next]_vars, NEW a \in ApprovalIds, grants'[a] > grants[a]
  PROVE  /\ approvalTask'[a] = approvalTask[a] /\ approvalTask[a] \in TaskIds
         /\ HasStatus(approvalTask[a], "queued")'
  <1>0. grants \in [ApprovalIds -> Nat]
    BY DEF IndInv, TypeOK, ApprovalTypeOK
  <1>1. grants' # grants
    BY <1>0
  <1>2. \E d \in Deciders : WriteApproved(d)
    <2>1. CASE DecisionStep
      BY <1>1, <2>1
         DEF DecisionStep, DeciderThread, BeginDecision, ReadForResolve, WriteCompleted,
             DeletePending, BeginDecisionUpdate, WriteDeclined, CheckPostAction, EnableScope,
             BeginMarkCompleted, WriteMarkCompleted, DecisionRaises, recordVars
    <2>2. CASE RequestStep
      BY <1>1, <2>2
         DEF RequestStep, RequesterThread, BeginRequest, BeginScopeRequest, WriteApproval,
             WriteInterrupt, BeginWaiting, WriteWaiting, RequestRaises, recordVars
    <2> QED
      BY <1>1, <2>1, <2>2
         DEF Next, vars, AgentCreatesTask, TimePasses, WorkerStep, ControlStep, SchedulerStep,
             CrashAndRestart, approvalVars, recordVars
  <1>3. PICK d \in Deciders : WriteApproved(d)
    BY <1>2
  <1>4. dec[d].approval = a
    BY <1>0, <1>3 DEF WriteApproved
  <1>5. upd[d].task = approvalTask[a] /\ approvalTask[a] \in TaskIds
    BY <1>3, <1>4 DEF WriteApproved, DecidedInv, PhaseInv, PhaseOf, Applying, Enabling,
                      Deciding, IndInv, DecisionInv
  <1>6. upd[d] # None /\ upd[d].rec.status = "queued"
    BY <1>3 DEF WriteApproved, IndInv, DecisionInv, StatusAfter
  <1>7. WriteBack(d) /\ d \in Threads
    BY <1>3, ThreadFacts DEF WriteApproved, CommitRelease
  <1>8. HasStatus(approvalTask[a], "queued")'
    <2>1. tasks'[approvalTask[a]] = upd[d].rec /\ upd[d].rec # None
      BY <1>5, <1>6, <1>7, WriteBackType DEF IndInv, TypeOK
    <2> QED
      BY <1>3, <1>6, <2>1 DEF WriteApproved, HasStatus, Exists
  <1> QED
    BY <1>3, <1>5, <1>8 DEF WriteApproved

\* A record keeps the task it was written for.
LEMMA TaskOfApproval ==
  ASSUME IndInv, DecidedInv, [Next]_vars, NEW a \in ApprovalIds, approvalTask[a] # None
  PROVE  approvalTask'[a] = approvalTask[a] /\ approvalTask[a] \in TaskIds
  <1>0. approvalTask \in [ApprovalIds -> TaskIds \cup {None}]
    BY DEF IndInv, TypeOK, ApprovalTypeOK
  <1>1. CASE RequestStep
    <2>1. PICK r \in Requesters : RequesterThread(r)
      BY <1>1 DEF RequestStep
    <2>2. CASE WriteApproval(r)
      <3>1. req[r].approval # a
        BY <2>2 DEF WriteApproval, RequestPhase, DecidedInv, RecordInv
      <3> QED
        BY <1>0, <2>2, <3>1 DEF WriteApproval
    <2>3. CASE ~WriteApproval(r)
      BY <1>0, <2>1, <2>3
         DEF RequesterThread, BeginRequest, BeginScopeRequest, WriteInterrupt, BeginWaiting,
             WriteWaiting, RequestRaises, recordVars
    <2> QED
      BY <2>2, <2>3
  <1>2. CASE DecisionStep
    BY <1>0, <1>2
       DEF DecisionStep, DeciderThread, BeginDecision, ReadForResolve, WriteCompleted,
           DeletePending, BeginDecisionUpdate, WriteApproved, WriteDeclined, CheckPostAction,
           EnableScope, BeginMarkCompleted, WriteMarkCompleted, DecisionRaises, recordVars
  <1> QED
    BY <1>0, <1>1, <1>2
       DEF Next, vars, AgentCreatesTask, TimePasses, WorkerStep, ControlStep, SchedulerStep,
           CrashAndRestart, approvalVars, recordVars

LEMMA EffectStart == EffectInit => EffectInv
  BY DEF EffectInit, Init, TaskStoreInit, WorkerInit, SchedulerInit, ApprovalInit, EffectInv,
         Effects, UpdateOfItem, SchedulerQueues, Standing

LEMMA EffectStep ==
  ASSUME IndInv, IndInv', DecidedInv, EffectInv, [EffectNext]_effectVars
  PROVE  EffectInv'
  <1>1. [Next]_vars
    BY DEF EffectNext, effectVars
  <1>2. UpdateOfItem' /\ SchedulerQueues'
    BY <1>1, ItemWritten, SchedulerWritesQueued DEF EffectInv
  <1>3. grants \in [ApprovalIds -> Nat] /\ grants' \in [ApprovalIds -> Nat]
    BY DEF IndInv, TypeOK, ApprovalTypeOK
  <1>4. effect \in [ApprovalIds -> Effects]
    BY DEF EffectInv
  <1>5. CASE UNCHANGED effectVars
    BY <1>5
       DEF effectVars, vars, taskVars, workerVars, approvalVars, EffectInv, Standing, Open,
           HasStatus, Exists, Rewriting, Finishing, UpdateOfItem, SchedulerQueues,
           schedulerVars
  <1>6. CASE effect' = [a \in ApprovalIds |-> EffectAfter(a)]
    <2>1. effect' \in [ApprovalIds -> Effects]
      <3>1. ASSUME NEW a \in ApprovalIds
            PROVE  EffectAfter(a) \in Effects
        BY <1>3, <1>4 DEF EffectAfter, StandsOn, Effects
      <3> QED
        BY <1>6, <3>1
    <2>2. ASSUME NEW a \in ApprovalIds, grants'[a] > 0
          PROVE  effect'[a] # "none"
      <3>1. effect'[a] = EffectAfter(a)
        BY <1>6
      <3>2. CASE grants'[a] > grants[a]
        BY <3>1, <3>2 DEF EffectAfter
      <3>3. CASE ~(grants'[a] > grants[a])
        <4>1. grants[a] > 0 /\ grants'[a] <= grants[a]
          BY <1>3, <2>2, <3>3
        <4>2. effect[a] # "none"
          BY <4>1 DEF EffectInv
        <4> QED
          BY <3>1, <4>1, <4>2, <3>3 DEF EffectAfter, StandsOn
      <3> QED
        BY <3>2, <3>3
    <2>3. ASSUME ~Faults, NEW a \in ApprovalIds, effect'[a] = "stands"
          PROVE  approvalTask'[a] # None /\ Open(approvalTask[a])'
      <3> DEFINE t == approvalTask[a]
      <3>1. EffectAfter(a) = "stands"
        BY <1>6, <2>3
      <3>2. CASE grants'[a] > grants[a]
        <4>1. approvalTask'[a] = t /\ t \in TaskIds /\ HasStatus(t, "queued")'
          BY <1>1, <3>2, GrantStep
        <4>2. ~Disputed(a)'
          BY <3>1, <3>2 DEF EffectAfter
        <4>3. ~Rewriting(t)' /\ ~Finishing(t)'
          BY <4>1, <4>2 DEF Disputed
        <4> QED
          BY <4>1, <4>3, TaskStoreAssumption DEF Open
      <3>3. CASE ~(grants'[a] > grants[a])
        <4>1. effect[a] = "stands" /\ ~RunStarts(t) /\ ~Rewriting(t)'
          <5>1. effect[a] = "stands"
            BY <3>1, <3>3 DEF EffectAfter
          <5>2. StandsOn(a) = "stands"
            BY <3>1, <3>3, <5>1 DEF EffectAfter
          <5> QED
            BY <5>1, <5>2 DEF StandsOn
        <4>2. t # None /\ Open(t)
          BY <2>3, <4>1 DEF EffectInv, Standing
        <4>3. approvalTask'[a] = t /\ t \in TaskIds
          BY <1>1, <4>2, TaskOfApproval
        <4>4. HasStatus(t, "queued")' /\ ~Finishing(t)'
          BY <1>1, <2>3, <4>1, <4>2, <4>3, OpenStands DEF EffectInv
        <4> QED
          BY <4>1, <4>2, <4>3, <4>4 DEF Open
      <3> QED
        BY <3>2, <3>3
    <2> QED
      BY <1>2, <2>1, <2>2, <2>3 DEF EffectInv, Standing
  <1> QED
    BY <1>5, <1>6 DEF EffectNext

LEMMA EffectImplies == EffectSpec => Spec
  <1>1. EffectInit => Init
    BY DEF EffectInit
  <1>2. [EffectNext]_effectVars => [Next]_vars
    BY DEF EffectNext, effectVars
  <1> QED
    BY <1>1, <1>2, PTL DEF EffectSpec, Spec

(* As long as no two threads decide one approval at the same time, an      *)
(* approved decision takes effect on disk: undisturbed its task is         *)
(* released, and a release that nobody was disputing when it was written   *)
(* is on disk as queued until the worker starts a run or another request   *)
(* or decision takes the task up, through every interleaving of worker,    *)
(* scheduler and services, every crash and every exception of the services *)
(* (exceptions inside the worker excepted: _mark_task_failed is blind).    *)
THEOREM ApprovalsTakeEffect == EffectSpec /\ []DecidedApart => []ApprovalStands
  <1>1. IndInv /\ DecidedInv /\ EffectInv => ApprovalStands
    <2> SUFFICES ASSUME IndInv, DecidedInv, EffectInv
                 PROVE  ApprovalStands
      OBVIOUS
    <2>1. ASSUME Undisturbed, NEW a \in ApprovalIds, completed[a] = "approved",
                 \A d \in Deciders : dec[d].approval # a
          PROVE  effect[a] # "none"
      <3>1. completed[a] # None
        BY <2>1, NoneApart DEF Decisions
      <3>2. grants[a] = 1
        BY <2>1, <3>1 DEF DecidedInv, AppliedInv, Settled
      <3> QED
        BY <3>2 DEF EffectInv
    <2>2. ASSUME ~Faults, NEW a \in ApprovalIds, effect[a] = "stands"
          PROVE  HasStatus(approvalTask[a], "queued")
      BY <2>2 DEF EffectInv, Standing, Open
    <2> QED
      BY <2>1, <2>2 DEF ApprovalStands
  <1>2. EffectInv /\ IndInv /\ IndInv' /\ DecidedInv /\ [EffectNext]_effectVars => EffectInv'
    BY EffectStep
  <1>3. EffectSpec /\ []IndInv /\ []DecidedInv => []EffectInv
    BY <1>2, EffectStart, PTL DEF EffectSpec
  <1> QED
    BY <1>1, <1>3, EffectImplies, Invariance, DecisionInvariance, PTL
=============================================================================
