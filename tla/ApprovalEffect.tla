--------------------------- MODULE ApprovalEffect ---------------------------
(***************************************************************************)
(* What becomes of an approval on disk.  resume_after_decision writes the  *)
(* task of an approved request as queued; every other thread writes whole  *)
(* records over the same file.  The history variable effect follows each   *)
(* approval from that write on; it reads the steps of TaskLifecycle and    *)
(* restricts none of them.                                                 *)
(***************************************************************************)
EXTENDS TaskLifecycleInv

VARIABLE
  effect   \* history: effect[a]: what has become of the release a gave its task

\* "none"       a has released nothing (yet)
\* "stands"     released, and it is the worker's turn
\* "run"        the worker has started a run of the task since
\* "contended"  somebody else was writing the task, or has taken it up since
Effects == {"none", "stands", "run", "contended"}

\* A request or a decision on t has read its record and not written it yet.
Rewriting(t) ==
  \E th \in Requesters \cup Deciders : upd[th] # None /\ upd[th].task = t

\* The worker is in a run of t, or has refused it, and is going to write how
\* that ended; of its feedback it has read a record that is not queued.
Finishing(t) ==
  /\ item = t
  /\ \/ wpc \in {"running", "apply", "writingOutcome", "failing", "writingFailed"}
     \/ wpc = "writingFeedback" /\ upd[Worker].rec.status # "queued"

\* The run of t is on disk.
RunStarts(t) == wpc = "writingRunning" /\ wpc' = "running" /\ item = t

\* The release of a is disputed: somebody is about to write over it.
Disputed(a) == Rewriting(approvalTask[a]) \/ Finishing(approvalTask[a])

\* The release stands until the run starts or a service takes the task up.
StandsOn(a) ==
  IF RunStarts(approvalTask[a]) THEN "run"
  ELSE IF Rewriting(approvalTask[a])' THEN "contended"
  ELSE "stands"

EffectAfter(a) ==
  IF grants'[a] > grants[a] THEN IF Disputed(a)' THEN "contended" ELSE "stands"
  ELSE IF effect[a] = "stands" THEN StandsOn(a)
  ELSE effect[a]

effectVars == <<vars, effect>>

EffectInit == Init /\ effect = [a \in ApprovalIds |-> "none"]

EffectNext == Next /\ effect' = [a \in ApprovalIds |-> EffectAfter(a)]

EffectSpec == EffectInit /\ [][EffectNext]_effectVars

-----------------------------------------------------------------------------
(* An approved decision takes effect on disk.  Undisturbed, once its       *)
(* decider is done its task has been released for it; and unless the       *)
(* worker was just finishing that task, or another request or decision     *)
(* was rewriting it or has taken it up since, its file says queued until   *)
(* the worker starts a run: no stale record of the scheduler, no feedback  *)
(* of the run before, no work item that is left over and no crash takes    *)
(* that back.  What is excepted is lost in the code: the outcome of a run  *)
(* is written over whatever the file says (background_task_worker.py:267). *)
ApprovalStands ==
  /\ Undisturbed =>
       \A a \in ApprovalIds :
         completed[a] = "approved" /\ (\A d \in Deciders : dec[d].approval # a)
           => effect[a] # "none"
  /\ ~Faults =>
       \A a \in ApprovalIds :
         effect[a] = "stands" => HasStatus(approvalTask[a], "queued")

-----------------------------------------------------------------------------
(***************************************************************************)
(* The invariant behind it.  A task whose release stands is in nobody's    *)
(* hands but the scheduler's, who can only write queued once more, and the *)
(* worker's on its way to the run.                                         *)
(***************************************************************************)
UpdateOfItem ==
  wpc \in {"writingRunning", "writingOutcome", "writingFeedback", "writingFailed"}
    => upd[Worker].task = item

SchedulerQueues == spc = "writing" => upd[Scheduler].rec.status = "queued"

Open(t) == HasStatus(t, "queued") /\ ~Rewriting(t) /\ ~Finishing(t)

Standing ==
  ~Faults =>
    \A a \in ApprovalIds :
      effect[a] = "stands" => approvalTask[a] # None /\ Open(approvalTask[a])

EffectInv ==
  /\ effect \in [ApprovalIds -> Effects]
  /\ \A a \in ApprovalIds : grants[a] > 0 => effect[a] # "none"
  /\ UpdateOfItem
  /\ SchedulerQueues
  /\ Standing
=============================================================================
