-------------------------- MODULE TaskLifecycleInv --------------------------
(***************************************************************************)
(* The inductive invariant of TaskLifecycle from which its theorems are    *)
(* proved: what each thread knows in each of its phases, and why a task    *)
(* that can be run was released.                                           *)
(***************************************************************************)
EXTENDS TaskLifecycle

\* What the worker thread holds in each phase.
WorkerInv ==
  /\ wpc \in Busy => item \in TaskIds
  /\ wpc \notin Busy => item = None
  /\ wpc = "apply" => outcome \in Outcomes
  /\ wpc = "writingRunning" => upd[Worker] # None /\ upd[Worker].task = item
                                 /\ upd[Worker].rec.status = "running"
  /\ wpc = "writingOutcome" => upd[Worker] # None /\ upd[Worker].rec.status \in Outcomes
  /\ wpc = "writingFeedback" => upd[Worker] # None
  /\ wpc = "writingFailed" => upd[Worker] # None /\ upd[Worker].rec.status = "failed"

SchedulerInv ==
  /\ spc \in {"writing", "enqueue"} => stask \in TaskIds
  /\ spc = "writing" => upd[Scheduler] # None

RequestInv ==
  \A r \in Requesters :
    /\ req[r].pc # "idle" => req[r].task \in TaskIds /\ req[r].approval \in ApprovalIds
    /\ req[r].pc = "writing" =>
         upd[r] # None /\ upd[r].rec.status = "waiting_approval"

DecisionInv ==
  \A d \in Deciders :
    /\ dec[d].pc # "idle" =>
         /\ dec[d].approval \in ApprovalIds
         /\ dec[d].decision \in Decisions
         /\ approvalTask[dec[d].approval] \in TaskIds
    /\ dec[d].pc = "writing" =>
         upd[d] # None /\ upd[d].rec.status = StatusAfter(dec[d].decision)
    /\ dec[d].pc = "writingCompleted" =>
         upd[d] # None /\ upd[d].rec.status = "completed"

\* A task that the worker may claim, has claimed, or is about to write back
\* as queued with its feedback, was released and has not been run since.
ReleaseInv ==
  /\ \A t \in TaskIds : HasStatus(t, "queued") => t \in released
  /\ wpc \in {"claimed", "writingRunning"} => item \in released
  /\ wpc = "writingFeedback" /\ upd[Worker].rec.status = "queued"
       => upd[Worker].task \in released

(* The invariant is what the code relies on without writing it down: a     *)
(* thread that is about to write has read, holds what its phase needs, and *)
(* no path to a runnable task goes around a release.                       *)
IndInv ==
  TypeOK /\ WorkerInv /\ SchedulerInv /\ RequestInv /\ DecisionInv /\ ReleaseInv

-----------------------------------------------------------------------------
(***************************************************************************)
(* Decisions.  Nothing in the code keeps two threads from deciding one     *)
(* approval at the same time (resolve_approval reads, then writes); what   *)
(* follows holds as long as they do not.  Any number of approvals may be   *)
(* decided at once.                                                        *)
(***************************************************************************)
DecidedApart ==
  \A d, e \in Deciders :
    d # e /\ dec[d].pc # "idle" /\ dec[e].pc # "idle" => dec[d].approval # dec[e].approval

\* An approval nobody has written yet has no decision, and one requester.
RecordInv ==
  /\ \A a \in ApprovalIds :
       IF approvalTask[a] = None
         THEN a \notin pending /\ completed[a] = None /\ grants[a] = 0
         ELSE a \in pending \/ completed[a] # None
  /\ \A r, s \in Requesters :
       req[r].pc = "approval" =>
         /\ approvalTask[req[r].approval] = None
         /\ req[s].pc = "approval" /\ req[s].approval = req[r].approval => r = s

\* An open approval has released nothing: neither its first decision nor,
\* after a crash or an exception, its second one got that far.
OpenInv ==
  \A a \in ApprovalIds : grants[a] <= 1 /\ (a \in pending => grants[a] = 0)

\* What a decider has brought about in each of its phases.
Deciding == {"resolve", "complete", "delete"}
Applying == {"update", "writing"}
Enabling == {"post", "enable", "finish", "writingCompleted"}

PhaseOf(d) ==
  LET a == dec[d].approval
  IN /\ dec[d].pc = "idle" => a = None
     /\ dec[d].pc \in Deciding => a \in pending
     /\ dec[d].pc \in Applying \cup Enabling => a \notin pending
     /\ dec[d].pc \in {"delete"} \cup Applying => completed[a] = dec[d].decision
     /\ dec[d].pc \in Applying => grants[a] = 0
     /\ dec[d].pc = "writing" => upd[d].task = approvalTask[a]
     /\ dec[d].pc \in Enabling => completed[a] = "approved"

PhaseInv == \A d \in Deciders : PhaseOf(d)

\* Undisturbed, a decision on disk is in the hands of its decider or applied.
Settled(a) ==
  completed[a] # None => a \notin pending /\ (completed[a] = "approved" => grants[a] = 1)

Progress(d) ==
  /\ dec[d].pc \in {"resolve", "complete"} => completed[dec[d].approval] = None
  /\ dec[d].pc \in Enabling => grants[dec[d].approval] = 1

AppliedInv ==
  Undisturbed =>
    /\ \A a \in ApprovalIds : (\A d \in Deciders : dec[d].approval # a) => Settled(a)
    /\ \A d \in Deciders : Progress(d)

\* The scheduler is about to release a task whose hour has come.
HourInv ==
  /\ due \subseteq arrived
  /\ spc = "writing" => upd[Scheduler].task \in arrived

DecidedInv ==
  RecordInv /\ OpenInv /\ PhaseInv /\ AppliedInv /\ ScopeNeedsApproval /\ HourInv
=============================================================================
