---------------------------- MODULE ApprovalFlow ----------------------------
(***************************************************************************)
(* The approval records under data/approvals and the threads that create   *)
(* and decide them:                                                        *)
(*   approval/approval_flow.py            pending and completed files      *)
(*   approval/task_interrupt.py           the interrupt of an approval     *)
(*   approval/approval_request_intake.py  a task asks for an approval      *)
(*   approval/approval_resume_intake.py   a decision is applied to a task  *)
(*   approval/approval_card_action.py     the Feishu card calls the latter *)
(*   feishu/scope_approval.py             approvals that enable a scope    *)
(*                                                                         *)
(* A requester or a decider is a thread inside one of these services: the  *)
(* listener thread of the Feishu client, the runtime worker, the subagent  *)
(* of the background worker, the CLI.  Each file access is a step.         *)
(***************************************************************************)
EXTENDS TaskStore

CONSTANT ServiceFaults   \* may the file accesses of these services raise?

ASSUME ApprovalFlowAssumption == ServiceFaults \in BOOLEAN

VARIABLES
  pending,       \* approvals with a file in pending/ (its status is waiting)
  completed,     \* completed[a]: the decision in the file in completed/, or None
  approvalTask,  \* approvalTask[a]: task_id of the record, None before it exists
  interrupts,    \* approvals that have an interrupt file
  scopeEnabled,  \* scope tasks whose scope the registry holds as enabled
  req,           \* req[r]: progress of requester r
  dec,           \* dec[d]: progress of decider d
  grants         \* history: grants[a] counts how often a released its task

approvalVars ==
  <<pending, completed, approvalTask, interrupts, scopeEnabled, req, dec, grants>>

NoRequest  == [pc |-> "idle", task |-> None, approval |-> None, resume |-> "none"]
NoDecision == [pc |-> "idle", approval |-> None, decision |-> None, card |-> FALSE]

ApprovalInit ==
  /\ pending = {}
  /\ completed = [a \in ApprovalIds |-> None]
  /\ approvalTask = [a \in ApprovalIds |-> None]
  /\ interrupts = {}
  /\ scopeEnabled = {}
  /\ req = [r \in Requesters |-> NoRequest]
  /\ dec = [d \in Deciders |-> NoDecision]
  /\ grants = [a \in ApprovalIds |-> 0]

\* The records of the stores, without the progress of the threads.
recordVars == <<pending, completed, approvalTask, interrupts, scopeEnabled, grants>>

-----------------------------------------------------------------------------
(* Requests: create_request, and request_enable_scope around it.           *)

\* An identifier no record has and no other requester has drawn (uuid4).
Fresh(a) ==
  /\ approvalTask[a] = None
  /\ \A r \in Requesters : req[r].approval # a

RequestPhase(r, from, to) ==
  /\ req[r].pc = from
  /\ req' = [req EXCEPT ![r].pc = to]

\* create_approval_request on an existing task: its status is not looked at.
BeginRequest(r, t, a) ==
  /\ req[r].pc = "idle"
  /\ Exists(t)
  /\ Fresh(a)
  /\ req' = [req EXCEPT ![r] =
       [pc |-> "approval", task |-> t, approval |-> a, resume |-> "tool"]]
  /\ UNCHANGED <<taskVars, recordVars, dec>>

\* request_enable_scope first creates its task, as queued.
BeginScopeRequest(r, t, a) ==
  /\ req[r].pc = "idle"
  /\ t \in ScopeTasks
  /\ Fresh(a)
  /\ CreateAs(t, "queued")
  /\ req' = [req EXCEPT ![r] =
       [pc |-> "approval", task |-> t, approval |-> a, resume |-> "scope"]]
  /\ UNCHANGED <<recordVars, dec>>

WriteApproval(r) ==
  /\ RequestPhase(r, "approval", "interrupt")
  /\ pending' = pending \cup {req[r].approval}
  /\ approvalTask' = [approvalTask EXCEPT ![req[r].approval] = req[r].task]
  /\ UNCHANGED <<taskVars, completed, interrupts, scopeEnabled, dec, grants>>

WriteInterrupt(r) ==
  /\ RequestPhase(r, "interrupt", "update")
  /\ interrupts' = interrupts \cup {req[r].approval}
  /\ UNCHANGED <<taskVars, pending, completed, approvalTask, scopeEnabled, dec, grants>>

BeginWaiting(r) ==
  /\ RequestPhase(r, "update", "writing")
  /\ BeginUpdate(r, req[r].task,
       [tasks[req[r].task] EXCEPT !.status = "waiting_approval",
                                  !.approval = req[r].approval,
                                  !.resume = req[r].resume,
                                  !.approvalStatus = "waiting"])
  /\ UNCHANGED <<recordVars, dec>>

\* After this write the card is sent and the service returns.
WriteWaiting(r) ==
  /\ req[r].pc = "writing"
  /\ CommitUpdate(r)
  /\ req' = [req EXCEPT ![r] = NoRequest]
  /\ UNCHANGED <<recordVars, dec>>

RequestRaises(r) ==
  /\ ServiceFaults
  /\ req[r].pc # "idle"
  /\ AbandonUpdate(r)
  /\ req' = [req EXCEPT ![r] = NoRequest]
  /\ UNCHANGED <<recordVars, dec>>

RequesterThread(r) ==
  \/ \E t \in TaskIds, a \in ApprovalIds :
       BeginRequest(r, t, a) \/ BeginScopeRequest(r, t, a)
  \/ WriteApproval(r) \/ WriteInterrupt(r)
  \/ BeginWaiting(r) \/ WriteWaiting(r)
  \/ RequestRaises(r)

-----------------------------------------------------------------------------
(* Decisions: resume_after_decision, and the card's post-approval action.  *)

DecisionPhase(d, from, to) ==
  /\ dec[d].pc = from
  /\ dec' = [dec EXCEPT ![d].pc = to]

\* A card is sent, and the request tool returns, only after WriteWaiting.
Announced(a) ==
  /\ approvalTask[a] # None
  /\ \A r \in Requesters : req[r].approval # a

\* read_approval looks into pending/ first, then into completed/.
ReadApproval(a) == IF a \in pending THEN "waiting" ELSE completed[a]

\* The checks at the head of resume_after_decision.
BeginDecision(d, a, decision, card) ==
  /\ dec[d].pc = "idle"
  /\ Announced(a)
  /\ ReadApproval(a) = "waiting"
  /\ a \in interrupts
  /\ Exists(approvalTask[a])
  /\ dec' = [dec EXCEPT ![d] =
       [pc |-> "resolve", approval |-> a, decision |-> decision, card |-> card]]
  /\ UNCHANGED <<taskVars, recordVars, req>>

\* Mutant: the task is updated before the approval is resolved.
UpdateBeforeResolve(d) ==
  /\ dec[d].pc = "resolve"
  /\ dec' = IF ReadApproval(dec[d].approval) = "waiting"
              THEN [dec EXCEPT ![d].pc = "update"]
              ELSE [dec EXCEPT ![d] = NoDecision]
  /\ UNCHANGED <<taskVars, recordVars, req>>

\* resolve_approval reads the record again and refuses a completed one.
ReadForResolve(d) ==
  /\ dec[d].pc = "resolve"
  /\ dec' = IF ReadApproval(dec[d].approval) = "waiting"
              THEN [dec EXCEPT ![d].pc = "complete"]
              ELSE [dec EXCEPT ![d] = NoDecision]
  /\ UNCHANGED <<taskVars, recordVars, req>>

WriteCompleted(d) ==
  /\ DecisionPhase(d, "complete", "delete")
  /\ completed' = [completed EXCEPT ![dec[d].approval] = dec[d].decision]
  /\ UNCHANGED <<taskVars, pending, approvalTask, interrupts, scopeEnabled, req, grants>>

\* Mutant: the pending file stays.
KeepPending(d) ==
  /\ DecisionPhase(d, "delete", "update")
  /\ UNCHANGED <<taskVars, recordVars, req>>

DeletePending(d) ==
  /\ DecisionPhase(d, "delete", "update")
  /\ pending' = pending \ {dec[d].approval}
  /\ UNCHANGED <<taskVars, completed, approvalTask, interrupts, scopeEnabled, req, grants>>

\* Mutant: a deferred decision puts the task back on the queue.
StatusAfterRequeue(decision) ==
  CASE decision = "expired"  -> "expired"
    [] decision = "rejected" -> "cancelled"
    [] OTHER -> "queued"

StatusAfter(decision) ==
  CASE decision = "approved" -> "queued"
    [] decision = "expired"  -> "expired"
    [] decision = "deferred" -> "blocked"
    [] decision = "rejected" -> "cancelled"

\* Neither the status of the task nor its approval_id is looked at.
BeginDecisionUpdate(d) ==
  LET a == dec[d].approval
      t == approvalTask[a]
  IN /\ DecisionPhase(d, "update", "writing")
     /\ BeginUpdate(d, t,
          [tasks[t] EXCEPT !.status = StatusAfter(dec[d].decision),
                           !.approval = a,
                           !.approvalStatus = dec[d].decision])
     /\ UNCHANGED <<recordVars, req>>

WriteApproved(d) ==
  /\ dec[d].pc = "writing"
  /\ dec[d].decision = "approved"
  /\ CommitRelease(d)
  /\ grants' = [grants EXCEPT ![dec[d].approval] = @ + 1]
  /\ dec' = IF dec[d].card THEN [dec EXCEPT ![d].pc = "post"]
                           ELSE [dec EXCEPT ![d] = NoDecision]
  /\ UNCHANGED <<pending, completed, approvalTask, interrupts, scopeEnabled, req>>

\* Mutant: the post-approval action follows a declined decision, too.
DeclinedRunsPostAction(d) ==
  /\ dec[d].pc = "writing"
  /\ dec[d].decision # "approved"
  /\ CommitUpdate(d)
  /\ dec' = IF dec[d].card THEN [dec EXCEPT ![d].pc = "enable"]
                           ELSE [dec EXCEPT ![d] = NoDecision]
  /\ UNCHANGED <<recordVars, req>>

WriteDeclined(d) ==
  /\ dec[d].pc = "writing"
  /\ dec[d].decision # "approved"
  /\ CommitUpdate(d)
  /\ dec' = [dec EXCEPT ![d] = NoDecision]
  /\ UNCHANGED <<recordVars, req>>

\* enable_scope_from_approval reads approval and task again.
CheckPostAction(d) ==
  LET a == dec[d].approval
      t == approvalTask[a]
  IN /\ dec[d].pc = "post"
     /\ dec' = IF /\ ReadApproval(a) = "approved"
                  /\ Exists(t)
                  /\ tasks[t].resume = "scope"
                 THEN [dec EXCEPT ![d].pc = "enable"]
                 ELSE [dec EXCEPT ![d] = NoDecision]
     /\ UNCHANGED <<taskVars, recordVars, req>>

\* approve_scope and enable_scope on the scope named by the resume payload.
EnableScope(d) ==
  /\ DecisionPhase(d, "enable", "finish")
  /\ scopeEnabled' = scopeEnabled \cup {approvalTask[dec[d].approval]}
  /\ UNCHANGED <<taskVars, pending, completed, approvalTask, interrupts, req, grants>>

\* _mark_task_completed.
BeginMarkCompleted(d) ==
  LET a == dec[d].approval
      t == approvalTask[a]
  IN /\ DecisionPhase(d, "finish", "writingCompleted")
     /\ BeginUpdate(d, t, [tasks[t] EXCEPT !.status = "completed",
                                           !.approval = a,
                                           !.approvalStatus = "approved"])
     /\ UNCHANGED <<recordVars, req>>

WriteMarkCompleted(d) ==
  /\ dec[d].pc = "writingCompleted"
  /\ CommitUpdate(d)
  /\ dec' = [dec EXCEPT ![d] = NoDecision]
  /\ UNCHANGED <<recordVars, req>>

DecisionRaises(d) ==
  /\ ServiceFaults
  /\ dec[d].pc # "idle"
  /\ AbandonUpdate(d)
  /\ dec' = [dec EXCEPT ![d] = NoDecision]
  /\ UNCHANGED <<recordVars, req>>

DeciderThread(d) ==
  \/ \E a \in ApprovalIds, decision \in Decisions, card \in BOOLEAN :
       BeginDecision(d, a, decision, card)
  \/ ReadForResolve(d) \/ WriteCompleted(d) \/ DeletePending(d)
  \/ BeginDecisionUpdate(d) \/ WriteApproved(d) \/ WriteDeclined(d)
  \/ CheckPostAction(d) \/ EnableScope(d)
  \/ BeginMarkCompleted(d) \/ WriteMarkCompleted(d)
  \/ DecisionRaises(d)

ApprovalTypeOK ==
  /\ pending \subseteq ApprovalIds
  /\ completed \in [ApprovalIds -> Decisions \cup {None}]
  /\ approvalTask \in [ApprovalIds -> TaskIds \cup {None}]
  /\ interrupts \subseteq ApprovalIds
  /\ scopeEnabled \subseteq TaskIds
  /\ req \in [Requesters ->
       [pc : {"idle", "approval", "interrupt", "update", "writing"},
        task : TaskIds \cup {None},
        approval : ApprovalIds \cup {None},
        resume : ResumePoints]]
  /\ dec \in [Deciders ->
       [pc : {"idle", "resolve", "complete", "delete", "update", "writing",
              "post", "enable", "finish", "writingCompleted"},
        approval : ApprovalIds \cup {None},
        decision : Decisions \cup {None},
        card : BOOLEAN]]
  /\ grants \in [ApprovalIds -> Nat]
=============================================================================
