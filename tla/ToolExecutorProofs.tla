------------------------- MODULE ToolExecutorProofs -------------------------
(***************************************************************************)
(* For any number of calls, any declarations and any pool size: batches do *)
(* not overlap, sensitive tools run only approved, the shared agent state  *)
(* loses no scope and counts each one, and the executor implements         *)
(* ToolTurn.                                                               *)
(***************************************************************************)
EXTENDS ToolExecutor, FiniteSetTheorems, TLAPS

\* The types of one call, and that no safe tool is sensitive.
LEMMA CallFacts ==
  ASSUME TypeOK, NEW c \in Calls
  PROVE  /\ tool[c] \in Declarations
         /\ tool[c].retries \in Nat
         /\ RetryBudget(tool[c]) \in Nat
         /\ RouteSafe(c) => ~Sensitive(tool[c])
         /\ pc[c] \in Phases /\ attempt[c] \in Nat /\ live[c] \in Nat
         /\ event[c] \in FailureKinds
<1>1. tool[c] \in Declarations /\ pc[c] \in Phases /\ attempt[c] \in Nat /\ live[c] \in Nat
      /\ event[c] \in FailureKinds
  BY ExecutorAssumption DEF TypeOK
<1>2. tool[c].retries \in Nat
  BY <1>1 DEF Declarations
<1>3. RetryBudget(tool[c]) \in Nat
  BY <1>2, ExecutorAssumption DEF RetryBudget
<1>4. RouteSafe(c) => ~Sensitive(tool[c])
  <2>1. tool[c] \in Tools
    BY DEF TypeOK
  <2> QED
    BY <2>1, ExecutorAssumption DEF RouteSafe, Sensitive
<1> QED
  BY <1>1, <1>2, <1>3, <1>4

----------------------------------------------------------------------------
(* The changes of the agent state *)

\* Every change of the agent state yields an agent state, and recording an
\* attempt leaves the scopes alone.
LEMMA ChangeTypes ==
  ASSUME NEW s \in AgentState, NEW c \in Calls, NEW kind \in FailureKinds
  PROVE  /\ RecordRecoveryAttempt(s, kind) \in AgentState
         /\ RecordRecoveryAttempt(s, kind).scopes = s.scopes
         /\ UpsertRecoveryScope(s, c, kind) \in AgentState
         /\ \A status \in {"resolved", "exhausted"} :
              ResolveRecoveryScope(s, c, status) \in AgentState
<1>1. RecordRecoveryAttempt(s, kind) \in AgentState
      /\ RecordRecoveryAttempt(s, kind).scopes = s.scopes
  <2> DEFINE a == CASE kind = "approval_waiting" -> "waiting"
                    [] kind = "approval_rejected" -> "rejected"
                    [] OTHER -> s.approval
  <2>1. a \in {"none", "waiting", "approved", "rejected"}
    <3>1. CASE kind = "approval_waiting"
      BY <3>1
    <3>2. CASE kind = "approval_rejected"
      BY <3>2
    <3>3. CASE kind # "approval_waiting" /\ kind # "approval_rejected"
      <4>1. a = s.approval
        BY <3>3
      <4> QED
        BY <4>1 DEF AgentState
    <3> QED
      BY <3>1, <3>2, <3>3
  <2> DEFINE n == IF kind = "approval_rejected" THEN s.attempts ELSE s.attempts + 1
             t == IF kind \in ToolFailures THEN "retrying" ELSE s.retry
  <2>2. s.errors + 1 \in Nat /\ n \in Nat /\ t \in {"none", "retrying"}
    BY DEF AgentState
  <2>3. RecordRecoveryAttempt(s, kind) =
          [s EXCEPT !.errors = s.errors + 1, !.attempts = n, !.approval = a, !.retry = t]
    BY DEF RecordRecoveryAttempt
  <2> HIDE DEF a, n, t
  <2> QED
    BY <2>1, <2>2, <2>3 DEF AgentState
<1>2. UpsertRecoveryScope(s, c, kind) \in AgentState
  <2>1. [call |-> c, kind |-> kind, status |-> InitialStatus(kind)] \in Scopes
    BY DEF Scopes, InitialStatus
  <2> QED
    BY <2>1 DEF UpsertRecoveryScope, AgentState
<1>3. ASSUME NEW status \in {"resolved", "exhausted"}
      PROVE  ResolveRecoveryScope(s, c, status) \in AgentState
  <2>1. \A x \in s.scopes : [x EXCEPT !.status = status] \in Scopes /\ x \in Scopes
    BY DEF Scopes, AgentState
  <2>2. {IF x.call = c /\ x.kind = "approval_waiting"
         THEN [x EXCEPT !.status = status] ELSE x : x \in s.scopes} \in SUBSET Scopes
    BY <2>1
  <2> QED
    BY <2>2 DEF ResolveRecoveryScope, AgentState
<1> QED
  BY <1>1, <1>2, <1>3

\* Every step keeps the types.
LEMMA TypeStep == TypeOK /\ LockOrder /\ AttemptOrder /\ [Next]_vars => TypeOK'
<1> SUFFICES ASSUME TypeOK, LockOrder, AttemptOrder, [Next]_vars
             PROVE  TypeOK'
  OBVIOUS
<1>1. CASE UNCHANGED vars
  BY <1>1 DEF TypeOK, vars, AgentState, Scopes
<1>2. CASE Return
  BY <1>2 DEF Return, TypeOK, rigid
<1>3. ASSUME NEW c \in Calls, Begin(c)
      PROVE  TypeOK'
  BY <1>3 DEF Begin, Move, TypeOK, rigid, Phases
<1>4. ASSUME NEW c \in Calls, Validate(c)
      PROVE  TypeOK'
  BY <1>4 DEF Validate, Move, Answer, TypeOK, rigid, Phases, Results
<1>5. ASSUME NEW c \in Calls, EnforcePermission(c)
      PROVE  TypeOK'
  BY <1>5 DEF EnforcePermission, Move, TypeOK, rigid, Phases, FailureKinds
<1>6. ASSUME NEW c \in Calls, RequestUserApproval(c)
      PROVE  TypeOK'
  BY <1>6 DEF RequestUserApproval, Move, TypeOK, rigid, Phases, FailureKinds
<1>7. ASSUME NEW c \in Calls, ReadState(c)
      PROVE  TypeOK'
  BY <1>7 DEF ReadState, TypeOK, rigid
<1>8. ASSUME NEW c \in Calls, WriteState(c)
      PROVE  TypeOK'
  <2>1. Change(c, copy[c]) \in AgentState
    BY <1>8, ChangeTypes DEF WriteState, LockOrder, Change, TypeOK
  <2>2. Fresh \in AgentState
    BY DEF Fresh, AgentState
  <2>3. pc' \in [Calls -> Phases] /\ result' \in [Calls -> Results \cup {NoResult}]
    BY <1>8 DEF WriteState, Continue, Move, Answer, TypeOK, Phases, Results
  <2> QED
    BY <1>8, <2>1, <2>2, <2>3 DEF WriteState, TypeOK, rigid
<1>9. ASSUME NEW c \in Calls, StartAttempt(c)
      PROVE  TypeOK'
  BY <1>9 DEF StartAttempt, Move, TypeOK, rigid, Phases
<1>10. ASSUME NEW c \in Calls, NEW r \in HandlerOutcomes, AttemptEnds(c, r)
       PROVE  /\ pc' \in [Calls -> Phases] /\ event' \in [Calls -> FailureKinds]
              /\ result' \in [Calls -> Results \cup {NoResult}]
  BY <1>10
     DEF AttemptEnds, Move, Answer, TypeOK, Phases, Results, FailureKinds,
         ToolFailureEvent
<1>11. ASSUME NEW c \in Calls, HandlerReturns(c)
       PROVE  TypeOK'
  <2>1. pc[c] = "running" /\ live[c] > 0 /\ live' = [live EXCEPT ![c] = @ - 1]
    BY <1>11 DEF HandlerReturns, AttemptEnds, AttemptOrder
  <2> QED
    BY <1>10, <1>11, <2>1 DEF HandlerReturns, TypeOK, rigid
<1>12. ASSUME NEW c \in Calls, TimeOut(c)
       PROVE  TypeOK'
  BY <1>10, <1>12 DEF TimeOut, TypeOK, rigid, HandlerOutcomes, Retryable
<1>13. ASSUME NEW c \in Calls, StrayHandlerEnds(c)
       PROVE  TypeOK'
  BY <1>13 DEF StrayHandlerEnds, Stray, TypeOK, rigid
<1>14. ASSUME NEW c \in Calls, SleepBeforeRetry(c)
       PROVE  TypeOK'
  BY <1>14 DEF SleepBeforeRetry, Move, TypeOK, rigid, Phases
<1> QED
  BY <1>1, <1>2, <1>3, <1>4, <1>5, <1>6, <1>7, <1>8, <1>9, <1>11, <1>12, <1>13, <1>14
     DEF Next, ExecuteOneRoute

----------------------------------------------------------------------------
(* The actions that leave the agent state alone *)

\* The state and the pending registrations decide ScopeOrder, ScopeKinds and
\* CountOrder.
LEMMA CountFrame ==
  ASSUME CountOrder, state' = state,
         \A c \in Calls : pc[c] = "upsert" <=> pc'[c] = "upsert",
         \A c \in Calls : pc[c] = "upsert" => event'[c] = event[c]
  PROVE  CountOrder'
<1>1. {c \in Calls : pc[c] = "upsert"}' = {c \in Calls : pc[c] = "upsert"}
  OBVIOUS
<1>2. {c \in Calls : pc[c] = "upsert" /\ event[c] # "approval_rejected"}' =
        {c \in Calls : pc[c] = "upsert" /\ event[c] # "approval_rejected"}
  OBVIOUS
<1> QED
  BY <1>1, <1>2 DEF CountOrder, Counted

\* A batch order survives steps that neither take a call from the queue nor
\* revive one that is done.
LEMMA BatchFrame ==
  ASSUME BatchOrder, UNCHANGED tool,
         \A c \in Calls : (pc[c] = "queued" <=> pc'[c] = "queued")
                          /\ (pc[c] = "done" => pc'[c] = "done")
  PROVE  BatchOrder'
BY DEF BatchOrder, RouteSafe

\* What a call's phase says of the scopes is not disturbed by steps of others.
LEMMA ScopeFrame ==
  ASSUME NEW c \in Calls, ScopeOrder, UNCHANGED rigid, state' = state,
         \A d \in Calls \ {c} :
           pc'[d] = pc[d] /\ event'[d] = event[d] /\ attempt'[d] = attempt[d],
         ScopePhase(c)'
  PROVE  ScopeOrder'
<1>1. ASSUME NEW d \in Calls \ {c}
      PROVE  ScopePhase(d)'
  <2>1. ScopePhase(d)
    BY DEF ScopeOrder
  <2> QED
    BY <2>1 DEF ScopePhase, Asked, Approved, Approval, rigid
<1> QED
  BY <1>1 DEF ScopeOrder

\* One lemma per action: it keeps the inductive invariant.
LEMMA BeginStep ==
  ASSUME IndInv, TypeOK', NEW c \in Calls, Begin(c)
  PROVE  IndInv'
<1>1. LockOrder'
  BY DEF IndInv, TypeOK, Begin, Move, LockOrder
<1>2. BatchOrder'
  <2>1. ASSUME NEW d \in Calls, d < c
        PROVE  pc[d] # "queued" /\ (pc[d] = "done" \/ (RouteSafe(d) /\ RouteSafe(c)))
    BY <2>1 DEF Begin, MayBegin, Active, SameBatch, Calls
  <2>2. pc[c] = "queued" /\ pc' = [pc EXCEPT ![c] = "validate"] /\ UNCHANGED tool
    BY DEF Begin, Move, rigid
  <2>3. SUFFICES ASSUME NEW d \in Calls, NEW e \in Calls, d < e, pc'[e] # "queued"
                 PROVE  pc'[d] # "queued"
                        /\ (pc'[d] = "done" \/ (RouteSafe(d) /\ RouteSafe(e))')
    BY DEF BatchOrder
  <2>4. (RouteSafe(d) <=> RouteSafe(d)') /\ (RouteSafe(e) <=> RouteSafe(e)')
    BY <2>2 DEF RouteSafe
  <2>5. d # e
    BY <2>3 DEF Calls
  <2>6. CASE e = c
    BY <2>1, <2>2, <2>3, <2>4, <2>5, <2>6 DEF IndInv, TypeOK
  <2>7. CASE e # c
    BY <2>2, <2>3, <2>4, <2>7 DEF IndInv, TypeOK, BatchOrder
  <2> QED
    BY <2>6, <2>7
<1>3. AttemptOrder'
  BY DEF IndInv, TypeOK, Begin, Move, AttemptOrder, MayRunAgain, rigid
<1>4. ScopeOrder'
  <2>1. ScopePhase(c)'
    BY DEF IndInv, TypeOK, Begin, Move, ScopeOrder, ScopePhase, Asked, Approved,
           Approval, rigid,
           AttemptOrder
  <2> QED
    BY <2>1, ScopeFrame DEF IndInv, TypeOK, Begin, Move, rigid
<1>5. ResultOrder'
  BY DEF IndInv, TypeOK, Begin, Move, ResultOrder, RetryExhausted, rigid
<1>6. FailureHasScope'
  BY DEF IndInv, TypeOK, Begin, Move, FailureHasScope, FailureScope, ToolFailureEvent,
         RetryExhausted, rigid
<1>7. ScopeKinds'
  BY DEF IndInv, TypeOK, Begin, Move, ScopeKinds, Approved
<1>8. CountOrder'
  BY CountFrame DEF IndInv, TypeOK, Begin, Move
<1> QED
  BY <1>1, <1>2, <1>3, <1>4, <1>5, <1>6, <1>7, <1>8 DEF IndInv

LEMMA ReturnStep ==
  ASSUME IndInv, TypeOK', Return
  PROVE  IndInv'
<1>1. LockOrder'
  BY DEF IndInv, TypeOK, Return, LockOrder
<1>2. BatchOrder'
  BY BatchFrame DEF IndInv, TypeOK, Return, rigid
<1>3. AttemptOrder'
  BY DEF IndInv, TypeOK, Return, AttemptOrder, MayRunAgain, rigid
<1>4. ScopeOrder'
  BY DEF IndInv, TypeOK, Return, ScopeOrder, ScopePhase, Asked, Approved, Approval,
         rigid
<1>5. ResultOrder'
  BY DEF IndInv, TypeOK, Return, ResultOrder, RetryExhausted, rigid, Refusals,
         ToolFailures, Results, HandlerOutcomes, Retryable
<1>6. FailureHasScope'
  BY DEF IndInv, TypeOK, Return, FailureHasScope, FailureScope, ToolFailureEvent,
         RetryExhausted, rigid
<1>7. ScopeKinds'
  BY DEF IndInv, TypeOK, Return, ScopeKinds, Approved, Scopes, AgentState
<1>8. CountOrder'
  BY CountFrame DEF IndInv, TypeOK, Return, rigid
<1> QED
  BY <1>1, <1>2, <1>3, <1>4, <1>5, <1>6, <1>7, <1>8 DEF IndInv

LEMMA ValidateStep ==
  ASSUME IndInv, TypeOK', NEW c \in Calls, Validate(c)
  PROVE  IndInv'
<1>1. LockOrder'
  BY DEF IndInv, TypeOK, Validate, Move, Answer, LockOrder
<1>2. BatchOrder'
  BY BatchFrame DEF IndInv, TypeOK, Validate, Move, Answer, rigid
<1>3. AttemptOrder'
  BY DEF IndInv, TypeOK, Validate, Move, Answer, AttemptOrder, MayRunAgain, rigid
<1>4. ScopeOrder'
  <2>1. ScopePhase(c)'
    BY DEF IndInv, TypeOK, Validate, Move, Answer, ScopeOrder, ScopePhase, Asked,
           Approved, Approval, rigid
  <2> QED
    BY <2>1, ScopeFrame DEF IndInv, TypeOK, Validate, Move, Answer, rigid
<1>5. ResultOrder'
  BY DEF IndInv, TypeOK, Validate, Move, Answer, ResultOrder, RetryExhausted, rigid,
         Refusals, ToolFailures, Results, HandlerOutcomes, Retryable
<1>6. FailureHasScope'
  BY DEF IndInv, TypeOK, Validate, Move, Answer, FailureHasScope, FailureScope,
         ToolFailureEvent, RetryExhausted, rigid,
         ToolFailures
<1>7. ScopeKinds'
  BY DEF IndInv, TypeOK, Validate, Move, Answer, ScopeKinds, Approved, Scopes,
         AgentState
<1>8. CountOrder'
  BY CountFrame DEF IndInv, TypeOK, Validate, Move, Answer, rigid
<1> QED
  BY <1>1, <1>2, <1>3, <1>4, <1>5, <1>6, <1>7, <1>8 DEF IndInv

LEMMA EnforcePermissionStep ==
  ASSUME IndInv, TypeOK', NEW c \in Calls, EnforcePermission(c)
  PROVE  IndInv'
<1>1. LockOrder'
  BY DEF IndInv, TypeOK, EnforcePermission, Move, LockOrder
<1>2. BatchOrder'
  BY BatchFrame DEF IndInv, TypeOK, EnforcePermission, Move, rigid
<1>3. AttemptOrder'
  BY DEF IndInv, TypeOK, EnforcePermission, Move, AttemptOrder, MayRunAgain, rigid
<1>4. ScopeOrder'
  <2>1. ScopePhase(c)'
    BY DEF IndInv, TypeOK, EnforcePermission, Move, ScopeOrder, ScopePhase, Asked,
           Approved,
           Approval, rigid, Decide, AttemptOrder
  <2> QED
    BY <2>1, ScopeFrame DEF IndInv, TypeOK, EnforcePermission, Move, rigid
<1>5. ResultOrder'
  BY DEF IndInv, TypeOK, EnforcePermission, Move, ResultOrder, RetryExhausted, rigid,
         Refusals, ToolFailures, Results, HandlerOutcomes, Retryable
<1>6. FailureHasScope'
  BY DEF IndInv, TypeOK, EnforcePermission, Move, FailureHasScope, FailureScope,
         ToolFailureEvent, RetryExhausted, rigid
<1>7. ScopeKinds'
  BY DEF IndInv, TypeOK, EnforcePermission, Move, ScopeKinds, Approved, Scopes,
         AgentState
<1>8. CountOrder'
  BY CountFrame DEF IndInv, TypeOK, EnforcePermission, Move, rigid
<1> QED
  BY <1>1, <1>2, <1>3, <1>4, <1>5, <1>6, <1>7, <1>8 DEF IndInv

LEMMA RequestUserApprovalStep ==
  ASSUME IndInv, TypeOK', NEW c \in Calls, RequestUserApproval(c)
  PROVE  IndInv'
<1>1. LockOrder'
  BY DEF IndInv, TypeOK, RequestUserApproval, Move, LockOrder
<1>2. BatchOrder'
  BY BatchFrame DEF IndInv, TypeOK, RequestUserApproval, Move, rigid
<1>3. AttemptOrder'
  BY DEF IndInv, TypeOK, RequestUserApproval, Move, AttemptOrder, MayRunAgain, rigid
<1>4. ScopeOrder'
  <2>1. ScopePhase(c)'
    BY DEF IndInv, TypeOK, RequestUserApproval, Move, ScopeOrder, ScopePhase, Asked,
           Approved, Approval, rigid
  <2> QED
    BY <2>1, ScopeFrame DEF IndInv, TypeOK, RequestUserApproval, Move, rigid
<1>5. ResultOrder'
  BY DEF IndInv, TypeOK, RequestUserApproval, Move, ResultOrder, RetryExhausted, rigid,
         Refusals, ToolFailures, Results, HandlerOutcomes, Retryable
<1>6. FailureHasScope'
  BY DEF IndInv, TypeOK, RequestUserApproval, Move, FailureHasScope, FailureScope,
         ToolFailureEvent, RetryExhausted, rigid
<1>7. ScopeKinds'
  BY DEF IndInv, TypeOK, RequestUserApproval, Move, ScopeKinds, Approved, Scopes,
         AgentState
<1>8. CountOrder'
  BY CountFrame DEF IndInv, TypeOK, RequestUserApproval, Move, rigid
<1> QED
  BY <1>1, <1>2, <1>3, <1>4, <1>5, <1>6, <1>7, <1>8 DEF IndInv

LEMMA ReadStateStep ==
  ASSUME IndInv, TypeOK', NEW c \in Calls, ReadState(c)
  PROVE  IndInv'
<1>1. LockOrder'
  BY DEF IndInv, TypeOK, ReadState, LockOrder
<1>2. BatchOrder'
  BY BatchFrame DEF IndInv, TypeOK, ReadState, rigid
<1>3. AttemptOrder'
  BY DEF IndInv, TypeOK, ReadState, AttemptOrder, MayRunAgain, rigid
<1>4. ScopeOrder'
  <2>1. UNCHANGED <<tool, mode, prompts, pc, attempt, event, state>>
    BY DEF ReadState, rigid
  <2>2. \A d \in Calls : ScopePhase(d)' <=> ScopePhase(d)
    BY <2>1 DEF ScopePhase, Asked, Approved, Approval
  <2> QED
    BY <2>2 DEF IndInv, ScopeOrder
<1>5. ResultOrder'
  BY DEF IndInv, TypeOK, ReadState, ResultOrder, RetryExhausted, rigid, Refusals,
         ToolFailures, Results, HandlerOutcomes, Retryable
<1>6. FailureHasScope'
  BY DEF IndInv, TypeOK, ReadState, FailureHasScope, FailureScope, ToolFailureEvent,
         RetryExhausted, rigid
<1>7. ScopeKinds'
  BY DEF IndInv, TypeOK, ReadState, ScopeKinds, Approved, Scopes, AgentState
<1>8. CountOrder'
  BY CountFrame DEF IndInv, TypeOK, ReadState, rigid
<1> QED
  BY <1>1, <1>2, <1>3, <1>4, <1>5, <1>6, <1>7, <1>8 DEF IndInv

LEMMA StartAttemptStep ==
  ASSUME IndInv, TypeOK', NEW c \in Calls, StartAttempt(c)
  PROVE  IndInv'
<1>1. LockOrder'
  BY DEF IndInv, TypeOK, StartAttempt, Move, LockOrder
<1>2. BatchOrder'
  BY BatchFrame DEF IndInv, TypeOK, StartAttempt, Move, rigid
<1>3. AttemptOrder'
  <2>1. pc[c] = "start" /\ attempt[c] \in Nat /\ live[c] \in Nat /\ RetryBudget(tool[c]) \in Nat
    BY CallFacts DEF StartAttempt, Move, IndInv
  <2>2. /\ pc' = [pc EXCEPT ![c] = "running"] /\ attempt' = [attempt EXCEPT ![c] = @ + 1]
        /\ live' = [live EXCEPT ![c] = @ + 1] /\ UNCHANGED <<tool, event>>
    BY DEF StartAttempt, Move, rigid
  <2>3. /\ live[c] <= attempt[c]
        /\ attempt[c] > 0 => MayRunAgain(c) /\ attempt[c] <= RetryBudget(tool[c])
    BY <2>1 DEF IndInv, AttemptOrder
  <2>4. /\ live'[c] <= attempt'[c] /\ live'[c] > 0 /\ pc'[c] = "running"
        /\ attempt'[c] <= RetryBudget(tool[c]) + 1
        /\ attempt'[c] > 1 => MayRunAgain(c)
    BY <2>1, <2>2, <2>3 DEF IndInv, TypeOK
  <2> QED
    BY <2>2, <2>4 DEF IndInv, TypeOK, AttemptOrder, MayRunAgain
<1>4. ScopeOrder'
  <2>1. ScopePhase(c)'
    BY CallFacts
       DEF IndInv, TypeOK, StartAttempt, Move, ScopeOrder, ScopePhase, Asked, Approved,
           Approval, rigid
  <2> QED
    BY <2>1, ScopeFrame DEF IndInv, TypeOK, StartAttempt, Move, rigid
<1>5. ResultOrder'
  BY DEF IndInv, TypeOK, StartAttempt, Move, ResultOrder, RetryExhausted, rigid,
         Refusals, ToolFailures, Results, HandlerOutcomes, Retryable
<1>6. FailureHasScope'
  BY DEF IndInv, TypeOK, StartAttempt, Move, FailureHasScope, FailureScope,
         ToolFailureEvent, RetryExhausted, rigid
<1>7. ScopeKinds'
  BY DEF IndInv, TypeOK, StartAttempt, Move, ScopeKinds, Approved, Scopes, AgentState
<1>8. CountOrder'
  BY CountFrame DEF IndInv, TypeOK, StartAttempt, Move, rigid
<1> QED
  BY <1>1, <1>2, <1>3, <1>4, <1>5, <1>6, <1>7, <1>8 DEF IndInv

LEMMA SleepBeforeRetryStep ==
  ASSUME IndInv, TypeOK', NEW c \in Calls, SleepBeforeRetry(c)
  PROVE  IndInv'
<1>1. LockOrder'
  BY DEF IndInv, TypeOK, SleepBeforeRetry, Move, LockOrder
<1>2. BatchOrder'
  BY BatchFrame DEF IndInv, TypeOK, SleepBeforeRetry, Move, rigid
<1>3. AttemptOrder'
  BY DEF IndInv, TypeOK, SleepBeforeRetry, Move, AttemptOrder, MayRunAgain, rigid
<1>4. ScopeOrder'
  <2>1. ScopePhase(c)'
    BY DEF IndInv, TypeOK, SleepBeforeRetry, Move, ScopeOrder, ScopePhase, Asked,
           Approved,
           Approval, rigid, AttemptOrder
  <2> QED
    BY <2>1, ScopeFrame DEF IndInv, TypeOK, SleepBeforeRetry, Move, rigid
<1>5. ResultOrder'
  BY DEF IndInv, TypeOK, SleepBeforeRetry, Move, ResultOrder, RetryExhausted, rigid,
         Refusals, ToolFailures, Results, HandlerOutcomes, Retryable
<1>6. FailureHasScope'
  BY DEF IndInv, TypeOK, SleepBeforeRetry, Move, FailureHasScope, FailureScope,
         ToolFailureEvent, RetryExhausted, rigid
<1>7. ScopeKinds'
  BY DEF IndInv, TypeOK, SleepBeforeRetry, Move, ScopeKinds, Approved, Scopes,
         AgentState
<1>8. CountOrder'
  BY CountFrame DEF IndInv, TypeOK, SleepBeforeRetry, Move, rigid
<1> QED
  BY <1>1, <1>2, <1>3, <1>4, <1>5, <1>6, <1>7, <1>8 DEF IndInv

LEMMA StrayHandlerEndsStep ==
  ASSUME IndInv, TypeOK', NEW c \in Calls, StrayHandlerEnds(c)
  PROVE  IndInv'
<1>1. LockOrder'
  BY DEF IndInv, TypeOK, StrayHandlerEnds, Stray, LockOrder
<1>2. BatchOrder'
  BY BatchFrame DEF IndInv, TypeOK, StrayHandlerEnds, Stray, rigid
<1>3. AttemptOrder'
  BY DEF IndInv, TypeOK, StrayHandlerEnds, Stray, AttemptOrder, MayRunAgain, rigid
<1>4. ScopeOrder'
  BY DEF IndInv, TypeOK, StrayHandlerEnds, Stray, ScopeOrder, ScopePhase, Asked,
         Approved, Approval, rigid
<1>5. ResultOrder'
  BY DEF IndInv, TypeOK, StrayHandlerEnds, Stray, ResultOrder, RetryExhausted, rigid,
         Refusals, ToolFailures, Results, HandlerOutcomes, Retryable
<1>6. FailureHasScope'
  BY DEF IndInv, TypeOK, StrayHandlerEnds, Stray, FailureHasScope, FailureScope,
         ToolFailureEvent, RetryExhausted, rigid
<1>7. ScopeKinds'
  BY DEF IndInv, TypeOK, StrayHandlerEnds, Stray, ScopeKinds, Approved, Scopes,
         AgentState
<1>8. CountOrder'
  BY CountFrame DEF IndInv, TypeOK, StrayHandlerEnds, Stray, rigid
<1> QED
  BY <1>1, <1>2, <1>3, <1>4, <1>5, <1>6, <1>7, <1>8 DEF IndInv

\* The end of an attempt, whether its handler's thread has ended or not.
LEMMA AttemptEndsStep ==
  ASSUME IndInv, TypeOK', NEW c \in Calls, NEW r \in HandlerOutcomes, AttemptEnds(c, r),
         live' = live \/ live' = [live EXCEPT ![c] = @ - 1],
         UNCHANGED <<rigid, attempt, state, lock, copy, returned>>
  PROVE  IndInv'
<1> DEFINE to == pc'[c]
<1>1. pc[c] = "running" /\ pc' = [pc EXCEPT ![c] = to] /\ to \in {"backoff", "record", "done"}
  BY DEF IndInv, TypeOK, AttemptEnds, Move, Answer
<1>2. event' = [event EXCEPT ![c] = event'[c]] /\ result' = [result EXCEPT ![c] = result'[c]]
  BY DEF IndInv, TypeOK, AttemptEnds, Answer
<1>3. /\ to = "backoff" => ShouldRetry(c, r) /\ result'[c] = result[c]
      /\ to = "record" =>
           event'[c] = r /\ result'[c] = r /\ r \in ToolFailures /\ RetryExhausted(c, r)
      /\ to = "done" => result'[c] = r /\ ~ToolFailureEvent(c, r)
  BY <1>1 DEF IndInv, TypeOK, AttemptEnds, Move, Answer, ToolFailureEvent
<1>4. \A d \in Calls : ToolFailureEvent(d, result[d])' <=> ToolFailureEvent(d, result'[d])
  BY DEF rigid, ToolFailureEvent, RetryExhausted
<1>5. r \notin Refusals /\ r \in Results
  BY DEF HandlerOutcomes, Retryable, Refusals, Results
<1> HIDE DEF to
<1>6. LockOrder'
  BY <1>1 DEF IndInv, TypeOK, LockOrder
<1>7. BatchOrder'
  BY <1>1, BatchFrame DEF IndInv, TypeOK, rigid
<1>8. AttemptOrder'
  <2>1. attempt[c] \in Nat /\ live[c] \in Nat /\ RetryBudget(tool[c]) \in Nat
        /\ live[c] > 0 /\ live[c] <= attempt[c]
    BY <1>1, CallFacts DEF IndInv, AttemptOrder
  <2>2. to = "backoff" => MayRunAgain(c) /\ attempt[c] <= RetryBudget(tool[c])
    BY <1>3, <2>1 DEF ShouldRetry, RetryAllowedByPolicy, MayRunAgain
  <2>3. live'[c] <= attempt[c]
    BY <2>1 DEF IndInv, TypeOK
  <2>4. \A d \in Calls \ {c} : live'[d] = live[d] /\ pc'[d] = pc[d] /\ event'[d] = event[d]
    BY <1>1, <1>2 DEF IndInv, TypeOK
  <2>5. \A d \in Calls : MayRunAgain(d)' <=> MayRunAgain(d)
    BY DEF MayRunAgain, rigid
  <2> QED
    BY <1>1, <1>3, <1>5, <2>1, <2>2, <2>3, <2>4, <2>5
       DEF IndInv, TypeOK, AttemptOrder, rigid, to
<1>9. ScopeOrder'
  <2>1. ScopePhase(c)'
    BY <1>1, <1>3, <1>5
       DEF IndInv, TypeOK, ScopeOrder, ScopePhase, Asked, Approved, Approval, rigid, AttemptOrder,
           Refusals, to
  <2> QED
    BY <1>1, <1>2, <2>1, ScopeFrame DEF IndInv, TypeOK, rigid
<1>10. ResultOrder'
  BY <1>1, <1>2, <1>3, <1>5 DEF IndInv, TypeOK, ResultOrder, RetryExhausted, rigid, to
<1>11. FailureHasScope'
  <2> SUFFICES ASSUME NEW d \in Calls, pc'[d] = "done"
               PROVE  FailureScope(d)'
    BY DEF FailureHasScope
  <2>1. CASE d = c
    <3>1. result'[d] = r /\ ~ToolFailureEvent(d, result[d])'
      BY <1>1, <1>3, <1>4, <2>1 DEF to
    <3> QED
      BY <3>1, <1>5 DEF FailureScope, Refusals
  <2>2. CASE d # c
    <3>1. pc[d] = "done" /\ result'[d] = result[d]
      BY <1>1, <1>2, <2>2 DEF IndInv, TypeOK
    <3> QED
      BY <1>4, <3>1 DEF IndInv, FailureHasScope, FailureScope
  <2> QED
    BY <2>1, <2>2
<1>12. ScopeKinds'
  BY <1>1, <1>2, <1>3, <1>5
     DEF IndInv, TypeOK, ScopeKinds, Approved, Scopes, AgentState, to, Refusals
<1>13. CountOrder'
  BY <1>1, <1>2, CountFrame DEF IndInv, TypeOK, rigid
<1> QED
  BY <1>6, <1>7, <1>8, <1>9, <1>10, <1>11, <1>12, <1>13 DEF IndInv

----------------------------------------------------------------------------
(* The writes of the agent state *)

\* A sensitive call is the only active one.
LEMMA SensitiveAlone ==
  ASSUME IndInv, NEW c \in Calls, NEW d \in Calls, Active(c), Active(d), c # d
  PROVE  ~Sensitive(tool[c]) /\ ~Sensitive(tool[d])
<1>1. c < d \/ d < c
  BY DEF Calls
<1>2. RouteSafe(c) /\ RouteSafe(d)
  BY <1>1 DEF IndInv, BatchOrder, Active
<1> QED
  BY <1>2, CallFacts DEF IndInv

\* The write of a thread changes the state as it is, not an older copy of it.
LEMMA WriteFacts ==
  ASSUME IndInv, NEW c \in Calls, WriteState(c)
  PROVE  /\ state' = Change(c, state)
         /\ pc[c] \in {"record", "upsert", "settle"} /\ Active(c)
         /\ UNCHANGED <<rigid, attempt, live, event, returned>>
         /\ pc' = [pc EXCEPT ![c] = pc'[c]] /\ pc'[c] \notin {"queued", "running", "backoff"}
         /\ result' = [result EXCEPT ![c] = result'[c]]
         /\ lock' = {}
<1>1. pc[c] \in {"record", "upsert", "settle"} /\ copy[c] = state /\ lock = {c}
  BY DEF WriteState, IndInv, LockOrder, TypeOK
<1> QED
  BY <1>1 DEF WriteState, Continue, Move, Answer, IndInv, TypeOK, Active, rigid

\* A write keeps the order of locks and batches.
LEMMA WriteFrame ==
  ASSUME IndInv, TypeOK', NEW c \in Calls, WriteState(c)
  PROVE  LockOrder' /\ BatchOrder'
<1>1. LockOrder'
  BY WriteFacts DEF LockOrder
<1>2. BatchOrder'
  BY WriteFacts, BatchFrame DEF IndInv, TypeOK, Active, rigid
<1> QED
  BY <1>1, <1>2

\* The scopes that count are finitely many.
LEMMA ScopesCounted ==
  ASSUME NEW S, IsFiniteSet(S)
  PROVE  Cardinality(S) \in Nat /\ IsFiniteSet(Counted(S)) /\ Cardinality(Counted(S)) \in Nat
BY FS_Subset, FS_CardinalityType DEF Counted

\* Replacing an element keeps the cardinality.
LEMMA SwapCount ==
  ASSUME NEW S, IsFiniteSet(S), NEW x \in S, NEW y, y \notin S
  PROVE  /\ IsFiniteSet((S \ {x}) \cup {y})
         /\ Cardinality((S \ {x}) \cup {y}) = Cardinality(S)
<1>1. IsFiniteSet(S \ {x}) /\ Cardinality(S \ {x}) = Cardinality(S) - 1
  BY FS_RemoveElement
<1>2. Cardinality((S \ {x}) \cup {y}) = Cardinality(S \ {x}) + 1
      /\ IsFiniteSet((S \ {x}) \cup {y})
  BY <1>1, FS_AddElement
<1> QED
  BY <1>1, <1>2, FS_CardinalityType

LEMMA CallsFinite == IsFiniteSet(Calls)
BY ExecutorAssumption, FS_Interval DEF Calls

\* A set of calls that gains or loses one.
LEMMA CallCount ==
  ASSUME NEW S \in SUBSET Calls, NEW c \in Calls
  PROVE  /\ IsFiniteSet(S) /\ Cardinality(S) \in Nat
         /\ c \notin S => Cardinality(S \cup {c}) = Cardinality(S) + 1
         /\ c \in S => Cardinality(S) = Cardinality(S \ {c}) + 1 /\ Cardinality(S \ {c}) \in Nat
<1>1. IsFiniteSet(S) /\ IsFiniteSet(S \ {c})
  BY CallsFinite, FS_Subset
<1>2. Cardinality(S) \in Nat /\ Cardinality(S \ {c}) \in Nat
  BY <1>1, FS_CardinalityType
<1>3. c \notin S => Cardinality(S \cup {c}) = Cardinality(S) + 1
  BY <1>1, FS_AddElement
<1>4. c \in S => Cardinality(S \ {c}) = Cardinality(S) - 1
  BY <1>1, FS_RemoveElement
<1> QED
  BY <1>1, <1>2, <1>3, <1>4

\* The calls between the two writes that register an event.
Pending == {c \in Calls : pc[c] = "upsert"}
PendingCounted == {c \in Calls : pc[c] = "upsert" /\ event[c] # "approval_rejected"}

\* The first write registers the attempt: both counters move ahead of the
\* scopes.
LEMMA RecordStep ==
  ASSUME IndInv, TypeOK', NEW c \in Calls, WriteState(c), pc[c] = "record"
  PROVE  IndInv'
<1>1. /\ pc' = [pc EXCEPT ![c] = "upsert"]
      /\ state' = RecordRecoveryAttempt(state, event[c]) /\ state'.scopes = state.scopes
      /\ UNCHANGED <<rigid, attempt, live, event, result, returned>>
  <2>1. state' = RecordRecoveryAttempt(state, event[c])
    BY WriteFacts DEF Change
  <2>2. state \in AgentState /\ event[c] \in FailureKinds
    BY DEF IndInv, TypeOK
  <2> QED
    BY <2>1, <2>2, ChangeTypes, WriteFacts DEF WriteState, Continue, Move
<1>2. LockOrder' /\ BatchOrder'
  BY WriteFrame
<1>3. AttemptOrder'
  BY <1>1 DEF IndInv, TypeOK, AttemptOrder, MayRunAgain, rigid
<1>4. ScopeOrder'
  <2>1. state'.approval = CASE event[c] = "approval_waiting" -> "waiting"
                            [] event[c] = "approval_rejected" -> "rejected"
                            [] OTHER -> state.approval
    BY <1>1 DEF RecordRecoveryAttempt, IndInv, TypeOK, AgentState
  <2>2. ScopePhase(c)'
    <3>1. event[c] = "approval_waiting" => state'.approval = "waiting"
      BY <2>1
    <3> QED
      BY <1>1, <3>1
         DEF IndInv, TypeOK, ScopeOrder, ScopePhase, Asked, Approved, Approval, rigid
  <2>3. ASSUME NEW d \in Calls, d # c
        PROVE  ScopePhase(d)'
    <3>1. ~(pc[d] = "ask" \/ (pc[d] = "upsert" /\ event[d] = "approval_waiting"))
      BY <2>3, SensitiveAlone, WriteFacts
         DEF IndInv, ScopeOrder, ScopePhase, Asked, Active
    <3>2. ScopePhase(d) /\ pc'[d] = pc[d]
      BY <1>1, <2>3 DEF IndInv, ScopeOrder, TypeOK
    <3> QED
      BY <1>1, <3>1, <3>2 DEF ScopePhase, Asked, Approved, Approval, rigid
  <2> QED
    BY <2>2, <2>3 DEF ScopeOrder
<1>5. ResultOrder'
  BY <1>1 DEF IndInv, TypeOK, ResultOrder, RetryExhausted, rigid
<1>6. FailureHasScope'
  BY <1>1
     DEF IndInv, TypeOK, FailureHasScope, FailureScope, ToolFailureEvent,
         RetryExhausted, rigid
<1>7. ScopeKinds'
  BY <1>1 DEF IndInv, TypeOK, ScopeKinds, Approved
<1>8. CountOrder'
  <2>1. /\ state'.errors = state.errors + 1
        /\ state'.attempts =
             IF event[c] = "approval_rejected" THEN state.attempts ELSE state.attempts + 1
    BY <1>1 DEF RecordRecoveryAttempt, IndInv, TypeOK, AgentState
  <2>2. Pending' = Pending \cup {c} /\ c \notin Pending
    BY <1>1 DEF Pending, IndInv, TypeOK
  <2>3. /\ c \notin PendingCounted
        /\ PendingCounted' = IF event[c] = "approval_rejected" THEN PendingCounted
                             ELSE PendingCounted \cup {c}
    BY <1>1 DEF PendingCounted, IndInv, TypeOK
  <2>4. Cardinality(Pending') = Cardinality(Pending) + 1 /\ Cardinality(Pending) \in Nat
    BY <2>2, CallCount DEF Pending
  <2>5. /\ Cardinality(PendingCounted) \in Nat
        /\ Cardinality(PendingCounted') =
             IF event[c] = "approval_rejected" THEN Cardinality(PendingCounted)
             ELSE Cardinality(PendingCounted) + 1
    <3>1. PendingCounted \in SUBSET Calls
      BY DEF PendingCounted
    <3> QED
      BY <2>3, <3>1, CallCount
  <2>6. Cardinality(state.scopes) \in Nat /\ Cardinality(Counted(state.scopes)) \in Nat
    BY ScopesCounted DEF IndInv, CountOrder
  <2>7. /\ state.errors = Cardinality(state.scopes) + Cardinality(Pending)
        /\ state.attempts = Cardinality(Counted(state.scopes)) + Cardinality(PendingCounted)
    BY DEF IndInv, CountOrder, Pending, PendingCounted
  <2>8. /\ state'.errors = Cardinality(state'.scopes) + Cardinality(Pending')
        /\ state'.attempts = Cardinality(Counted(state'.scopes)) + Cardinality(PendingCounted')
    BY <1>1, <2>1, <2>4, <2>5, <2>6, <2>7
  <2> QED
    BY <1>1, <2>8 DEF IndInv, CountOrder, Pending, PendingCounted
<1> QED
  BY <1>2, <1>3, <1>4, <1>5, <1>6, <1>7, <1>8 DEF IndInv

\* The second write adds the scope the counters are ahead of.
LEMMA UpsertStep ==
  ASSUME IndInv, TypeOK', NEW c \in Calls, WriteState(c), pc[c] = "upsert"
  PROVE  IndInv'
<1> DEFINE new == [call |-> c, kind |-> event[c], status |-> InitialStatus(event[c])]
<1>1. /\ state' = [state EXCEPT !.scopes = @ \cup {new}]
      /\ state'.scopes = state.scopes \cup {new} /\ state'.approval = state.approval
      /\ state'.errors = state.errors /\ state'.attempts = state.attempts
      /\ UNCHANGED <<rigid, attempt, live, event, returned>>
  <2>1. state' = UpsertRecoveryScope(state, c, event[c])
    BY WriteFacts DEF Change
  <2> QED
    BY <2>1, WriteFacts DEF UpsertRecoveryScope, IndInv, TypeOK, AgentState
<1>2. /\ pc' = [pc EXCEPT ![c] = pc'[c]] /\ result' = [result EXCEPT ![c] = result'[c]]
      /\ \/ event[c] = "approval_waiting" /\ pc'[c] = "ask" /\ result'[c] = result[c]
         \/ event[c] = "approval_rejected" /\ pc'[c] = "settle" /\ result'[c] = result[c]
         \/ event[c] = "permission_denied" /\ pc'[c] = "done" /\ result'[c] = "permission_denied"
         \/ event[c] \in ToolFailures /\ pc'[c] = "done" /\ result'[c] = result[c]
  BY WriteFacts DEF WriteState, Continue, Move, Answer, IndInv, TypeOK
<1>3. /\ new.call = c /\ new.kind = event[c] /\ new \in Scopes
      /\ new.status = IF event[c] \in ToolFailures THEN "scheduled" ELSE "waiting"
      /\ event[c] \in FailureKinds
  BY DEF IndInv, TypeOK, Scopes, InitialStatus
<1>4. new \notin state.scopes
      /\ \A x \in state.scopes : x.call = c => x.kind = "approval_waiting" /\ x.kind # event[c]
  BY <1>3 DEF IndInv, ScopeKinds
<1>5. event[c] = "approval_waiting" => new = Approval(c, "waiting")
  BY <1>3 DEF Approval, ToolFailures, InitialStatus
<1>6. \A d \in Calls, status \in {"waiting", "resolved", "exhausted"} :
         Approval(d, status) = new <=> d = c /\ event[c] = "approval_waiting" /\ status = "waiting"
  <2>1. \A d, status : Approval(d, status).call = d /\ Approval(d, status).status = status
                       /\ Approval(d, status).kind = "approval_waiting"
    BY DEF Approval
  <2> QED
    BY <1>3, <1>5, <2>1
<1>7. LockOrder' /\ BatchOrder'
  BY WriteFrame
<1>8. AttemptOrder'
  BY <1>1, <1>2 DEF IndInv, TypeOK, AttemptOrder, MayRunAgain, rigid, Refusals
<1>9. event[c] = "approval_rejected" =>
        new = [call |-> c, kind |-> "approval_rejected", status |-> "waiting"]
  BY <1>3 DEF ToolFailures, InitialStatus
<1>10. event[c] = "permission_denied" =>
        new = [call |-> c, kind |-> "permission_denied", status |-> "waiting"]
  BY <1>3 DEF ToolFailures, InitialStatus
<1>11. event[c] \in ToolFailures => new = [call |-> c, kind |-> event[c], status |-> "scheduled"]
  BY <1>3 DEF InitialStatus
<1> HIDE DEF new
<1>12. ScopeOrder'
  <2>1. ScopePhase(c)'
    <3>1. ScopePhase(c)
      BY DEF IndInv, ScopeOrder
    <3>2. Approval(c, "waiting") \in state'.scopes <=>
            Approval(c, "waiting") \in state.scopes \/ event[c] = "approval_waiting"
      BY <1>1, <1>6
    <3>3. Approval(c, "resolved") \in state'.scopes <=> Approval(c, "resolved") \in state.scopes
      BY <1>1, <1>6
    <3>4. attempt[c] > 0 => event[c] \notin Refusals
      BY CallFacts DEF IndInv, AttemptOrder
    <3> QED
      BY <1>1, <1>2, <1>3, <1>9, <3>1, <3>2, <3>3, <3>4
         DEF ScopePhase, Asked, Approved, rigid, ToolFailures, FailureKinds, Refusals
  <2>2. ASSUME NEW d \in Calls, d # c
        PROVE  ScopePhase(d)'
    <3>1. ScopePhase(d) /\ pc'[d] = pc[d]
      BY <1>2, <2>2 DEF IndInv, ScopeOrder, TypeOK
    <3>2. \A status \in {"waiting", "resolved", "exhausted"} :
            Approval(d, status) \in state'.scopes <=> Approval(d, status) \in state.scopes
      BY <1>1, <1>6, <2>2
    <3> QED
      BY <1>1, <3>1, <3>2 DEF ScopePhase, Asked, Approved, rigid
  <2> QED
    BY <2>1, <2>2 DEF ScopeOrder
<1>13. ResultOrder'
  BY <1>1, <1>2
     DEF IndInv, TypeOK, ResultOrder, RetryExhausted, rigid, Refusals, ToolFailures,
                    Results, HandlerOutcomes, Retryable
<1>14. FailureHasScope'
  <2> SUFFICES ASSUME NEW d \in Calls, pc'[d] = "done"
               PROVE  FailureScope(d)'
    BY DEF FailureHasScope
  <2>1. ToolFailureEvent(d, result[d])' <=> ToolFailureEvent(d, result'[d])
    BY <1>1 DEF rigid, ToolFailureEvent, RetryExhausted
  <2>2. CASE d = c
    BY <1>1, <1>2, <1>10, <1>11, <2>1, <2>2
       DEF FailureScope, IndInv, ResultOrder, ToolFailures, Refusals
  <2>3. CASE d # c
    <3>1. pc[d] = "done" /\ result'[d] = result[d] /\ FailureScope(d)
      BY <1>2, <2>3 DEF IndInv, TypeOK, FailureHasScope
    <3> QED
      BY <1>1, <2>1, <3>1 DEF FailureScope
  <2> QED
    BY <2>2, <2>3
<1>15. ScopeKinds'
  <2>1. \A x \in state'.scopes : x \in Scopes /\ x.call \in Calls
    BY <1>1, <1>3 DEF IndInv, TypeOK, AgentState, Scopes
  <2> QED
    BY <1>1, <1>2, <1>3, <1>4, <2>1
       DEF IndInv, TypeOK, ScopeKinds, Approved, FailureKinds, ToolFailures
<1>16. CountOrder'
  <2>1. Pending' = Pending \ {c} /\ c \in Pending
    BY <1>2 DEF Pending, IndInv, TypeOK
  <2>2. /\ c \in PendingCounted <=> event[c] # "approval_rejected"
        /\ PendingCounted' = PendingCounted \ {c}
    BY <1>1, <1>2 DEF PendingCounted, IndInv, TypeOK
  <2>3. Pending \in SUBSET Calls /\ PendingCounted \in SUBSET Calls
    BY DEF Pending, PendingCounted
  <2>4. Cardinality(Pending) = Cardinality(Pending') + 1 /\ Cardinality(Pending') \in Nat
    BY <2>1, <2>3, CallCount
  <2>5. /\ Cardinality(PendingCounted') \in Nat
        /\ Cardinality(PendingCounted) =
             IF event[c] = "approval_rejected" THEN Cardinality(PendingCounted')
             ELSE Cardinality(PendingCounted') + 1
    <3>1. CASE event[c] = "approval_rejected"
      <4>1. PendingCounted' = PendingCounted
        BY <2>2, <3>1
      <4> QED
        BY <2>3, <3>1, <4>1, CallCount
    <3>2. CASE event[c] # "approval_rejected"
      BY <2>2, <2>3, <3>2, CallCount
    <3> QED
      BY <3>1, <3>2
  <2>6. /\ IsFiniteSet(state'.scopes)
        /\ Cardinality(state'.scopes) = Cardinality(state.scopes) + 1
    BY <1>1, <1>4, FS_AddElement DEF IndInv, CountOrder
  <2>7. Counted(state'.scopes) =
          IF event[c] = "approval_rejected" THEN Counted(state.scopes)
          ELSE Counted(state.scopes) \cup {new}
    BY <1>1, <1>3 DEF Counted
  <2>8. /\ IsFiniteSet(Counted(state.scopes)) /\ new \notin Counted(state.scopes)
        /\ Cardinality(Counted(state.scopes)) \in Nat /\ Cardinality(state.scopes) \in Nat
    BY <1>4, ScopesCounted DEF Counted, IndInv, CountOrder
  <2>9. Cardinality(Counted(state'.scopes)) =
          IF event[c] = "approval_rejected" THEN Cardinality(Counted(state.scopes))
          ELSE Cardinality(Counted(state.scopes)) + 1
    BY <2>7, <2>8, FS_AddElement
  <2>10. /\ state.errors = Cardinality(state.scopes) + Cardinality(Pending)
         /\ state.attempts = Cardinality(Counted(state.scopes)) + Cardinality(PendingCounted)
    BY DEF IndInv, CountOrder, Pending, PendingCounted
  <2>11. /\ state'.errors = Cardinality(state'.scopes) + Cardinality(Pending')
         /\ state'.attempts = Cardinality(Counted(state'.scopes)) + Cardinality(PendingCounted')
    BY <1>1, <2>4, <2>5, <2>6, <2>8, <2>9, <2>10
  <2> QED
    BY <2>6, <2>11 DEF CountOrder, Pending, PendingCounted
<1> QED
  BY <1>7, <1>8, <1>12, <1>13, <1>14, <1>15, <1>16 DEF IndInv

\* Settling a question replaces its scope by one with the answer.
LEMMA ResolvedScopes ==
  ASSUME IndInv, NEW c \in Calls, pc[c] = "settle",
         NEW status \in {"resolved", "exhausted"}
  PROVE  /\ Approval(c, "waiting") \in state.scopes
         /\ Approval(c, status) \notin state.scopes
         /\ ResolveRecoveryScope(state, c, status).scopes =
              (state.scopes \ {Approval(c, "waiting")}) \cup {Approval(c, status)}
<1> DEFINE old == Approval(c, "waiting")
           new == Approval(c, status)
           Resolve(x) == IF x.call = c /\ x.kind = "approval_waiting"
                         THEN [x EXCEPT !.status = status] ELSE x
<1>1. old \in state.scopes
  BY DEF IndInv, ScopeOrder, ScopePhase, Asked
<1>2. \A x \in state.scopes : x.call = c /\ x.kind = "approval_waiting" => x = old
  BY <1>1 DEF IndInv, ScopeKinds, Approval
<1>3. new # old /\ new.call = c /\ new.kind = "approval_waiting"
      /\ new = [old EXCEPT !.status = status]
      /\ old.call = c /\ old.kind = "approval_waiting"
  BY DEF Approval
<1>4. new \notin state.scopes
  BY <1>2, <1>3
<1>5. Resolve(old) = new /\ \A x \in state.scopes : x # old => Resolve(x) = x
  BY <1>2, <1>3
<1>6. {Resolve(x) : x \in state.scopes} = (state.scopes \ {old}) \cup {new}
  <2> HIDE DEF Resolve, old, new
  <2> QED
    BY <1>1, <1>4, <1>5
<1>7. ResolveRecoveryScope(state, c, status).scopes = {Resolve(x) : x \in state.scopes}
  BY DEF ResolveRecoveryScope, IndInv, TypeOK, AgentState
<1> QED
  BY <1>1, <1>4, <1>6, <1>7

\* The answer of the user replaces the scope of the question.
LEMMA SettleStep ==
  ASSUME IndInv, TypeOK', NEW c \in Calls, WriteState(c), pc[c] = "settle"
  PROVE  IndInv'
<1> DEFINE status == IF Approved(c) THEN "resolved" ELSE "exhausted"
           old == Approval(c, "waiting")
           new == Approval(c, status)
<1>1. /\ state'.scopes = (state.scopes \ {old}) \cup {new}
      /\ old \in state.scopes /\ new \notin state.scopes
      /\ state'.errors = state.errors /\ state'.attempts = state.attempts
      /\ UNCHANGED <<rigid, attempt, live, event, returned>>
  <2>1. state' = ResolveRecoveryScope(state, c, status)
    BY WriteFacts DEF Change
  <2>2. state'.errors = state.errors /\ state'.attempts = state.attempts
    BY <2>1 DEF ResolveRecoveryScope, IndInv, TypeOK, AgentState
  <2> QED
    BY <2>1, <2>2, WriteFacts, ResolvedScopes
<1>2. /\ pc' = [pc EXCEPT ![c] = pc'[c]] /\ result' = [result EXCEPT ![c] = result'[c]]
      /\ \/ event[c] = "approval_waiting" /\ pc'[c] = "start" /\ result'[c] = result[c]
            /\ status = "resolved"
         \/ event[c] = "approval_rejected" /\ pc'[c] = "done" /\ result'[c] = "approval_rejected"
            /\ status = "exhausted"
            /\ [call |-> c, kind |-> "approval_rejected", status |-> "waiting"] \in state.scopes
  <2>1. event[c] \in {"approval_waiting", "approval_rejected"}
        /\ (~Approved(c) =>
              [call |-> c, kind |-> "approval_rejected", status |-> "waiting"] \in state.scopes)
    BY DEF IndInv, ScopeOrder, ScopePhase
  <2> QED
    BY <2>1, WriteFacts DEF WriteState, Continue, Move, Answer, IndInv, TypeOK, Approved
<1>3. /\ new.call = c /\ new.kind = "approval_waiting" /\ new.status = status
      /\ old.call = c /\ old.kind = "approval_waiting" /\ old.status = "waiting"
      /\ new # old
  BY DEF Approval
<1>4. \A d \in Calls, st \in {"waiting", "resolved", "exhausted"} :
         Approval(d, st) \in state'.scopes <=>
           IF d = c THEN st = status \/ (st # "waiting" /\ Approval(d, st) \in state.scopes)
           ELSE Approval(d, st) \in state.scopes
  <2>1. \A d, st : Approval(d, st).call = d /\ Approval(d, st).status = st
    BY DEF Approval
  <2>2. \A d, st : (Approval(d, st) = new <=> d = c /\ st = status)
                   /\ (Approval(d, st) = old <=> d = c /\ st = "waiting")
    BY <1>3, <2>1
  <2> QED
    BY <1>1, <2>2
<1>5. \A x : x.kind # "approval_waiting" => (x \in state'.scopes <=> x \in state.scopes)
  BY <1>1, <1>3
<1> HIDE DEF old, new
<1>6. LockOrder' /\ BatchOrder'
  BY WriteFrame
<1>7. AttemptOrder'
  BY <1>1, <1>2 DEF IndInv, TypeOK, AttemptOrder, MayRunAgain, rigid, Refusals
<1>8. ScopeOrder'
  <2>1. ScopePhase(c)'
    <3>1. ScopePhase(c) /\ Asked(c)
      BY DEF IndInv, ScopeOrder, Asked
    <3>2. Approval(c, "waiting") \notin state'.scopes
          /\ (status = "resolved" => Approval(c, "resolved") \in state'.scopes)
      BY <1>4
    <3>3. attempt[c] = 0
      BY DEF IndInv, AttemptOrder
    <3> QED
      BY <1>1, <1>2, <3>1, <3>2, <3>3 DEF ScopePhase, Asked, Approved, rigid
  <2>2. ASSUME NEW d \in Calls, d # c
        PROVE  ScopePhase(d)'
    <3>1. ScopePhase(d) /\ pc'[d] = pc[d]
      BY <1>2, <2>2 DEF IndInv, ScopeOrder, TypeOK
    <3>2. \A st \in {"waiting", "resolved", "exhausted"} :
            Approval(d, st) \in state'.scopes <=> Approval(d, st) \in state.scopes
      BY <1>4, <2>2
    <3>3. ~(pc[d] = "ask" \/ (pc[d] = "upsert" /\ event[d] = "approval_waiting"))
      BY <2>2, SensitiveAlone, WriteFacts
         DEF IndInv, ScopeOrder, ScopePhase, Asked, Active
    <3>4. [call |-> d, kind |-> "approval_rejected", status |-> "waiting"] \in state.scopes =>
            [call |-> d, kind |-> "approval_rejected", status |-> "waiting"] \in state'.scopes
      BY <1>5
    <3> QED
      BY <1>1, <3>1, <3>2, <3>3, <3>4 DEF ScopePhase, Asked, Approved, rigid
  <2> QED
    BY <2>1, <2>2 DEF ScopeOrder
<1>9. ResultOrder'
  BY <1>1, <1>2
     DEF IndInv, TypeOK, ResultOrder, RetryExhausted, rigid, Refusals, ToolFailures,
                    Results, HandlerOutcomes, Retryable
<1>10. FailureHasScope'
  <2> SUFFICES ASSUME NEW d \in Calls, pc'[d] = "done"
               PROVE  FailureScope(d)'
    BY DEF FailureHasScope
  <2>1. ToolFailureEvent(d, result[d])' <=> ToolFailureEvent(d, result'[d])
    BY <1>1 DEF rigid, ToolFailureEvent, RetryExhausted
  <2>2. CASE d = c
    <3>1. Approval(c, "exhausted") \in state'.scopes
      BY <1>2, <1>4, <2>2
    <3> QED
      BY <1>2, <1>5, <2>2, <3>1 DEF FailureScope, Approval, ToolFailures
  <2>3. CASE d # c
    <3>1. pc[d] = "done" /\ result'[d] = result[d] /\ FailureScope(d)
      BY <1>2, <2>3 DEF IndInv, TypeOK, FailureHasScope
    <3>2. Approval(d, "exhausted") \in state.scopes => Approval(d, "exhausted") \in state'.scopes
      BY <1>4, <2>3
    <3> QED
      BY <1>5, <2>1, <3>1, <3>2 DEF FailureScope, Approval, ToolFailures
  <2> QED
    BY <2>2, <2>3
<1>11. ScopeKinds'
  <2>1. \A x \in state.scopes : x.call = c /\ x.kind = "approval_waiting" => x = old
    BY <1>1, <1>3 DEF IndInv, ScopeKinds
  <2>2. \A x \in state'.scopes : x = new \/ (x \in state.scopes /\ x # old)
    BY <1>1
  <2>3. \A x \in state.scopes : x \in Scopes /\ x.call \in Calls
    BY DEF IndInv, TypeOK, AgentState, Scopes
  <2>4. ASSUME NEW x \in state'.scopes, NEW y \in state'.scopes, x.call = y.call, x.kind = y.kind
        PROVE  x = y
    BY <1>3, <2>1, <2>2, <2>4 DEF IndInv, ScopeKinds
  <2>5. ASSUME NEW x \in state'.scopes
        PROVE  /\ pc'[x.call] \notin {"queued", "validate", "permission"}
               /\ pc'[x.call] \notin {"settle", "done"} => x.kind = "approval_waiting"
               /\ pc'[x.call] \in {"record", "upsert"} =>
                    event'[x.call] \notin {"approval_waiting", "permission_denied"}
               /\ pc'[x.call] = "settle" /\ Approved(x.call)' => x.kind = "approval_waiting"
    <3>1. CASE x.call = c
      BY <1>1, <1>2, <1>3, <2>2, <3>1 DEF IndInv, TypeOK, ScopeKinds, Approved
    <3>2. CASE x.call # c
      <4>1. x \in state.scopes /\ pc'[x.call] = pc[x.call]
        BY <1>2, <1>3, <2>2, <2>3, <3>2 DEF IndInv, TypeOK
      <4> QED
        BY <1>1, <4>1 DEF IndInv, ScopeKinds, Approved
    <3> QED
      BY <3>1, <3>2
  <2> QED
    BY <2>4, <2>5 DEF ScopeKinds
<1>12. CountOrder'
  <2>1. Pending' = Pending /\ PendingCounted' = PendingCounted
    BY <1>1, <1>2 DEF Pending, PendingCounted, IndInv, TypeOK
  <2>2. /\ IsFiniteSet(state.scopes) /\ IsFiniteSet(Counted(state.scopes))
        /\ Cardinality(state.scopes) \in Nat /\ Cardinality(Counted(state.scopes)) \in Nat
    BY ScopesCounted DEF IndInv, CountOrder
  <2>3. /\ IsFiniteSet(state'.scopes)
        /\ Cardinality(state'.scopes) = Cardinality(state.scopes)
    BY <1>1, <2>2, SwapCount
  <2>4. /\ Counted(state'.scopes) = (Counted(state.scopes) \ {old}) \cup {new}
        /\ old \in Counted(state.scopes) /\ new \notin Counted(state.scopes)
    BY <1>1, <1>3 DEF Counted
  <2>5. Cardinality(Counted(state'.scopes)) = Cardinality(Counted(state.scopes))
    BY <2>2, <2>4, SwapCount
  <2> QED
    BY <1>1, <2>1, <2>3, <2>5 DEF IndInv, CountOrder, Pending, PendingCounted
<1> QED
  BY <1>6, <1>7, <1>8, <1>9, <1>10, <1>11, <1>12 DEF IndInv

LEMMA WriteStateStep ==
  ASSUME IndInv, TypeOK', NEW c \in Calls, WriteState(c)
  PROVE  IndInv'
BY RecordStep, UpsertStep, SettleStep, WriteFacts

LEMMA HandlerReturnsStep ==
  ASSUME IndInv, TypeOK', NEW c \in Calls, HandlerReturns(c)
  PROVE  IndInv'
<1>1. PICK r \in HandlerOutcomes : AttemptEnds(c, r)
  BY DEF HandlerReturns
<1> QED
  BY <1>1, AttemptEndsStep DEF HandlerReturns

LEMMA TimeOutStep ==
  ASSUME IndInv, TypeOK', NEW c \in Calls, TimeOut(c)
  PROVE  IndInv'
BY AttemptEndsStep DEF TimeOut, HandlerOutcomes, Retryable

----------------------------------------------------------------------------
(* The inductive invariant *)

\* The initial states satisfy the invariant.
LEMMA InitInv == Init => IndInv
<1> SUFFICES ASSUME Init
             PROVE  IndInv
  OBVIOUS
<1>1. Fresh \in AgentState /\ state.scopes = {} /\ state.errors = 0 /\ state.attempts = 0
  BY DEF Init, Fresh, AgentState
<1>2. TypeOK
  BY <1>1 DEF Init, TypeOK, Phases, FailureKinds, ToolFailures
<1>3. LockOrder /\ BatchOrder
  BY DEF Init, LockOrder, BatchOrder
<1>4. AttemptOrder
  BY <1>2, CallFacts DEF Init, AttemptOrder
<1>5. ScopeOrder
  BY <1>1 DEF Init, ScopeOrder, ScopePhase, Asked
<1>6. ResultOrder /\ FailureHasScope
  BY DEF Init, ResultOrder, FailureHasScope
<1>7. ScopeKinds
  BY <1>1 DEF ScopeKinds
<1>8. CountOrder
  <2>1. Counted(state.scopes) = {} /\ Pending = {} /\ PendingCounted = {}
    BY <1>1 DEF Init, Counted, Pending, PendingCounted
  <2> QED
    BY <1>1, <2>1, FS_EmptySet DEF CountOrder, Pending, PendingCounted
<1> QED
  BY <1>2, <1>3, <1>4, <1>5, <1>6, <1>7, <1>8 DEF IndInv

\* Every step keeps it.
LEMMA NextInv == IndInv /\ [Next]_vars => IndInv'
<1> SUFFICES ASSUME IndInv, [Next]_vars
             PROVE  IndInv'
  OBVIOUS
<1>1. TypeOK'
  BY TypeStep DEF IndInv
<1>2. CASE Next
  BY <1>1, <1>2, ReturnStep, BeginStep, ValidateStep, EnforcePermissionStep,
     RequestUserApprovalStep,
     ReadStateStep, WriteStateStep, StartAttemptStep, TimeOutStep, SleepBeforeRetryStep,
     HandlerReturnsStep, StrayHandlerEndsStep
     DEF Next, ExecuteOneRoute
<1>3. CASE UNCHANGED vars
  <2>1. LockOrder' /\ BatchOrder' /\ AttemptOrder'
    BY <1>3
       DEF vars, IndInv, LockOrder, BatchOrder, RouteSafe, AttemptOrder, MayRunAgain
  <2>2. ScopeOrder' /\ ScopeKinds'
    BY <1>3
       DEF vars, IndInv, ScopeOrder, ScopePhase, Asked, Approved, Approval, ScopeKinds
  <2>3. ResultOrder' /\ FailureHasScope'
    BY <1>3
       DEF vars, IndInv, ResultOrder, FailureHasScope, FailureScope, RetryExhausted,
                ToolFailureEvent
  <2>4. CountOrder'
    BY <1>3, CountFrame DEF vars, IndInv
  <2> QED
    BY <1>1, <2>1, <2>2, <2>3, <2>4 DEF IndInv
<1> QED
  BY <1>2, <1>3

\* The inductive invariant holds in every reachable state.
THEOREM ExecutorInductive == Spec => []IndInv
BY InitInv, NextInv, PTL DEF Spec

\* Batches do not overlap, sensitive tools run only approved, no thread loses
\* another's scope, and no question is left open (_execute_concurrent_batch,
\* enforce_permission, _update_context_state).
THEOREM ExecutorCorrect == Spec => []ExecutorInv
<1>1. ASSUME IndInv
      PROVE  ExecutorInv
  <2>1. ExclusiveRunsAlone
    <3> SUFFICES ASSUME NEW c \in Calls, NEW d \in Calls, c # d, pc[c] = "running",
                        ~RouteSafe(c), live[d] > 0
                 PROVE  d < c /\ pc[d] = "done"
      BY DEF ExclusiveRunsAlone
    <3>1. attempt[d] > 0 /\ pc[d] # "queued"
      BY <1>1, CallFacts DEF IndInv, AttemptOrder
    <3>2. c < d \/ d < c
      BY DEF Calls
    <3> QED
      BY <1>1, <3>1, <3>2 DEF IndInv, BatchOrder
  <2>2. RunsOnlyApproved
    BY <1>1 DEF IndInv, ScopeOrder, ScopePhase, Approval, RunsOnlyApproved
  <2>3. QuestionsSettled
    <3>1. ASSUME NEW c \in Calls, pc[c] = "ask"
          PROVE  state.approval = "waiting" /\ \A d \in Calls : Active(d) => d = c
      <4>1. state.approval = "waiting" /\ Sensitive(tool[c])
        BY <1>1, <3>1 DEF IndInv, ScopeOrder, ScopePhase, Asked
      <4> QED
        BY <1>1, <3>1, <4>1, SensitiveAlone DEF Active
    <3>2. ASSUME returned, NEW x \in state.scopes, x.kind = "approval_waiting"
          PROVE  x.status # "waiting"
      <4>1. x \in Scopes /\ x.call \in Calls
        BY <1>1 DEF IndInv, TypeOK, AgentState, Scopes
      <4>2. x = Approval(x.call, x.status)
        BY <3>2, <4>1 DEF Approval, Scopes
      <4>3. pc[x.call] = "done"
        BY <1>1, <3>2, <4>1 DEF IndInv, ResultOrder
      <4>4. ~Asked(x.call)
        BY <4>3 DEF Asked
      <4> QED
        BY <1>1, <4>1, <4>2, <4>4 DEF IndInv, ScopeOrder, ScopePhase
    <3> QED
      BY <3>1, <3>2 DEF QuestionsSettled
  <2> QED
    BY <1>1, <2>1, <2>2, <2>3 DEF ExecutorInv
<1> QED
  BY <1>1, ExecutorInductive, PTL

\* A handler is started at most as often as its tool declares, and never
\* again for a tool that is unsafe (should_retry_transient).
THEOREM RetriesBounded == Spec => []RetriesAsDeclared
<1>1. ASSUME IndInv
      PROVE  RetriesAsDeclared
  <2> SUFFICES ASSUME NEW c \in Calls
               PROVE  /\ live[c] <= attempt[c]
                      /\ attempt[c] <= RetryBudget(tool[c]) + 1
                      /\ tool[c].policy = "none" \/ tool[c].idempotency = "unsafe"
                           => attempt[c] <= 1
    BY DEF RetriesAsDeclared
  <2>1. attempt[c] \in Nat
    BY <1>1, CallFacts DEF IndInv
  <2> QED
    BY <1>1, <2>1 DEF IndInv, AttemptOrder, MayRunAgain
<1> QED
  BY <1>1, ExecutorInductive, PTL

\* However the threads interleave, tool_error_attempts and attempt_count are
\* the numbers of the scopes the turn has left.
THEOREM CountersRight == Spec => []CountersAgree
<1>1. ASSUME IndInv
      PROVE  CountersAgree
  <2> SUFFICES ASSUME \A c \in Calls : pc[c] # "upsert"
               PROVE  /\ state.errors = Cardinality(state.scopes)
                      /\ state.attempts = Cardinality(Counted(state.scopes))
    BY DEF CountersAgree
  <2>1. Pending = {} /\ PendingCounted = {}
    BY DEF Pending, PendingCounted
  <2>2. Cardinality(Pending) = 0 /\ Cardinality(PendingCounted) = 0
    BY <2>1, FS_EmptySet
  <2>3. Cardinality(state.scopes) \in Nat /\ Cardinality(Counted(state.scopes)) \in Nat
    BY <1>1, ScopesCounted DEF IndInv, CountOrder
  <2> QED
    BY <1>1, <2>2, <2>3 DEF IndInv, CountOrder, Pending, PendingCounted
<1> QED
  BY <1>1, ExecutorInductive, PTL

----------------------------------------------------------------------------
(* Progress *)

\* Every step of a call's own thread is one of those CallAdvances allows.
LEMMA OwnStepAdvances ==
  ASSUME TypeOK, NEW c \in Calls,
         ExecuteOneRoute(c) \/ HandlerReturns(c)
  PROVE  CallAdvances(c)
<1>0. pc \in [Calls -> Phases] /\ attempt \in [Calls -> Nat] /\ event \in [Calls -> FailureKinds]
  BY DEF TypeOK
<1>1. CASE Begin(c)
  BY <1>0, <1>1 DEF Begin, Move, CallAdvances, PhasesLeft
<1>2. CASE Validate(c)
  BY <1>0, <1>2 DEF Validate, Move, Answer, CallAdvances, PhasesLeft
<1>3. CASE EnforcePermission(c)
  BY <1>0, <1>3 DEF EnforcePermission, Move, CallAdvances, PhasesLeft, ToolFailures
<1>4. CASE RequestUserApproval(c)
  BY <1>0, <1>4 DEF RequestUserApproval, Move, CallAdvances, PhasesLeft
<1>5. CASE ReadState(c)
  BY <1>0, <1>5 DEF ReadState, CallAdvances
<1>6. CASE WriteState(c)
  <2>1. attempt' = attempt /\ event' = event /\ Continue(c)
    BY <1>6 DEF WriteState
  <2>2. event[c] \in FailureKinds
    BY <1>0
  <2> QED
    BY <1>0, <2>1, <2>2
    DEF Continue, Move, Answer, Approved, CallAdvances, PhasesLeft, ToolFailures, FailureKinds
<1>7. CASE StartAttempt(c)
  BY <1>0, <1>7 DEF StartAttempt, Move, CallAdvances
<1>8. CASE TimeOut(c)
  BY <1>0, <1>8 DEF TimeOut, AttemptEnds, ToolFailureEvent, Move, Answer, CallAdvances, PhasesLeft,
    ToolFailures
<1>9. CASE SleepBeforeRetry(c)
  BY <1>0, <1>9 DEF SleepBeforeRetry, Move, CallAdvances, PhasesLeft
<1>10. CASE HandlerReturns(c)
  <2>1. PICK r \in HandlerOutcomes : AttemptEnds(c, r)
    BY <1>10 DEF HandlerReturns
  <2>2. attempt' = attempt
    BY <1>10 DEF HandlerReturns
  <2> QED
    BY <1>0, <2>1, <2>2 DEF AttemptEnds, ToolFailureEvent, Move, Answer, CallAdvances, PhasesLeft,
      ToolFailures
<1> QED
  BY <1>1, <1>2, <1>3, <1>4, <1>5, <1>6, <1>7, <1>8, <1>9, <1>10 DEF ExecuteOneRoute

\* Any other step leaves the call where it is.
LEMMA OthersLeaveCall ==
  ASSUME TypeOK, NEW c \in Calls, Next, ~ExecuteOneRoute(c), ~HandlerReturns(c)
  PROVE  UNCHANGED <<pc[c], attempt[c], event[c]>> /\ (c \in lock' <=> c \in lock)
<1>0. pc \in [Calls -> Phases] /\ attempt \in [Calls -> Nat] /\ event \in [Calls -> FailureKinds]
  BY DEF TypeOK
<1>1. CASE Return
  BY <1>1 DEF Return
<1>2. ASSUME NEW d \in Calls, StrayHandlerEnds(d)
      PROVE  UNCHANGED <<pc[c], attempt[c], event[c]>> /\ (c \in lock' <=> c \in lock)
  BY <1>2 DEF StrayHandlerEnds
<1>3. ASSUME NEW d \in Calls, d # c, ExecuteOneRoute(d)
      PROVE  UNCHANGED <<pc[c], attempt[c], event[c]>> /\ (c \in lock' <=> c \in lock)
  <2>1. CASE Begin(d)
    BY <1>0, <1>3, <2>1 DEF Begin, Move
  <2>2. CASE Validate(d)
    BY <1>0, <1>3, <2>2 DEF Validate, Move, Answer
  <2>3. CASE EnforcePermission(d)
    BY <1>0, <1>3, <2>3 DEF EnforcePermission, Move
  <2>4. CASE RequestUserApproval(d)
    BY <1>0, <1>3, <2>4 DEF RequestUserApproval, Move
  <2>5. CASE ReadState(d)
    BY <1>3, <2>5 DEF ReadState
  <2>6. CASE WriteState(d)
    BY <1>0, <1>3, <2>6 DEF WriteState, Continue, Move, Answer
  <2>7. CASE StartAttempt(d)
    BY <1>0, <1>3, <2>7 DEF StartAttempt, Move
  <2>8. CASE TimeOut(d)
    BY <1>0, <1>3, <2>8 DEF TimeOut, AttemptEnds, Move, Answer
  <2>9. CASE SleepBeforeRetry(d)
    BY <1>0, <1>3, <2>9 DEF SleepBeforeRetry, Move
  <2> QED
    BY <1>3, <2>1, <2>2, <2>3, <2>4, <2>5, <2>6, <2>7, <2>8, <2>9 DEF ExecuteOneRoute
<1>4. ASSUME NEW d \in Calls, d # c, HandlerReturns(d)
      PROVE  UNCHANGED <<pc[c], attempt[c], event[c]>> /\ (c \in lock' <=> c \in lock)
  BY <1>0, <1>4 DEF HandlerReturns, AttemptEnds, Move, Answer
<1> QED
  BY <1>1, <1>2, <1>3, <1>4 DEF Next

\* A call has only so many phases and attempts: each of its steps takes one,
\* and no other call gives one back (_execute_with_retry).
THEOREM CallsOnlyAdvance == Spec => CallsAdvance
<1>1. IndInv /\ [Next]_vars =>
        [\A c \in Calls :
           \/ CallAdvances(c)
           \/ /\ ~ExecuteOneRoute(c) /\ ~HandlerReturns(c)
              /\ UNCHANGED <<pc[c], attempt[c], event[c]>> /\ (c \in lock' <=> c \in lock)]_vars
  BY OwnStepAdvances, OthersLeaveCall DEF IndInv
<1> QED
  BY <1>1, ExecutorInductive, PTL DEF Spec, CallsAdvance

----------------------------------------------------------------------------
(* Refinement *)

\* Initial states map to initial states.
LEMMA InitMaps == Init => Turn!Init
BY DEF Init, Turn!Init

\* A call that gets a result had none.
LEMMA NextMaps == IndInv /\ [Next]_vars => [Turn!Next]_(Turn!turnVars)
<1> SUFFICES ASSUME IndInv, [Next]_vars
             PROVE  Turn!Next \/ UNCHANGED <<result, returned>>
  BY DEF Turn!turnVars
<1>1. ASSUME NEW c \in Calls, NEW r \in Results, Answer(c, r), UNCHANGED returned,
             result[c] = NoResult, pc[c] # "done"
      PROVE  Turn!Next
  <2>1. ~returned
    BY <1>1 DEF IndInv, ResultOrder
  <2>2. Turn!Answer(c)
    BY <1>1, <2>1 DEF Turn!Answer, Answer
  <2> QED
    BY <2>2 DEF Turn!Next
<1>2. CASE Return
  BY <1>2 DEF Return, Turn!Next, Turn!Return, IndInv, ResultOrder
<1>3. ASSUME NEW c \in Calls, Validate(c)
      PROVE  Turn!Next \/ UNCHANGED <<result, returned>>
  <2>1. result[c] = NoResult /\ pc[c] # "done"
    BY <1>3 DEF Validate, IndInv, ResultOrder
  <2>2. "invalid_input" \in Results /\ "route_unavailable" \in Results
    BY DEF Results
  <2> QED
    BY <1>1, <1>3, <2>1, <2>2 DEF Validate
<1>4. ASSUME NEW c \in Calls, WriteState(c)
      PROVE  Turn!Next \/ UNCHANGED <<result, returned>>
  <2>1. "permission_denied" \in Results /\ "approval_rejected" \in Results
    BY DEF Results
  <2>2. pc[c] = "upsert" /\ event[c] = "permission_denied" => result[c] = NoResult
    BY DEF IndInv, ResultOrder, Refusals
  <2>3. pc[c] = "settle" => result[c] = NoResult
    BY DEF IndInv, ResultOrder
  <2> QED
    BY <1>1, <1>4, <2>1, <2>2, <2>3 DEF WriteState, Continue
<1>5. ASSUME NEW c \in Calls, NEW r \in HandlerOutcomes, AttemptEnds(c, r), UNCHANGED returned
      PROVE  Turn!Next \/ UNCHANGED <<result, returned>>
  <2>1. pc[c] = "running" /\ result[c] = NoResult /\ r \in Results
    BY <1>5 DEF AttemptEnds, IndInv, ResultOrder, Results
  <2>2. CASE result' = [result EXCEPT ![c] = r]
    <3>1. ~returned
      BY <2>1 DEF IndInv, ResultOrder
    <3>2. Turn!Answer(c)
      BY <1>5, <2>1, <2>2, <3>1 DEF Turn!Answer
    <3> QED
      BY <3>2 DEF Turn!Next
  <2>3. CASE UNCHANGED result
    BY <1>5, <2>3
  <2> QED
    BY <1>5, <2>2, <2>3 DEF AttemptEnds, Answer
<1>6. ASSUME NEW c \in Calls, HandlerReturns(c) \/ TimeOut(c)
      PROVE  Turn!Next \/ UNCHANGED <<result, returned>>
  BY <1>5, <1>6 DEF HandlerReturns, TimeOut, HandlerOutcomes, Retryable
<1>7. ASSUME NEW c \in Calls,
             \/ Begin(c) \/ EnforcePermission(c) \/ RequestUserApproval(c) \/ ReadState(c)
             \/ StartAttempt(c) \/ SleepBeforeRetry(c) \/ StrayHandlerEnds(c)
      PROVE  UNCHANGED <<result, returned>>
  BY <1>7 DEF Begin, EnforcePermission, RequestUserApproval, ReadState, StartAttempt,
              SleepBeforeRetry, StrayHandlerEnds
<1>8. CASE UNCHANGED vars
  BY <1>8 DEF vars
<1> QED
  BY <1>2, <1>3, <1>4, <1>6, <1>7, <1>8 DEF Next, ExecuteOneRoute

\* execute_routes gives every call one final result and returns when the last
\* one is there.
THEOREM ImplementsTurn == Spec => TurnSpec
BY InitMaps, NextMaps, ExecutorInductive, PTL DEF Spec, TurnSpec, Turn!Spec
=============================================================================
