---------------------------- MODULE ToolExecutor ----------------------------
(***************************************************************************)
(* One call of ToolExecutor.execute_routes (agent/tools/executor.py) with  *)
(* the permission gate, the recovery manager and the agent state it        *)
(* changes.                                                                *)
(*                                                                         *)
(* The routes of a turn are cut into runs of neighbours that are safe to   *)
(* run concurrently and runs that are not.  A concurrent batch has a       *)
(* thread for each call, at most MaxWorkers at a time; all of them replace *)
(* the one agent_state of the context by a changed copy, under _state_lock.*)
(* Every attempt of a handler has a thread of its own, which an expired    *)
(* timeout abandons and does not stop.                                     *)
(***************************************************************************)
EXTENDS Integers, FiniteSets

CONSTANTS
  N,            \* number of tool calls in the turn
  Tools,        \* the declarations (ToolSpec) a call may name
  MaxWorkers,   \* max_workers of the executor
  MaxRetries,   \* max_retries of the executor
  NoResult

Calls == 1..N

Declarations ==
  [known : BOOLEAN,       \* registered, native: the route is executable
   safe : BOOLEAN,        \* is_concurrency_safe
   approval : BOOLEAN,    \* requires_approval
   idempotency : {"read_only", "idempotent", "unsafe"},
   policy : {"none", "transient_only"},
   retries : Nat]

\* No tool of the registry is both safe to run concurrently and sensitive.
ASSUME ExecutorAssumption ==
  /\ N \in Nat \ {0}
  /\ Tools \subseteq Declarations
  /\ \A t \in Tools : t.safe => t.idempotency = "read_only" /\ ~t.approval
  /\ MaxWorkers \in Nat \ {0}
  /\ MaxRetries \in Nat

Retryable == {"tool_timeout", "temporary_transport_error", "rate_limited"}
HandlerOutcomes == Retryable \cup {"ok", "handler_exception"}
Results == HandlerOutcomes \cup
  {"route_unavailable", "invalid_input", "permission_denied", "approval_rejected"}

ASSUME NoResultAssumption == NoResult \notin Results

\* error kinds _failure_kind_from_result turns into a recovery event
ToolFailures == {"tool_timeout", "temporary_transport_error"}
FailureKinds == ToolFailures \cup
  {"approval_waiting", "permission_denied", "approval_rejected"}

Scopes == [call : Calls, kind : FailureKinds,
           status : {"waiting", "scheduled", "resolved", "exhausted"}]

AgentState ==
  [errors : Nat,            \* recovery.tool_error_attempts
   attempts : Nat,          \* task_control.attempt_count
   approval : {"none", "waiting", "approved", "rejected"},
   retry : {"none", "retrying"},
   scopes : SUBSET Scopes]

VARIABLES
  tool,       \* the declaration each call names
  mode,       \* permission_mode of the context
  prompts,    \* the context has an approval_requester
  pc,         \* phase of each call
  attempt,    \* handlers started for each call
  live,       \* handler threads of each call that have not ended
  event,      \* failure kind of the recovery event a call registers
  result,     \* the result envelope of each call
  state,      \* context.agent_state
  lock,       \* the calls whose thread holds _state_lock
  copy,       \* the state such a thread has read
  returned

vars == <<tool, mode, prompts, pc, attempt, live, event, result, state, lock,
          copy, returned>>
rigid == <<tool, mode, prompts>>

Phases == {"queued", "validate", "permission", "record", "upsert", "ask",
           "settle", "start", "running", "backoff", "done"}

Fresh == [errors |-> 0, attempts |-> 0, approval |-> "none", retry |-> "none",
          scopes |-> {}]

Init ==
  /\ tool \in [Calls -> Tools]
  /\ mode \in {"default", "auto"}
  /\ prompts \in BOOLEAN
  /\ pc = [c \in Calls |-> "queued"]
  /\ attempt = [c \in Calls |-> 0]
  /\ live = [c \in Calls |-> 0]
  /\ event = [c \in Calls |-> "tool_timeout"]
  /\ result = [c \in Calls |-> NoResult]
  /\ state = Fresh
  /\ lock = {}
  /\ copy = [c \in Calls |-> Fresh]
  /\ returned = FALSE

Move(c, from, to) ==
  /\ pc[c] = from
  /\ pc' = [pc EXCEPT ![c] = to]

Answer(c, r) ==
  /\ result' = [result EXCEPT ![c] = r]
  /\ pc' = [pc EXCEPT ![c] = "done"]

Active(c) == pc[c] \notin {"queued", "done"}

----------------------------------------------------------------------------
(* Batches *)

RouteSafe(c) == tool[c].known /\ tool[c].safe

SameBatch(c, d) ==
  \A e \in Calls : (c <= e /\ e <= d) \/ (d <= e /\ e <= c)
                     => RouteSafe(e) = RouteSafe(c)

\* The pool of a concurrent batch takes its calls in order; a serial batch
\* runs one at a time; a batch begins when those before it have ended.
MayBegin(c) ==
  /\ \A d \in Calls : d < c => pc[d] # "queued"
  /\ \A d \in Calls : Active(d) => RouteSafe(c) /\ SameBatch(c, d)
  /\ Cardinality({d \in Calls : Active(d)}) < MaxWorkers

Begin(c) ==
  /\ MayBegin(c)
  /\ Move(c, "queued", "validate")
  /\ UNCHANGED <<rigid, attempt, live, event, result, state, lock, copy, returned>>

Return ==
  /\ ~returned
  /\ \A c \in Calls : pc[c] = "done"
  /\ returned' = TRUE
  /\ UNCHANGED <<rigid, pc, attempt, live, event, result, state, lock, copy>>

----------------------------------------------------------------------------
(* Validation and permission *)

Validate(c) ==
  /\ pc[c] = "validate"
  /\ \/ tool[c].known /\ Move(c, "validate", "permission") /\ UNCHANGED result
     \/ tool[c].known /\ Answer(c, "invalid_input")
     \/ ~tool[c].known /\ Answer(c, "route_unavailable")
  /\ UNCHANGED <<rigid, attempt, live, event, state, lock, copy, returned>>

Sensitive(t) == t.approval \/ t.idempotency # "read_only"

Decide(c) ==
  IF ~Sensitive(tool[c]) THEN "allow" ELSE IF mode = "auto" THEN "deny" ELSE "ask"

\* The gate may also find a command line sensitive that its declaration does
\* not: that is one more declaration in Tools.
EnforcePermission(c) ==
  /\ pc[c] = "permission"
  /\ \/ /\ Decide(c) = "allow"
        /\ Move(c, "permission", "start")
        /\ UNCHANGED event
     \/ /\ Decide(c) = "ask"
        /\ Move(c, "permission", "record")
        /\ event' = [event EXCEPT ![c] = "approval_waiting"]
     \/ /\ Decide(c) = "deny"
        /\ Move(c, "permission", "record")
        /\ event' = [event EXCEPT ![c] = "permission_denied"]
  /\ UNCHANGED <<rigid, attempt, live, result, state, lock, copy, returned>>

\* A requester that raises counts as a refusal, and so does none.
RequestUserApproval(c) ==
  /\ pc[c] = "ask"
  /\ \/ prompts /\ Move(c, "ask", "settle") /\ UNCHANGED event
     \/ /\ Move(c, "ask", "record")
        /\ event' = [event EXCEPT ![c] = "approval_rejected"]
  /\ UNCHANGED <<rigid, attempt, live, result, state, lock, copy, returned>>

----------------------------------------------------------------------------
(* The agent state: _update_context_state reads it, changes the copy and    *)
(* replaces it, under the lock.                                             *)

\* Mutant: a rejection counts as an attempt of the task.
RecordEveryAttempt(s, kind) ==
  [s EXCEPT
     !.errors = @ + 1,
     !.attempts = @ + 1,
     !.approval = CASE kind = "approval_waiting" -> "waiting"
                    [] kind = "approval_rejected" -> "rejected"
                    [] OTHER -> @,
     !.retry = IF kind \in ToolFailures THEN "retrying" ELSE @]

RecordRecoveryAttempt(s, kind) ==
  [s EXCEPT
     !.errors = @ + 1,
     !.attempts = IF kind = "approval_rejected" THEN @ ELSE @ + 1,
     !.approval = CASE kind = "approval_waiting" -> "waiting"
                    [] kind = "approval_rejected" -> "rejected"
                    [] OTHER -> @,
     !.retry = IF kind \in ToolFailures THEN "retrying" ELSE @]

\* RecoveryManager.decide and _status_for_decision: tool failures register
\* when their attempts are used up, and are to be retried later.
InitialStatus(kind) == IF kind \in ToolFailures THEN "scheduled" ELSE "waiting"

UpsertRecoveryScope(s, c, kind) ==
  [s EXCEPT !.scopes =
     @ \cup {[call |-> c, kind |-> kind, status |-> InitialStatus(kind)]}]

ResolveRecoveryScope(s, c, status) ==
  [s EXCEPT
     !.scopes =
       {IF x.call = c /\ x.kind = "approval_waiting"
        THEN [x EXCEPT !.status = status] ELSE x : x \in @},
     !.approval = IF status = "resolved" THEN "approved" ELSE "rejected",
     !.retry = IF status = "resolved" THEN "none" ELSE @]

Approved(c) == event[c] = "approval_waiting"

Change(c, s) ==
  CASE pc[c] = "record" -> RecordRecoveryAttempt(s, event[c])
    [] pc[c] = "upsert" -> UpsertRecoveryScope(s, c, event[c])
    [] pc[c] = "settle" ->
         ResolveRecoveryScope(s, c, IF Approved(c) THEN "resolved" ELSE "exhausted")

\* Mutant: the change is not made under the lock.
ReadStateUnlocked(c) ==
  /\ pc[c] \in {"record", "upsert", "settle"}
  /\ c \notin lock
  /\ lock' = lock \cup {c}
  /\ copy' = [copy EXCEPT ![c] = state]
  /\ UNCHANGED <<rigid, pc, attempt, live, event, result, state, returned>>

ReadState(c) ==
  /\ pc[c] \in {"record", "upsert", "settle"}
  /\ lock = {}
  /\ lock' = {c}
  /\ copy' = [copy EXCEPT ![c] = state]
  /\ UNCHANGED <<rigid, pc, attempt, live, event, result, state, returned>>

\* What the thread does once its change is written.
Continue(c) ==
  \/ Move(c, "record", "upsert") /\ UNCHANGED result
  \/ /\ pc[c] = "upsert"
     /\ \/ event[c] = "approval_waiting" /\ Move(c, "upsert", "ask") /\ UNCHANGED result
        \/ event[c] = "approval_rejected" /\ Move(c, "upsert", "settle") /\ UNCHANGED result
        \/ event[c] = "permission_denied" /\ Answer(c, "permission_denied")
        \/ event[c] \in ToolFailures /\ Move(c, "upsert", "done") /\ UNCHANGED result
  \/ /\ pc[c] = "settle"
     /\ \/ Approved(c) /\ Move(c, "settle", "start") /\ UNCHANGED result
        \/ ~Approved(c) /\ Answer(c, "approval_rejected")

WriteState(c) ==
  /\ c \in lock
  /\ state' = Change(c, copy[c])
  /\ copy' = [copy EXCEPT ![c] = Fresh]
  /\ lock' = lock \ {c}
  /\ Continue(c)
  /\ UNCHANGED <<rigid, attempt, live, event, returned>>

----------------------------------------------------------------------------
(* The handler *)

RetryBudget(t) == IF t.retries < MaxRetries THEN t.retries ELSE MaxRetries

RetryAllowedByPolicy(t, r) ==
  t.policy = "transient_only" /\ t.idempotency # "unsafe" /\ r \in Retryable

\* Mutant: every tool is retried as often as the executor allows.
ShouldRetryTransient(c, r) == attempt[c] - 1 < MaxRetries /\ r \in Retryable

\* The attempts of the loop in _execute_with_retry are numbered from 0.
ShouldRetry(c, r) ==
  attempt[c] - 1 < RetryBudget(tool[c]) /\ RetryAllowedByPolicy(tool[c], r)

RetryExhausted(c, r) == r \in Retryable /\ attempt[c] - 1 >= RetryBudget(tool[c])

\* The recovery event of a failed call, if it has one.
ToolFailureEvent(c, r) == r \in ToolFailures /\ RetryExhausted(c, r)

StartAttempt(c) ==
  /\ Move(c, "start", "running")
  /\ attempt' = [attempt EXCEPT ![c] = @ + 1]
  /\ live' = [live EXCEPT ![c] = @ + 1]
  /\ UNCHANGED <<rigid, event, result, state, lock, copy, returned>>

\* Mutant: the result of an attempt is the result of the call.
AttemptEndsAnswered(c, r) ==
  /\ pc[c] = "running"
  /\ result' = [result EXCEPT ![c] = r]
  /\ \/ ShouldRetry(c, r) /\ Move(c, "running", "backoff") /\ UNCHANGED event
     \/ /\ ~ShouldRetry(c, r)
        /\ ToolFailureEvent(c, r)
        /\ Move(c, "running", "record")
        /\ event' = [event EXCEPT ![c] = r]
     \/ ~ShouldRetry(c, r) /\ ~ToolFailureEvent(c, r) /\ Move(c, "running", "done")
          /\ UNCHANGED event

AttemptEnds(c, r) ==
  /\ pc[c] = "running"
  /\ \/ ShouldRetry(c, r) /\ Move(c, "running", "backoff") /\ UNCHANGED <<event, result>>
     \/ /\ ~ShouldRetry(c, r)
        /\ ToolFailureEvent(c, r)
        /\ Move(c, "running", "record")
        /\ event' = [event EXCEPT ![c] = r]
        /\ result' = [result EXCEPT ![c] = r]
     \/ ~ShouldRetry(c, r) /\ ~ToolFailureEvent(c, r) /\ Answer(c, r) /\ UNCHANGED event

HandlerReturns(c) ==
  /\ \E r \in HandlerOutcomes : AttemptEnds(c, r)
  /\ live' = [live EXCEPT ![c] = @ - 1]
  /\ UNCHANGED <<rigid, attempt, state, lock, copy, returned>>

\* Mutant: the executor waits for a read-only handler.
TimeOutSideEffects(c) ==
  /\ tool[c].idempotency # "read_only"
  /\ AttemptEnds(c, "tool_timeout")
  /\ UNCHANGED <<rigid, attempt, live, state, lock, copy, returned>>

TimeOut(c) ==
  /\ AttemptEnds(c, "tool_timeout")
  /\ UNCHANGED <<rigid, attempt, live, state, lock, copy, returned>>

Stray(c) == IF pc[c] = "running" THEN live[c] - 1 ELSE live[c]

\* The thread of an attempt that timed out comes to its end.
StrayHandlerEnds(c) ==
  /\ Stray(c) > 0
  /\ live' = [live EXCEPT ![c] = @ - 1]
  /\ UNCHANGED <<rigid, pc, attempt, event, result, state, lock, copy, returned>>

SleepBeforeRetry(c) ==
  /\ Move(c, "backoff", "start")
  /\ UNCHANGED <<rigid, attempt, live, event, result, state, lock, copy, returned>>

----------------------------------------------------------------------------
ExecuteOneRoute(c) ==
  \/ Begin(c) \/ Validate(c) \/ EnforcePermission(c) \/ RequestUserApproval(c)
  \/ ReadState(c) \/ WriteState(c)
  \/ StartAttempt(c) \/ TimeOut(c) \/ SleepBeforeRetry(c)

Next ==
  \/ Return
  \/ \E c \in Calls : ExecuteOneRoute(c) \/ HandlerReturns(c) \/ StrayHandlerEnds(c)

Spec == Init /\ [][Next]_vars

\* The threads of the executor make progress and the user answers a prompt.
\* A handler need not return: then its timeout expires.
FairSpec ==
  /\ Spec
  /\ WF_vars(Return)
  /\ \A c \in Calls : WF_vars(ExecuteOneRoute(c))

----------------------------------------------------------------------------
(* Properties *)

TypeOK ==
  /\ tool \in [Calls -> Tools]
  /\ mode \in {"default", "auto"}
  /\ prompts \in BOOLEAN
  /\ pc \in [Calls -> Phases]
  /\ attempt \in [Calls -> Nat]
  /\ live \in [Calls -> Nat]
  /\ event \in [Calls -> FailureKinds]
  /\ result \in [Calls -> Results \cup {NoResult}]
  /\ state \in AgentState
  /\ lock \subseteq Calls
  /\ copy \in [Calls -> AgentState]
  /\ returned \in BOOLEAN

\* While a tool that is not safe to run concurrently runs, the only other
\* handlers alive belong to earlier calls that timed out: the batches do not
\* overlap, but nothing stops an abandoned handler.
ExclusiveRunsAlone ==
  \A c, d \in Calls :
    c # d /\ pc[c] = "running" /\ ~RouteSafe(c) /\ live[d] > 0
      => d < c /\ pc[d] = "done"

\* A handler is started again only for a tool that declares transient
\* retries, is not unsafe, and at most as often as it declares; its timeouts
\* (which leave the first handler running) do not change that.
RetriesAsDeclared ==
  \A c \in Calls :
    /\ live[c] <= attempt[c]
    /\ attempt[c] <= RetryBudget(tool[c]) + 1
    /\ tool[c].policy = "none" \/ tool[c].idempotency = "unsafe" => attempt[c] <= 1

\* No handler of a sensitive tool has started unless the user approved this
\* very call and the agent state says so.
RunsOnlyApproved ==
  \A c \in Calls :
    Sensitive(tool[c]) /\ attempt[c] > 0
      => /\ prompts /\ mode # "auto"
         /\ [call |-> c, kind |-> "approval_waiting", status |-> "resolved"] \in state.scopes

FailureScope(c) ==
  /\ result[c] = "permission_denied" =>
       [call |-> c, kind |-> "permission_denied", status |-> "waiting"] \in state.scopes
  /\ result[c] = "approval_rejected" =>
       {[call |-> c, kind |-> "approval_waiting", status |-> "exhausted"],
        [call |-> c, kind |-> "approval_rejected", status |-> "waiting"]} \subseteq state.scopes
  /\ result[c] \in ToolFailures /\ ToolFailureEvent(c, result[c]) =>
       [call |-> c, kind |-> result[c], status |-> "scheduled"] \in state.scopes

\* No thread of a concurrent batch overwrites what another wrote into the
\* shared agent state: each call that ended in a refusal or ran out of
\* attempts has left its recovery scope there.
FailureHasScope == \A c \in Calls : pc[c] = "done" => FailureScope(c)

\* The scopes that count as attempts of the task.
Counted(scopes) == {x \in scopes : x.kind # "approval_rejected"}

\* The counters of the agent state agree with its scopes whenever no thread is
\* between the two writes that register an event.
CountersAgree ==
  (\A c \in Calls : pc[c] # "upsert") =>
    /\ state.errors = Cardinality(state.scopes)
    /\ state.attempts = Cardinality(Counted(state.scopes))

\* The user is asked about one call at a time, the agent state says "waiting"
\* meanwhile, and no question is left open in it when the turn returns.
QuestionsSettled ==
  /\ \A c \in Calls : pc[c] = "ask" =>
       /\ state.approval = "waiting"
       /\ \A d \in Calls : Active(d) => d = c
  /\ returned => \A x \in state.scopes : x.kind = "approval_waiting" => x.status # "waiting"

\* The inductive invariant: what each phase of a call says about the agent
\* state, the lock and the other calls.
LockOrder ==
  /\ \A c \in lock : pc[c] \in {"record", "upsert", "settle"} /\ copy[c] = state
  /\ \A c, d \in lock : c = d

BatchOrder ==
  \A c, d \in Calls : c < d /\ pc[d] # "queued" =>
    pc[c] # "queued" /\ (pc[c] = "done" \/ (RouteSafe(c) /\ RouteSafe(d)))

Refusals == {"approval_waiting", "permission_denied", "approval_rejected"}

MayRunAgain(c) == tool[c].policy = "transient_only" /\ tool[c].idempotency # "unsafe"

AttemptOrder ==
  \A c \in Calls :
    /\ live[c] <= attempt[c]
    /\ attempt[c] <= RetryBudget(tool[c]) + 1
    /\ attempt[c] > 1 => MayRunAgain(c)
    /\ pc[c] \in {"queued", "validate", "permission", "ask", "settle"} => attempt[c] = 0
    /\ pc[c] \in {"record", "upsert"} /\ event[c] \in Refusals => attempt[c] = 0
    /\ pc[c] \in {"start", "backoff"} /\ attempt[c] > 0 =>
         MayRunAgain(c) /\ attempt[c] <= RetryBudget(tool[c])
    /\ pc[c] = "backoff" => attempt[c] > 0
    /\ pc[c] = "running" => live[c] > 0

Asked(c) ==
  pc[c] \in {"ask", "settle"} \/ (pc[c] \in {"record", "upsert"} /\ event[c] = "approval_rejected")

Approval(c, status) == [call |-> c, kind |-> "approval_waiting", status |-> status]

ScopePhase(c) ==
  /\ Asked(c) <=> Approval(c, "waiting") \in state.scopes
  /\ pc[c] = "ask" \/ (pc[c] = "upsert" /\ event[c] = "approval_waiting")
     => state.approval = "waiting"
  /\ Asked(c) \/ (pc[c] \in {"record", "upsert"} /\ event[c] = "approval_waiting")
     => Sensitive(tool[c]) /\ mode # "auto"
  /\ pc[c] = "ask" => event[c] = "approval_waiting"
  /\ pc[c] = "settle" => event[c] \in {"approval_waiting", "approval_rejected"}
  /\ pc[c] = "settle" /\ Approved(c) => prompts
  /\ pc[c] = "settle" /\ ~Approved(c) =>
     [call |-> c, kind |-> "approval_rejected", status |-> "waiting"] \in state.scopes
  /\ Sensitive(tool[c]) /\ (attempt[c] > 0 \/ pc[c] = "start") =>
     prompts /\ mode # "auto" /\ Approval(c, "resolved") \in state.scopes

ScopeOrder == \A c \in Calls : ScopePhase(c)

ResultOrder ==
  /\ \A c \in Calls :
       /\ pc[c] = "done" => result[c] \in Results
       /\ pc[c] \in {"record", "upsert"} /\ event[c] \in ToolFailures =>
            result[c] = event[c] /\ RetryExhausted(c, event[c])
       /\ pc[c] \notin {"record", "upsert", "done"} => result[c] = NoResult
       /\ pc[c] \in {"record", "upsert"} /\ event[c] \in Refusals => result[c] = NoResult
  /\ returned => \A c \in Calls : pc[c] = "done"

\* A call leaves at most one scope of each kind, and none of the kind it is
\* about to register.
ScopeKinds ==
  \A x \in state.scopes :
    /\ \A y \in state.scopes : x.call = y.call /\ x.kind = y.kind => x = y
    /\ pc[x.call] \notin {"queued", "validate", "permission"}
    /\ pc[x.call] \notin {"settle", "done"} => x.kind = "approval_waiting"
    /\ pc[x.call] \in {"record", "upsert"} =>
         event[x.call] \notin {"approval_waiting", "permission_denied"}
    /\ pc[x.call] = "settle" /\ Approved(x.call) => x.kind = "approval_waiting"

\* A counter is ahead of the scopes by the calls between their two writes.
CountOrder ==
  /\ IsFiniteSet(state.scopes)
  /\ state.errors =
       Cardinality(state.scopes) + Cardinality({c \in Calls : pc[c] = "upsert"})
  /\ state.attempts =
       Cardinality(Counted(state.scopes))
         + Cardinality({c \in Calls : pc[c] = "upsert" /\ event[c] # "approval_rejected"})

IndInv ==
  TypeOK /\ LockOrder /\ BatchOrder /\ AttemptOrder /\ ScopeOrder
    /\ ResultOrder /\ FailureHasScope /\ ScopeKinds /\ CountOrder

\* What threads, timeouts and the user's answers must not break: batches that
\* do not overlap, sensitive tools that run only approved, a shared agent state
\* that loses no scope, and no question left open when the turn returns.
ExecutorInv == IndInv /\ ExclusiveRunsAlone /\ RunsOnlyApproved /\ QuestionsSettled

\* What a call still goes through before its next attempt or its end.
PhasesLeft(c) ==
  CASE pc[c] = "queued" -> 12 [] pc[c] = "validate" -> 11 [] pc[c] = "permission" -> 10
    [] pc[c] = "record" -> IF event[c] = "approval_rejected" THEN 6
                           ELSE IF event[c] \in ToolFailures THEN 3 ELSE 9
    [] pc[c] = "upsert" -> IF event[c] = "approval_rejected" THEN 5
                           ELSE IF event[c] \in ToolFailures THEN 2 ELSE 8
    [] pc[c] = "ask" -> 7 [] pc[c] = "settle" -> 4 [] pc[c] = "running" -> 4
    [] pc[c] = "backoff" -> 2 [] pc[c] = "start" -> 1 [] OTHER -> 0

\* The next attempt, the next phase, or the lock for the change of this one.
CallAdvances(c) ==
  \/ attempt'[c] = attempt[c] + 1
  \/ /\ attempt'[c] = attempt[c]
     /\ \/ PhasesLeft(c)' < PhasesLeft(c)
        \/ pc'[c] = pc[c] /\ event'[c] = event[c] /\ c \in lock' \ lock

\* Every step of a call brings it nearer to its end, and no other call takes
\* it back: with RetriesAsDeclared it has only so many, however often its
\* handlers fail and whatever the user answers (_execute_with_retry).
CallsAdvance ==
  [][\A c \in Calls :
       \/ CallAdvances(c)
       \/ /\ ~ExecuteOneRoute(c) /\ ~HandlerReturns(c)
          /\ UNCHANGED <<pc[c], attempt[c], event[c]>> /\ (c \in lock' <=> c \in lock)]_vars

\* The executor does what the agent loop expects of it: one final result for
\* every call, and a return only when all are there.
Turn == INSTANCE ToolTurn
TurnSpec == Turn!Spec

\* Whatever handlers do, the turn comes to an end.
TurnReturns == <>returned
=============================================================================
