------------------------------ MODULE AgentLoop ------------------------------
(***************************************************************************)
(* AgentLoop.run_until_stop (agent/core_loop.py) on one conversation: the  *)
(* agent state it changes (agent/state.py), the recovery scopes of failed  *)
(* model calls (agent/recovery.py), what the projection of                 *)
(* RuntimeContextManager lets the model see, and the session that          *)
(* RuntimeAgentLoop and ChatDebugSession keep from one run to the next.    *)
(*                                                                         *)
(* Executing the calls of an answer is one step here; ToolExecutor opens   *)
(* it.                                                                     *)
(***************************************************************************)
EXTENDS Integers, FiniteSets, Sequences

CONSTANTS
  MaxCalls,     \* bound: tool calls the provider makes
  MaxTurns,     \* max_turns of the loop
  MaxRecovery,  \* max_model_recovery_attempts
  MaxCompacts,  \* max_emergency_compact_attempts
  MaxRuns       \* bound: user messages

ASSUME LoopAssumption ==
  /\ MaxTurns \in Nat \ {0}
  /\ MaxRecovery \in Nat \ {0}
  /\ MaxCompacts \in Nat
  /\ MaxRuns \in Nat
  /\ MaxCalls \in Nat

\* tool_use ids: a provider never uses one twice.
Calls == 1..MaxCalls

ModelFailures == {"model_transport_error", "context_overflow", "model_max_tokens"}
ScopeStatuses == {"active", "waiting", "scheduled", "resolved"}
Scopes == [turn : Nat, kind : ModelFailures \cup {"tool"}, status : ScopeStatuses]

\* What a run ended with: an AgentLoopResult or an exception.
Outcomes == {"finished", "max_turns_reached", "model_transport_error",
             "context_overflow", "raised"}

AgentState ==
  [turn : Nat,                 \* turn_count; 0: no state yet
   ceiling : Nat,              \* max_turns
   pending : SUBSET Calls,     \* pending_tool_use_ids
   results : SUBSET Calls,     \* calls with a tool_result in messages
   raw : SUBSET Calls,         \* those whose result is no receipt
   fresh : SUBSET Calls,       \* results in the last message
   scopes : Seq(Scopes)]       \* recovery.recovery_scopes

VARIABLES
  state,      \* the AgentState of the run
  session,    \* the AgentState the last result left with the caller
  phase,      \* "idle", "model" or "tools"
  outcome,    \* outcome of the last run; "none" before and during the first
  runs,       \* runs begun
  local,      \* local_turns
  attempts,   \* model_transport_attempts
  compacts,   \* emergency_compact_attempts
  active,     \* active_recovery_ids: positions in scopes
  batch,      \* tool_calls of the last answer
  issued,     \* calls the provider has made
  \* history, read by no action
  cut,        \* ids of calls in answers truncated at max_tokens
  dropped,    \* ids of calls the turn limit left unexecuted
  executed,   \* calls given to the executor
  seen,       \* results the model has been shown in full
  stranded,   \* results a failed run left unshown
  cuts        \* truncated answers of the current run

agentVars == <<state, session, phase, outcome, runs, local, attempts, compacts,
               active, batch, issued>>
history == <<cut, dropped, executed, seen, stranded, cuts>>
vars == <<agentVars, history>>

\* The first run creates a state with turn_count 1, a later one adds 1.
NoState == [turn |-> 0, ceiling |-> 0, pending |-> {}, results |-> {},
            raw |-> {}, fresh |-> {}, scopes |-> << >>]

Init ==
  /\ state = NoState
  /\ session = NoState
  /\ phase = "idle"
  /\ outcome = "none"
  /\ runs = 0
  /\ local = 0
  /\ attempts = 0
  /\ compacts = 0
  /\ active = {}
  /\ batch = {}
  /\ issued = 0
  /\ cut = {}
  /\ dropped = {}
  /\ executed = {}
  /\ seen = {}
  /\ stranded = {}
  /\ cuts = 0

----------------------------------------------------------------------------
(* The recovery scopes *)

Strategy(kind, n) ==
  CASE kind = "model_max_tokens" -> "retry_now"
    [] kind = "context_overflow" -> "degrade"
    [] kind = "model_transport_error" ->
         IF n >= MaxRecovery THEN "retry_later" ELSE "retry_now"

StatusFor == [retry_now |-> "active", retry_later |-> "scheduled", degrade |-> "waiting"]

WithScope(s, kind, status) ==
  [s EXCEPT !.scopes = Append(@, [turn |-> s.turn, kind |-> kind, status |-> status])]

RegisterModelRecovery(s, kind, n) == WithScope(s, kind, StatusFor[Strategy(kind, n)])

FinalizeRecoveryIds(s) ==
  [s EXCEPT !.scopes = [i \in DOMAIN s.scopes |->
     IF i \in active THEN [s.scopes[i] EXCEPT !.status = "resolved"] ELSE s.scopes[i]]]

----------------------------------------------------------------------------
(* A run begins and ends *)

\* The caller keeps the state of a result, and nothing of a run that raised.
Stop(s, why) ==
  /\ state' = s
  /\ session' = s
  /\ phase' = "idle"
  /\ outcome' = why

Raise ==
  /\ state' = session
  /\ phase' = "idle"
  /\ outcome' = "raised"
  /\ UNCHANGED session

\* increment_turn
NextTurn(s) ==
  IF s.turn + 1 > s.ceiling
  THEN Raise
  ELSE /\ state' = [s EXCEPT !.turn = @ + 1]
       /\ phase' = "model"
       /\ UNCHANGED <<session, outcome>>

Ceiling(s) == s.turn + 1 + MaxTurns

PrepareState ==
  /\ phase = "idle"
  /\ runs < MaxRuns
  /\ runs' = runs + 1
  /\ state' = [state EXCEPT !.turn = @ + 1, !.ceiling = Ceiling(state), !.fresh = {}]
  /\ phase' = "model"
  /\ local' = 0
  /\ attempts' = 0
  /\ compacts' = 0
  /\ active' = {}
  /\ batch' = {}
  /\ cuts' = 0
  /\ UNCHANGED <<session, outcome, issued, cut, dropped, executed, seen, stranded>>

----------------------------------------------------------------------------
(* The model answers *)

\* Mutant: the projection keeps the old results and makes receipts of the newest.
VisibleOnlyOld(s) == s.raw \ s.fresh

\* micro_compact_messages: what is not in the newest message is a receipt.
Visible(s) == s.raw \cap s.fresh

AppendAssistantMessage(s, calls) ==
  [s EXCEPT !.pending = @ \cup calls, !.fresh = {}]

\* The part every answer shares: recovery ends, the message is appended.
Answered(calls) ==
  AppendAssistantMessage(FinalizeRecoveryIds(state), calls)

ModelAnswers(calls) ==
  /\ phase = "model"
  /\ issued + Cardinality(calls) <= MaxCalls
  /\ calls = (issued + 1)..(issued + Cardinality(calls))
  /\ issued' = issued + Cardinality(calls)
  /\ seen' = seen \cup Visible(state)
  /\ attempts' = 0
  /\ UNCHANGED <<runs, compacts, executed, stranded>>

\* The answer is truncated: a continuation message, and calls in it stay open.
MaxTokens(calls) ==
  /\ ModelAnswers(calls)
  /\ LET s == RegisterModelRecovery(Answered(calls), "model_max_tokens", 1)
     IN  NextTurn(s)
  /\ active' = {Len(state.scopes) + 1}
  /\ cut' = cut \cup calls
  /\ cuts' = cuts + 1
  /\ UNCHANGED <<local, batch, dropped>>

Finish ==
  /\ ModelAnswers({})
  /\ Stop(Answered({}), "finished")
  /\ active' = {}
  /\ UNCHANGED <<local, batch, cut, dropped, cuts>>

MaxTurnsReached(calls) ==
  /\ ModelAnswers(calls)
  /\ calls # {}
  /\ local' = local + 1
  /\ local + 1 >= MaxTurns
  /\ Stop(Answered(calls), "max_turns_reached")
  /\ active' = {}
  /\ dropped' = dropped \cup calls
  /\ UNCHANGED <<batch, cut, cuts>>

\* extract_tool_calls reads the last message only.
ExtractToolCalls(s, calls) == calls

AskTools(calls) ==
  /\ ModelAnswers(calls)
  /\ calls # {}
  /\ local' = local + 1
  /\ local + 1 < MaxTurns
  /\ state' = Answered(calls)
  /\ batch' = ExtractToolCalls(state, calls)
  /\ phase' = "tools"
  /\ active' = {}
  /\ UNCHANGED <<session, outcome, cut, dropped, cuts>>

\* Mutant: the results of the turn replace those of earlier turns.
ReplaceToolResults(s, ids) ==
  [s EXCEPT !.pending = @ \ ids, !.results = ids, !.raw = ids, !.fresh = ids]

AppendToolResults(s, ids) ==
  [s EXCEPT !.pending = @ \ ids, !.results = @ \cup ids, !.raw = @ \cup ids,
            !.fresh = ids]

\* A result without an open call is refused with a ValueError, which nothing
\* in the loop catches.
ResultsMatchCalls(s, ids) == s.turn >= 1 /\ ids \subseteq s.pending

\* Mutant: a scope that waits for somebody pauses the run.
ExecuteUnlessWaiting ==
  /\ phase = "tools"
  /\ \A i \in DOMAIN state.scopes : state.scopes[i].status # "waiting"
  /\ executed' = executed \cup batch
  /\ \E s \in {state, WithScope(state, "tool", "waiting"),
               WithScope(state, "tool", "scheduled")} :
       NextTurn(AppendToolResults(s, batch))
  /\ UNCHANGED <<runs, local, attempts, compacts, active, batch, issued, cut,
                 dropped, seen, stranded, cuts>>

\* One result for each call (ToolTurn); a failed call may leave a scope.
ExecuteToolCalls ==
  /\ phase = "tools"
  /\ executed' = executed \cup batch
  /\ \E s \in {state, WithScope(state, "tool", "waiting"),
               WithScope(state, "tool", "scheduled")} :
       IF ResultsMatchCalls(s, batch)
       THEN NextTurn(AppendToolResults(s, batch))
       ELSE Raise
  /\ UNCHANGED <<runs, local, attempts, compacts, active, batch, issued, cut,
                 dropped, seen, stranded, cuts>>

----------------------------------------------------------------------------
(* The model call fails *)

\* Any exception that names neither context nor prompt.
TransportFails ==
  /\ phase = "model"
  /\ LET kind == "model_transport_error"
         s == RegisterModelRecovery(state, kind, attempts + 1)
     IN  \/ /\ Strategy(kind, attempts + 1) = "retry_now"
            /\ state' = s
            /\ attempts' = attempts + 1
            /\ active' = active \cup {Len(s.scopes)}
            /\ UNCHANGED <<session, phase, outcome, stranded>>
         \/ /\ Strategy(kind, attempts + 1) = "retry_later"
            /\ Stop(s, kind)
            /\ active' = {}
            /\ stranded' = stranded \cup Visible(state)
            /\ UNCHANGED attempts
  /\ UNCHANGED <<runs, local, compacts, batch, issued, cut, dropped, executed, seen, cuts>>

\* An exception that names them: all results become receipts, once; the next
\* overflow ends the run.  The health check of the compacted messages passes:
\* no message is dropped, no tool_use changed, and no task or event is set.
OverflowFails ==
  /\ phase = "model"
  /\ \/ /\ compacts < MaxCompacts
        /\ compacts' = compacts + 1
        /\ state' = [state EXCEPT !.raw = {}]
        /\ UNCHANGED <<session, phase, outcome, active, stranded>>
     \/ /\ compacts >= MaxCompacts
        /\ Stop(RegisterModelRecovery(state, "context_overflow", attempts + 1),
                "context_overflow")
        /\ active' = {}
        /\ stranded' = stranded \cup Visible(state)
        /\ UNCHANGED compacts
  /\ UNCHANGED <<runs, local, attempts, batch, issued, cut, dropped, executed, seen, cuts>>

----------------------------------------------------------------------------
(* The specification *)

LoopStep ==
  \/ Finish
  \/ \E calls \in SUBSET Calls :
       MaxTokens(calls) \/ MaxTurnsReached(calls) \/ AskTools(calls)
  \/ ExecuteToolCalls
  \/ TransportFails
  \/ OverflowFails

Next == PrepareState \/ LoopStep

Spec == Init /\ [][Next]_vars

\* One thread runs the loop; the model client answers or raises, by its
\* timeout at the latest.
FairSpec == Spec /\ WF_vars(LoopStep)

----------------------------------------------------------------------------
(* Properties *)

\* Every field stays in its range (agent/state.py, validate_agent_state).
TypeOK ==
  /\ state \in AgentState
  /\ session \in AgentState
  /\ phase \in {"idle", "model", "tools"}
  /\ outcome \in Outcomes \cup {"none"}
  /\ runs \in Nat
  /\ local \in Nat
  /\ attempts \in Nat
  /\ compacts \in Nat
  /\ active \subseteq Nat
  /\ phase # "idle" => active \subseteq DOMAIN state.scopes
  /\ batch \subseteq Calls
  /\ issued \in 0..MaxCalls
  /\ cut \subseteq 1..issued
  /\ dropped \subseteq 1..issued
  /\ executed \subseteq 1..issued
  /\ seen \subseteq Calls
  /\ stranded \subseteq Calls
  /\ cuts \in Nat

\* A call stays in pending_tool_use_ids only because its answer was truncated
\* or because the turn limit came first; the executor has answered every
\* other one, whatever failed in between (core_loop.py run_until_stop).
OpenCallsExplained ==
  /\ state.pending \subseteq cut \cup dropped \cup (IF phase = "tools" THEN batch ELSE {})
  /\ state.pending \cap state.results = {}

\* A call of a truncated answer, whose arguments may be incomplete, or of an
\* answer over the turn limit never reaches the executor, in this run or in a
\* later one that finds it pending (core_loop.py extract_tool_calls).
CutNeverRuns == executed \cap (cut \cup dropped) = {}

\* The model has seen each result in full before it is shown a receipt in its
\* place, unless an emergency compaction or the end of a failed run came first
\* (runtime_context.py micro_compact_messages).
SeenBeforeReceipt ==
  state.results \ (state.fresh \cup seen)
    \subseteq (state.results \ state.raw) \cup stranded

\* Recovery scopes of the current run.
OwnScopes ==
  {i \in DOMAIN state.scopes :
     state.scopes[i].turn + MaxTurns >= state.ceiling /\ state.scopes[i].kind # "tool"}

OwnActive == {i \in OwnScopes : state.scopes[i].status = "active"}

\* While a run lasts its active scopes are those it will finalize; a run that
\* ends with an answer leaves none, and one that gives up leaves a scope for
\* the restart (core_loop.py _register_model_recovery, _finalize_recovery_ids).
RecoverySettled ==
  /\ phase # "idle" => OwnActive = active
  /\ phase = "idle" /\ outcome \in {"finished", "max_turns_reached"} => OwnActive = {}
  /\ phase = "idle" /\ outcome = "model_transport_error" =>
       \E i \in OwnScopes : state.scopes[i].status = "scheduled"
  /\ phase = "idle" /\ outcome = "context_overflow" =>
       \E i \in OwnScopes : state.scopes[i].status = "waiting"

\* Between two answers the model is called at most max_model_recovery_attempts
\* times, emergency compactions aside, and the turns stay within the limit.
RetriesBounded ==
  /\ attempts < MaxRecovery
  /\ Cardinality(active) <= attempts + 1
  /\ compacts <= MaxCompacts
  /\ phase # "idle" => local < MaxTurns /\ state.turn <= state.ceiling

\* increment_turn raises out of the loop only when truncated answers have used
\* up turns that local_turns does not count: two of them at least.
RaisesOnlyAfterCuts ==
  phase = "idle" /\ outcome = "raised" => cuts >= 2 /\ cuts + local > MaxTurns

\* The caller loses the results of executed tools only by such an exception
\* (core_loop.py run_turn, runtime_loop.py _run_loop_and_store_result).
ResultsKept ==
  [][executed' \ state'.results # executed \ state.results
       => phase' = "idle" /\ outcome' = "raised"]_vars

\* Every run ends, whatever the provider does.
RunEnds == phase # "idle" ~> phase = "idle"

\* The next turn, the tools of this one, a compaction or the next attempt.
RunAdvances ==
  /\ state'.ceiling = state.ceiling
  /\ \/ state'.turn = state.turn + 1 /\ state'.turn <= state.ceiling
     \/ /\ state'.turn = state.turn
        /\ \/ phase = "model" /\ phase' = "tools"
           \/ /\ phase = "model" /\ phase' = "model"
              /\ \/ compacts' = compacts + 1 /\ compacts' <= MaxCompacts
                 \/ /\ compacts' = compacts
                    /\ attempts' = attempts + 1 /\ attempts' < MaxRecovery

\* Every step of a run uses up something that is bounded and that no later step
\* of the run gives back, whatever the provider answers or how often it fails
\* (core_loop.py run_until_stop).
RunsAdvance == [][phase # "idle" /\ phase' # "idle" => RunAdvances]_vars

\* What ties the state of a run to the session, and the turns to the counters.
SessionKept == phase = "idle" => state = session

IdsIssued ==
  /\ \A s \in {state, session} :
       /\ s.pending \subseteq 1..issued
       /\ s.results \subseteq executed
       /\ s.raw \subseteq s.results
       /\ s.fresh \subseteq s.results
       /\ \A i \in DOMAIN s.scopes : s.scopes[i].turn <= s.turn
  /\ seen \cup stranded \subseteq executed

SessionExplained ==
  /\ session.pending \subseteq cut \cup dropped
  /\ session.pending \cap session.results = {}
  /\ session.raw \subseteq seen \cup stranded

ToolsPhase ==
  phase = "tools" =>
    /\ state.fresh = {}
    /\ active = {}
    /\ local >= 1
    /\ batch \subseteq state.pending
    /\ batch \cap (cut \cup dropped \cup executed) = {}

TurnBudget ==
  phase # "idle" =>
    /\ state.turn >= 1
    /\ state.turn + MaxTurns + (IF phase = "tools" THEN 1 ELSE 0)
         = state.ceiling + cuts + local

LoopInv ==
  /\ TypeOK
  /\ SessionKept
  /\ IdsIssued
  /\ SessionExplained
  /\ ToolsPhase
  /\ TurnBudget
  /\ OpenCallsExplained
  /\ CutNeverRuns
  /\ SeenBeforeReceipt
  /\ RecoverySettled
  /\ RetriesBounded
  /\ RaisesOnlyAfterCuts
=============================================================================
