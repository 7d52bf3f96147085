----------------------------- MODULE ChatContext -----------------------------
(***************************************************************************)
(* The /chat console: tasks submitted to ChatDebugService run on its worker*)
(* thread, while the console thread takes /context clear and /context      *)
(* compress.  Both threads get or create the one ChatDebugSession and use  *)
(* its RuntimeContextManager, PhaseSummaryService and journal without a    *)
(* lock (app.py, agent/debug_chat_service.py, context/runtime_context.py,  *)
(* context/phase_summary.py, context/compression_journal.py).              *)
(*                                                                         *)
(* The recovery scopes and the tool calls of a run are AgentLoop's; a run  *)
(* here is its model calls and what is projected, summarized and journaled *)
(* around each of them.                                                    *)
(***************************************************************************)
EXTENDS Integers, FiniteSets

CONSTANTS
  None,
  MaxTasks,     \* bound: chat tasks submitted
  MaxResults,   \* bound: tool results in a conversation
  MaxFaults,    \* bound: failed model calls and failed writes
  MaxCommands,  \* bound: /context commands
  MaxModelRecovery,  \* max_model_recovery_attempts
  ResultTokens, \* tokens of a raw tool result; any other message counts 1
  SoftLimit,    \* soft_token_limit
  HardLimit,    \* hard_token_limit
  ModelWindow   \* the provider rejects no request of fewer tokens

ASSUME ContextAssumption ==
  /\ {MaxTasks, MaxResults, MaxFaults, MaxCommands} \subseteq Nat
  /\ {MaxModelRecovery, ResultTokens, SoftLimit, ModelWindow} \subseteq Nat \ {0}
  /\ HardLimit \in Nat /\ HardLimit >= SoftLimit
  /\ None \notin Nat

Threads == {"chat", "console"}

\* Both threads may create a session; nothing else does.
Sessions == 1..2

Results == 1..MaxResults
Result(s, r) == [session |-> s, result |-> r]

Transitions == {"start", "user_continuation", "tool_result_continuation",
                "transport_retry", "emergency_compact_retry"}

Conversations ==
  [turn : Nat, len : Nat,          \* turn_count, len(messages)
   user : Nat,                     \* the latest user text: the task it came from
   results : Nat,                  \* tool results in messages
   raw : SUBSET Results,           \* those that are no receipt
   fresh : SUBSET Results,         \* those of the last message
   interrupted : BOOLEAN,          \* latest_interruption_reason is set
   transition : Transitions]

Phases == {"none", "received_user_request", "completed_tool_read", "tool_failure_recovery"}
Reasons == {"none", "context_overflow", "manual_compress", "budget_hard_limit",
            "phase_boundary_budget", "phase_boundary_only"}

\* dedupe_key; the session stands for the query id.
Keys == [session : Sessions, turn : Nat, len : Nat, reason : Reasons,
         phase : Phases, tokens : Nat]

WorkingSets == [turn : Nat, user : Nat, tools : BOOLEAN, interrupted : BOOLEAN,
                transition : Transitions]
Deltas == [newUser : BOOLEAN, advanced : BOOLEAN]

\* RuntimeContextManager: what it published last, and its journal keys.
Managers ==
  [ws : WorkingSets \cup {None}, delta : Deltas \cup {None}, tokens : Nat,
   health : BOOLEAN, keys : SUBSET SUBSET Results]

\* What a thread read of the manager, the key it decided on, and the summary.
Looks ==
  [ws : WorkingSets \cup {None}, health : BOOLEAN, key : Keys \cup {None},
   summary : Nat \cup {None}]

VARIABLES
  accepted, processed,  \* counters of ChatDebugService; the queue is their gap
  persistent,           \* _persistent_chat_session
  created,              \* sessions created
  conv,                 \* ChatDebugSession.state of each session
  mgr,                  \* the RuntimeContextManager of each session
  completed,            \* _completed_keys of each PhaseSummaryService
  audited,              \* _phase_summary_journal_keys of each AgentLoop
  summaries,            \* data/contexts: ids and keys
  journal,              \* data/contexts/journal
  pc, sess, st,         \* of each thread: place, session, AgentState
  look,                 \* of each thread: what it read of the manager
  forced,               \* the chat thread summarizes for an overflow
  transportAttempts, emergencyCompacts,   \* model_transport_attempts, emergency_compact_attempts
  faults, commands,
  \* history, read by no action
  shown,                \* receipts the model was given instead of a result
  unwritten,            \* keys and results whose journal entry failed
  raced                 \* both threads found no session

serviceVars == <<accepted, processed>>
sessionVars == <<persistent, created, conv, raced>>
fileVars == <<summaries, journal, unwritten>>
keyVars == <<completed, audited>>
runVars == <<transportAttempts, emergencyCompacts, forced>>
chatVars == <<serviceVars, sessionVars, mgr, fileVars, keyVars, runVars, pc, sess, st,
              look, faults, commands, shown>>

NoManager == [ws |-> None, delta |-> None, tokens |-> 0, health |-> FALSE, keys |-> {}]
NoLook == [ws |-> None, health |-> FALSE, key |-> None, summary |-> None]

ChatInit ==
  /\ accepted = 0 /\ processed = 0
  /\ persistent = None /\ created = 0
  /\ conv = [s \in Sessions |-> None]
  /\ mgr = [s \in Sessions |-> NoManager]
  /\ completed = [s \in Sessions |-> {}]
  /\ audited = [s \in Sessions |-> {}]
  /\ summaries = {} /\ journal = {}
  /\ pc = [t \in Threads |-> "idle"]
  /\ sess = [t \in Threads |-> None]
  /\ st = [t \in Threads |-> None]
  /\ look = [t \in Threads |-> NoLook]
  /\ forced = FALSE
  /\ transportAttempts = 0 /\ emergencyCompacts = 0
  /\ faults = 0 /\ commands = 0
  /\ shown = {} /\ unwritten = {}
  /\ raced = FALSE

----------------------------------------------------------------------------
(* Mutants of the definitions below *)

\* Mutant: nothing remembers which keys were summarized.
NeverCompleted(s, k) == FALSE

\* Mutant: the journal of projections is kept once per query.
MicroKeyOfQuery(ids) == {}

\* Mutant: the journal of summaries is kept once per turn.
AuditKeyOfTurn(k) == [k EXCEPT !.len = 0, !.reason = "none", !.phase = "none", !.tokens = 0]

\* Mutant: one retry too many.
LastAttemptLate(n) == n >= MaxModelRecovery

----------------------------------------------------------------------------
(* What the manager computes from a conversation *)

FirstMessages(user) ==
  [turn |-> 1, len |-> 2, user |-> user, results |-> 0, raw |-> {}, fresh |-> {},
   interrupted |-> FALSE, transition |-> "start"]

PrepareConversation(c, user) ==
  IF c = None THEN FirstMessages(user)
  ELSE [c EXCEPT !.turn = @ + 1, !.len = @ + 1, !.user = user, !.fresh = {},
                 !.transition = "user_continuation"]

\* micro_compact_messages replaces every raw result but the fresh ones.
KeptRaw(c) == c.raw \cap c.fresh
CompactedIds(c) == c.raw \ KeptRaw(c)
Receipts(c) == (1..c.results) \ KeptRaw(c)

EstimateTokens(c) == c.len + ResultTokens * Cardinality(KeptRaw(c))

ToolsUsed(c) == c.results > 0

WorkingSet(c) ==
  [turn |-> c.turn, user |-> c.user, tools |-> ToolsUsed(c),
   interrupted |-> c.interrupted, transition |-> c.transition]

Changed(before, now, field) == before = None \/ before[field] # now[field]

StateDelta(before, now) ==
  [newUser |-> Changed(before, now, "user"), advanced |-> Changed(before, now, "turn")]

\* PhaseBoundaryDetector.detect; approvals and task ids never enter this state.
PhaseOf(ws, delta) ==
  CASE ws.interrupted -> "tool_failure_recovery"
    [] ws.tools /\ ~ws.interrupted -> "completed_tool_read"
    [] /\ ~ws.interrupted /\ ~ws.tools
       /\ \/ /\ delta # None
             /\ delta.newUser \/ (delta.advanced /\ ws.transition = "user_continuation")
          \/ ws.transition = "start" -> "received_user_request"
    [] OTHER -> "none"

ReasonOf(force, phase, tokens) ==
  CASE force # "" -> force
    [] force = "" /\ tokens >= HardLimit -> "budget_hard_limit"
    [] force = "" /\ tokens < HardLimit /\ phase # "none" /\ tokens >= SoftLimit ->
         "phase_boundary_budget"
    [] force = "" /\ tokens < SoftLimit /\ phase # "none" -> "phase_boundary_only"
    [] OTHER -> "none"

RequiresLlm(k) == k.reason \notin {"none", "phase_boundary_only"}

\* What the files under data/contexts hold, as far as the properties ask.
SummaryFile(id, k) == [id |-> id, key |-> k]
MicroEntry(s, ids) == [kind |-> "micro_compact", session |-> s, ids |-> ids]
EmergencyEntry(s, ids) == [kind |-> "emergency_compact", session |-> s, ids |-> ids]
SummaryEntry(s, k, id) ==
  [kind |-> IF RequiresLlm(k) THEN "phase_summary" ELSE "phase_boundary",
   session |-> s, key |-> k, summary |-> id]

MicroKey(ids) == ids
Completed(s, k) == k \in completed[s]
AuditKey(k) == k
SessionMissing == persistent = None
LastAttempt(n) == n + 1 >= MaxModelRecovery

----------------------------------------------------------------------------
(* ChatDebugService and the session *)

At(t, place) == pc' = [pc EXCEPT ![t] = place]

\* submit_chat_debug_task: start the worker if it is not running, enqueue.
Submit ==
  /\ pc["console"] = "idle"
  /\ accepted < MaxTasks
  /\ accepted' = accepted + 1
  /\ UNCHANGED <<processed, sessionVars, mgr, fileVars, keyVars, runVars, pc, sess,
                 st, look, faults, commands, shown>>

TakeTask ==
  /\ pc["chat"] = "idle"
  /\ processed < accepted
  /\ At("chat", "get")
  /\ UNCHANGED <<serviceVars, sessionVars, mgr, fileVars, keyVars, runVars, sess,
                 st, look, faults, commands, shown>>

CompressCommand ==
  /\ pc["console"] = "idle"
  /\ commands < MaxCommands
  /\ commands' = commands + 1
  /\ At("console", "get")
  /\ UNCHANGED <<serviceVars, sessionVars, mgr, fileVars, keyVars, runVars, sess,
                 st, look, faults, shown>>

\* clear_context_debug: RuntimeContextManager.reset, nothing else.
ClearCommand ==
  /\ pc["console"] = "idle"
  /\ commands < MaxCommands
  /\ commands' = commands + 1
  /\ persistent # None
  /\ mgr' = [mgr EXCEPT ![persistent] = NoManager]
  /\ UNCHANGED <<serviceVars, sessionVars, fileVars, keyVars, runVars, pc, sess,
                 st, look, faults, shown>>

\* _get_or_create_persistent_chat_session looks first and creates later.
LookForSession(t) ==
  /\ pc[t] = "get"
  /\ At(t, IF SessionMissing THEN "create" ELSE "use")
  /\ raced' = (raced \/ (SessionMissing /\ \E u \in Threads : pc[u] = "create"))
  /\ UNCHANGED <<serviceVars, persistent, created, conv, mgr, fileVars, keyVars,
                 runVars, sess, st, look, faults, commands, shown>>

CreateSession(t) ==
  /\ pc[t] = "create"
  /\ created + 1 \in Sessions
  /\ created' = created + 1
  /\ persistent' = created + 1
  /\ At(t, "use")
  /\ UNCHANGED <<serviceVars, conv, raced, mgr, fileVars, keyVars, runVars, sess,
                 st, look, faults, commands, shown>>

\* The handler runs a turn on the session; compress reads the state that the
\* last finished turn left.
UseSession(t) ==
  LET c == conv[persistent]
      mine == IF t = "chat" THEN PrepareConversation(c, processed + 1) ELSE c
  IN /\ pc[t] = "use"
     /\ sess' = [sess EXCEPT ![t] = IF mine = None THEN None ELSE persistent]
     /\ st' = [st EXCEPT ![t] = mine]
     /\ At(t, IF mine = None THEN "idle" ELSE "project")
     /\ IF t = "chat" THEN transportAttempts' = 0 /\ emergencyCompacts' = 0 /\ forced' = FALSE
                      ELSE UNCHANGED runVars
     /\ UNCHANGED <<serviceVars, sessionVars, mgr, fileVars, keyVars, look, faults,
                    commands, shown>>

Release(t) ==
  /\ At(t, "idle")
  /\ sess' = [sess EXCEPT ![t] = None]
  /\ st' = [st EXCEPT ![t] = None]
  /\ look' = [look EXCEPT ![t] = NoLook]

----------------------------------------------------------------------------
(* RuntimeContextManager.project: what it publishes before and after the      *)
(* messages are compacted, and the journal of the compaction                  *)

ProjectUnchanged ==
  UNCHANGED <<serviceVars, sessionVars, keyVars, runVars, sess, commands, shown>>

PublishWorkingSet(t) ==
  LET s == sess[t]
      now == WorkingSet(st[t])
  IN /\ pc[t] = "project"
     /\ mgr' = [mgr EXCEPT ![s].delta = StateDelta(mgr[s].ws, now), ![s].ws = now]
     /\ At(t, "budget")
     /\ ProjectUnchanged
     /\ UNCHANGED <<fileVars, st, look, faults>>

\* The health check passes: a projection drops no message and no id.
PublishBudget(t) ==
  /\ pc[t] = "budget"
  /\ mgr' = [mgr EXCEPT ![sess[t]].tokens = EstimateTokens(st[t]),
                        ![sess[t]].health = TRUE]
  /\ At(t, "check")
  /\ ProjectUnchanged
  /\ UNCHANGED <<fileVars, st, look, faults>>

\* _record_projection_change_journal reads latest_health_check here ...
CheckMicroKey(t) ==
  LET s == sess[t]
      ids == CompactedIds(st[t])
  IN /\ pc[t] = "check"
     /\ IF ids = {} \/ MicroKey(ids) \in mgr[s].keys
        THEN /\ At(t, "working")
             /\ UNCHANGED look
        ELSE /\ At(t, "journal")
             /\ look' = [look EXCEPT ![t].health = mgr[s].health]
     /\ ProjectUnchanged
     /\ UNCHANGED <<mgr, fileVars, st, faults>>

\* ... and again before it writes, where a clear in between makes it raise.
ClearedMeanwhile(t) == look[t].health /\ ~mgr[sess[t]].health

JournalMicro(t) ==
  LET s == sess[t]
      ids == CompactedIds(st[t])
  IN /\ pc[t] = "journal"
     /\ ~ClearedMeanwhile(t)
     /\ \/ /\ journal' = journal \cup {MicroEntry(s, ids)}
           /\ At(t, "remember")
           /\ UNCHANGED <<unwritten, faults>>
        \/ /\ faults < MaxFaults
           /\ faults' = faults + 1
           /\ unwritten' = unwritten \cup {Result(s, r) : r \in ids}
           /\ At(t, "working")
           /\ UNCHANGED journal
     /\ ProjectUnchanged
     /\ UNCHANGED <<mgr, summaries, st, look>>

RememberMicroKey(t) ==
  /\ pc[t] = "remember"
  /\ mgr' = [mgr EXCEPT ![sess[t]].keys = @ \cup {MicroKey(CompactedIds(st[t]))}]
  /\ At(t, "working")
  /\ ProjectUnchanged
  /\ UNCHANGED <<fileVars, st, look, faults>>

----------------------------------------------------------------------------
(* _maybe_create_phase_summary and compress_context_debug *)

\* Where the chat thread goes on: an overflow is compacted, else the model runs.
AfterSummary == IF forced THEN "compact" ELSE "call"

SummaryUnchanged ==
  UNCHANGED <<serviceVars, sessionVars, mgr, runVars, commands, shown>>

EndSummary(t) ==
  IF t = "chat" THEN /\ At("chat", AfterSummary)
                     /\ look' = [look EXCEPT ![t] = NoLook]
                     /\ UNCHANGED <<sess, st>>
                ELSE Release(t)

ReadWorkingSet(t) ==
  LET ws == mgr[sess[t]].ws
  IN /\ pc[t] = "working"
     /\ IF ws = None THEN EndSummary(t)
        ELSE /\ At(t, "evaluate")
             /\ look' = [look EXCEPT ![t].ws = ws]
             /\ UNCHANGED <<sess, st>>
     /\ SummaryUnchanged
     /\ UNCHANGED <<fileVars, keyVars, faults>>

\* The delta and the budget are the manager's of this moment; compress reads
\* the session's state again.
TriggerKey(t) ==
  LET s == sess[t]
      c == IF t = "chat" THEN st[t] ELSE conv[s]
      force == IF t = "console" THEN "manual_compress"
               ELSE IF forced THEN "context_overflow" ELSE ""
      phase == PhaseOf(look[t].ws, mgr[s].delta)
      reason == ReasonOf(force, phase, mgr[s].tokens)
  IN [session |-> s, turn |-> c.turn, len |-> c.len, reason |-> reason,
      phase |-> IF reason = "none" THEN "none" ELSE phase, tokens |-> mgr[s].tokens]

Evaluate(t) ==
  LET k == TriggerKey(t)
      audit == /\ At(t, "audit")
               /\ look' = [look EXCEPT ![t].key = k]
               /\ UNCHANGED <<sess, st>>
  IN /\ pc[t] = "evaluate"
     /\ \/ /\ k.reason = "none"
           /\ EndSummary(t)
        \/ /\ RequiresLlm(k) => Completed(sess[t], k)
           /\ k.reason # "none"
           /\ IF t = "chat" THEN audit ELSE EndSummary(t)
        \/ /\ RequiresLlm(k) /\ ~Completed(sess[t], k)
           /\ At(t, "summarize")
           /\ look' = [look EXCEPT ![t].key = k]
           /\ UNCHANGED <<sess, st>>
     /\ SummaryUnchanged
     /\ UNCHANGED <<fileVars, keyVars, faults>>

\* The LLM writes the summary and the store keeps it; only then is the key
\* complete.  The console writes no journal entry.
Summarize(t) ==
  LET k == look[t].key
      id == Cardinality(summaries) + 1
  IN /\ pc[t] = "summarize"
     /\ summaries' = summaries \cup {SummaryFile(id, k)}
     /\ completed' = [completed EXCEPT ![sess[t]] = @ \cup {k}]
     /\ IF t = "chat" THEN /\ At(t, "audit")
                           /\ look' = [look EXCEPT ![t].summary = id]
                           /\ UNCHANGED <<sess, st>>
                      ELSE Release(t)
     /\ SummaryUnchanged
     /\ UNCHANGED <<journal, unwritten, audited, faults>>

SummaryFails(t) ==
  /\ pc[t] = "summarize"
  /\ faults < MaxFaults
  /\ faults' = faults + 1
  /\ EndSummary(t)
  /\ SummaryUnchanged
  /\ UNCHANGED <<fileVars, keyVars>>

\* _record_phase_summary_journal
Audit ==
  LET k == look["chat"].key
      s == sess["chat"]
  IN /\ pc["chat"] = "audit"
     /\ \/ /\ AuditKey(k) \in audited[s]
           /\ UNCHANGED <<journal, unwritten, audited, faults>>
        \/ /\ AuditKey(k) \notin audited[s]
           /\ journal' = journal \cup {SummaryEntry(s, k, look["chat"].summary)}
           /\ audited' = [audited EXCEPT ![s] = @ \cup {AuditKey(k)}]
           /\ UNCHANGED <<unwritten, faults>>
        \/ /\ AuditKey(k) \notin audited[s]
           /\ faults < MaxFaults
           /\ faults' = faults + 1
           /\ unwritten' = unwritten \cup {k}
           /\ UNCHANGED <<journal, audited>>
     /\ EndSummary("chat")
     /\ SummaryUnchanged
     /\ UNCHANGED <<summaries, completed>>

----------------------------------------------------------------------------
(* run_until_stop around the model call *)

Chat == "chat"

CallUnchanged ==
  UNCHANGED <<accepted, persistent, created, raced, keyVars, summaries, commands>>

FinishTurn(c) ==
  /\ conv' = [conv EXCEPT ![sess[Chat]] = c]
  /\ processed' = processed + 1
  /\ Release(Chat)

Continue(c) ==
  /\ st' = [st EXCEPT ![Chat] = c]
  /\ UNCHANGED <<processed, conv, sess, look>>

Show == shown' = shown \cup {Result(sess[Chat], r) : r \in Receipts(st[Chat])}

Answer ==
  /\ pc[Chat] = "call"
  /\ FinishTurn([st[Chat] EXCEPT !.len = @ + 1, !.fresh = {}])
  /\ Show
  /\ CallUnchanged
  /\ UNCHANGED <<mgr, runVars, journal, unwritten, faults>>

\* An answer with a tool call, executed and appended.
CallTool ==
  LET c == st[Chat]
      n == c.results + 1
  IN /\ pc[Chat] = "call"
     /\ n \in Results
     /\ Continue([c EXCEPT !.len = @ + 2, !.turn = @ + 1, !.results = n,
                           !.raw = @ \cup {n}, !.fresh = {n},
                           !.transition = "tool_result_continuation"])
     /\ transportAttempts' = 0
     /\ At(Chat, "project")
     /\ Show
     /\ CallUnchanged
     /\ UNCHANGED <<mgr, forced, emergencyCompacts, journal, unwritten, faults>>

Interrupted(c) == [c EXCEPT !.interrupted = TRUE]

\* The recovery of model_transport_error, and of any exception of the projection.
RetryOrFail ==
  LET c == Interrupted(st[Chat])
  IN IF LastAttempt(transportAttempts)
     THEN /\ FinishTurn(c)
          /\ UNCHANGED transportAttempts
     ELSE /\ Continue([c EXCEPT !.transition = "transport_retry"])
          /\ transportAttempts' = transportAttempts + 1
          /\ At(Chat, "project")

ModelCallFails ==
  /\ pc[Chat] = "call"
  /\ faults < MaxFaults
  /\ faults' = faults + 1
  /\ RetryOrFail
  /\ CallUnchanged
  /\ UNCHANGED <<mgr, forced, emergencyCompacts, journal, unwritten, shown>>

ProjectionRaises(t) ==
  /\ pc[t] = "journal"
  /\ ClearedMeanwhile(t)
  /\ IF t = Chat THEN RetryOrFail
                 ELSE Release(t) /\ UNCHANGED <<processed, conv, transportAttempts>>
  /\ CallUnchanged
  /\ UNCHANGED <<mgr, forced, emergencyCompacts, journal, unwritten, faults, shown>>

Overflows ==
  /\ pc[Chat] = "call"
  /\ EstimateTokens(st[Chat]) >= ModelWindow
  /\ forced' = TRUE
  /\ At(Chat, "working")
  /\ CallUnchanged
  /\ UNCHANGED <<processed, conv, mgr, transportAttempts, emergencyCompacts, journal,
                 unwritten, faults, sess, st, look, shown>>

\* _apply_emergency_compact once in a run: every result becomes a receipt in
\* the state itself.  A second overflow ends the run.
EmergencyCompact ==
  LET c == st[Chat]
      s == sess[Chat]
      compacted == [c EXCEPT !.raw = {}, !.transition = "emergency_compact_retry"]
  IN /\ pc[Chat] = "compact"
     /\ emergencyCompacts = 0
     /\ emergencyCompacts' = 1
     /\ forced' = FALSE
     /\ \/ /\ journal' = journal \cup {EmergencyEntry(s, c.raw)}
           /\ UNCHANGED <<unwritten, faults>>
        \/ /\ faults < MaxFaults
           /\ faults' = faults + 1
           /\ unwritten' = unwritten \cup {Result(s, r) : r \in c.raw}
           /\ UNCHANGED journal
     /\ mgr' = [mgr EXCEPT ![s].tokens = EstimateTokens(compacted), ![s].health = TRUE]
     /\ Continue(compacted)
     /\ At(Chat, "project")
     /\ CallUnchanged
     /\ UNCHANGED <<transportAttempts, shown>>

OverflowAgain ==
  /\ pc[Chat] = "compact"
  /\ emergencyCompacts = 1
  /\ forced' = FALSE
  /\ FinishTurn(Interrupted(st[Chat]))
  /\ CallUnchanged
  /\ UNCHANGED <<mgr, transportAttempts, emergencyCompacts, journal, unwritten, faults, shown>>

----------------------------------------------------------------------------
Project(t) ==
  \/ PublishWorkingSet(t) \/ PublishBudget(t)
  \/ CheckMicroKey(t) \/ JournalMicro(t) \/ RememberMicroKey(t) \/ ProjectionRaises(t)

Thread(t) ==
  \/ LookForSession(t) \/ CreateSession(t) \/ UseSession(t)
  \/ Project(t)
  \/ ReadWorkingSet(t) \/ Evaluate(t) \/ Summarize(t) \/ SummaryFails(t)

ChatThread ==
  \/ TakeTask
  \/ Thread(Chat)
  \/ Audit
  \/ Answer \/ CallTool \/ ModelCallFails \/ Overflows
  \/ EmergencyCompact \/ OverflowAgain

ChatNext ==
  \/ Submit \/ CompressCommand \/ ClearCommand
  \/ Thread("console")
  \/ ChatThread

ChatSpec == ChatInit /\ [][ChatNext]_chatVars

----------------------------------------------------------------------------
(* Type correctness.                                                       *)
Places == {"idle", "get", "create", "use", "project", "budget", "check",
           "journal", "remember", "working", "evaluate", "summarize", "audit",
           "call", "compact"}

ChatTypeOK ==
  /\ accepted \in 0..MaxTasks /\ processed \in 0..accepted
  /\ persistent \in Sessions \cup {None} /\ created \in 0..2
  /\ conv \in [Sessions -> Conversations \cup {None}]
  /\ mgr \in [Sessions -> Managers]
  /\ completed \in [Sessions -> SUBSET Keys] /\ audited \in [Sessions -> SUBSET Keys]
  /\ summaries \subseteq [id : Nat, key : Keys]
  /\ pc \in [Threads -> Places] /\ pc["console"] \notin {"audit", "call", "compact"}
  /\ sess \in [Threads -> Sessions \cup {None}]
  /\ st \in [Threads -> Conversations \cup {None}]
  /\ look \in [Threads -> Looks]
  /\ forced \in BOOLEAN /\ raced \in BOOLEAN
  /\ transportAttempts \in 0..(MaxModelRecovery - 1) /\ emergencyCompacts \in 0..1
  /\ faults \in 0..MaxFaults /\ commands \in 0..MaxCommands

(* The dedupe key of PhaseSummaryService: a state of the conversation is   *)
(* summarized at most once for one reason, whichever thread asks, however  *)
(* often a failed call is retried or the user compresses, and also after   *)
(* /context clear, which leaves those keys alone.                          *)
SummarizedOnce == \A x, y \in summaries : x.key = y.key => x = y

(* The Compression Journal explains every receipt: a tool result that the  *)
(* model was not given in full is named by an entry of a projection or of  *)
(* an emergency compaction, unless writing the entry failed.  Neither two  *)
(* threads that project at once nor a clear between the write and the key  *)
(* loses an entry.                                                         *)
ReceiptsJournaled ==
  \A p \in shown :
    \/ p \in unwritten
    \/ \E j \in journal :
         /\ j.session = p.session /\ j.kind \in {"micro_compact", "emergency_compact"}
         /\ p.result \in j.ids

(* Every summary of the loop is named by an entry of the journal as soon   *)
(* as the loop goes on, and an entry without its summary is one that was   *)
(* written again after the first write had failed.                         *)
SummariesJournaled ==
  /\ \A x \in summaries :
       \/ x.key.reason = "manual_compress"
       \/ x.key \in unwritten
       \/ pc[Chat] = "audit" /\ look[Chat].summary = x.id
       \/ \E j \in journal : j.kind = "phase_summary" /\ j.summary = x.id
  /\ \A j \in journal :
       j.kind = "phase_summary" /\ j.summary = None => j.key \in unwritten

\* A thread in a run of the session has the session and a state of it.
Idle == {"idle", "get", "create", "use"}

PlacesAgree ==
  /\ pc[Chat] # "idle" => processed < accepted
  /\ \A t \in Threads :
       /\ pc[t] \in Idle => sess[t] = None /\ st[t] = None
       /\ pc[t] \notin Idle => sess[t] \in Sessions /\ st[t] \in Conversations
       /\ pc[t] \notin Idle \/ pc[t] = "use" => persistent \in Sessions
       /\ pc[t] # "audit" => look[t].summary = None
       /\ pc[t] \in {"summarize", "audit"} =>
            /\ look[t].key \in Keys /\ look[t].key.session = sess[t]
            /\ look[t].key.reason = "manual_compress" <=> t = "console"
  /\ pc["console"] \notin Idle => conv[sess["console"]] \in Conversations

(* A conversation that a task left is the one the next task continues, and *)
(* every thread works on it, unless a compress and the first task both     *)
(* found no session.                                                       *)
ReplacedOnlyByRace ==
  ~raced =>
    /\ \A s \in Sessions : conv[s] # None => persistent = s
    /\ \A t \in Threads : sess[t] # None => persistent = sess[t]
    /\ \A t, u \in Threads : pc[t] = "create" =>
         persistent = None /\ (pc[u] = "create" => t = u)

(* A summary has an id of its own and a key that PhaseSummaryService has   *)
(* completed; a thread that is about to summarize has one that is not.     *)
KeysCompleted ==
  /\ IsFiniteSet(summaries)
  /\ \A x \in summaries :
       /\ x.id \in 1..Cardinality(summaries)
       /\ \A y \in summaries : x.id = y.id => x = y
       /\ RequiresLlm(x.key) /\ x.key \in completed[x.key.session]
  /\ \A t \in Threads : pc[t] = "summarize" =>
       RequiresLlm(look[t].key) /\ look[t].key \notin completed[sess[t]]

\* The chat thread has summarized and has still to write the entry.
Unaudited(s, k) ==
  pc[Chat] = "audit" /\ sess[Chat] = s /\ look[Chat].key = k /\ look[Chat].summary # None

(* A key is completed before it is audited, and a completed key of the     *)
(* loop is audited, unwritten or about to be.                              *)
KeysAudited ==
  /\ \A s \in Sessions :
       /\ \A k \in audited[s] : RequiresLlm(k) => k \in completed[s]
       /\ \A k \in completed[s] :
            \/ k.reason = "manual_compress"
            \/ k \in audited[s] \cup unwritten
            \/ Unaudited(s, k)
  /\ LET k == look[Chat].key IN pc[Chat] = "audit" =>
       IF look[Chat].summary = None
       THEN RequiresLlm(k) => /\ k \in completed[sess[Chat]]
                              /\ k \in audited[sess[Chat]] \cup unwritten
       ELSE /\ RequiresLlm(k) /\ k \in completed[sess[Chat]] \ audited[sess[Chat]]
            /\ SummaryFile(look[Chat].summary, k) \in summaries

\* A receipt of result r in session s is explained.
Explained(s, r) ==
  \/ Result(s, r) \in unwritten
  \/ \E j \in journal :
       /\ j.session = s /\ j.kind \in {"micro_compact", "emergency_compact"}
       /\ r \in j.ids

\* Of a conversation, every result that is a receipt for good.
ReceiptsExplained(s, c) == \A r \in 1..c.results : r \in c.raw \/ Explained(s, r)

(* Whatever is a receipt in a state of a conversation is explained, and so *)
(* is what a projection replaced, from the moment its key is known or the  *)
(* thread has left the projection.                                         *)
ReceiptsNamed ==
  /\ \A s \in Sessions :
       /\ conv[s] # None => ReceiptsExplained(s, conv[s])
       /\ \A ids \in mgr[s].keys : MicroEntry(s, ids) \in journal
  /\ \A t \in Threads :
       /\ pc[t] \notin Idle => ReceiptsExplained(sess[t], st[t])
       /\ pc[t] = "remember" => MicroEntry(sess[t], CompactedIds(st[t])) \in journal
  /\ pc[Chat] \in {"working", "evaluate", "summarize", "audit", "call", "compact"} =>
       \A r \in CompactedIds(st[Chat]) : Explained(sess[Chat], r)

(* How runs, sessions, keys and receipts stand, for the three above.       *)
ContextInv ==
  /\ ChatTypeOK
  /\ PlacesAgree
  /\ ReplacedOnlyByRace
  /\ KeysCompleted
  /\ KeysAudited
  /\ ReceiptsNamed
=============================================================================
