# DutyFlow in TLA+

DutyFlow is a single-process agent for Feishu: it listens to a chat, lets a
language model work on what arrives, runs background tasks, asks its owner for
approvals with cards, and watches chats and documents on its own. Every
component keeps its state in Markdown files under `data/` and in memory, runs
in threads of one process, and takes almost no locks around the files. The
specifications here are about what that combination can do: threads that read
a file and write it back later, events that arrive twice, services that stop
and start, and a process that dies between two writes.

Source paths in this file are relative to `src/dutyflow/`.

## 1. Inventory

### Tasks: store, worker, scheduler

| | |
|---|---|
| Code | `tasks/task_state.py`, `tasks/background_task_intake.py`, `agent/background_task_worker.py`, `tasks/task_scheduler.py`, `agent/background_subagent_executor.py` |
| State | one file per task (status, approval fields, resume point); the worker's queue, its map `_queued_by_task_id`, stop event and thread; the scheduler's list of due tasks |
| Operations | create, `update_task` (read, replace, write all), `enqueue_task`, the ready scan, `_process_work_item` with its except branch, `start` / `stop`, `run_once` of the scheduler |
| Talks to | the agent creates tasks by tools; scheduler and ready scan feed one queue; the subagent that runs a task may itself ask for an approval |
| Hard | `update_task` is a blind read-modify-write by four kinds of threads; the same task enters the queue from two sides; stop leaves a sentinel; the except branch can raise |
| Correct means | a task is run once per release, never two at a time; what is queued is known to the map; released tasks are run; tasks end with a result |

### Approvals and scope approvals

| | |
|---|---|
| Code | `approval/*.py`, `feishu/scope_approval.py` |
| State | `pending/` and `completed/` records, interrupt records, the approval fields of a task, the enabled scopes |
| Operations | `create_request`, `request_enable_scope`, `resume_after_decision`, `resolve_approval`, the card's post-approval action |
| Talks to | the task store (a request suspends a task, a decision moves it on), the Feishu card listener, agent tools, the CLI |
| Hard | one decision is five file accesses in three stores; several approvals of one task; several deciders; a crash between any two writes |
| Correct means | a decision is final and releases its task once, and what an approval releases stays released; a scope is enabled only with an approved record on disk; a waiting task waits |

### Feishu ingress and runtime service

| | |
|---|---|
| Code | `feishu/client.py`, `feishu/events.py`, `feishu/runtime.py`, `perception/store.py`, `agent/runtime_service.py` |
| State | event and perception records, the two sets of seen ids, the OAuth flag and threads; queue, stop event and worker thread of the runtime service |
| Operations | deliver, detect a duplicate, write the event record, create a perception, hand over, remember, acknowledge; `enqueue_perception`, the worker loop, `start` / `stop`; rebuilding the sets at start |
| Hard | Feishu delivers at least once, one message may come as two events, a handler may raise half way, the queue is in memory only |
| Correct means | a message is taken in at most once, in order, and is answered; what is acknowledged was taken in |

### OAuth and user tokens

| | |
|---|---|
| Code | `feishu/oauth.py`, `feishu/user_token_provider.py`, `feishu/user_request.py`, `config/env.py` |
| State | the tokens and the binding in `.env`, a copy of them in each `EnvConfig`, `_REFRESH_LOCK`, and what Feishu still accepts |
| Operations | code exchange, refresh, `save_env_values` (read, change, write all), `/bind`, load at start |
| Hard | a refresh token is good for one refresh; each service has its own copy; the lock covers refreshes but not the other writers of `.env` |
| Correct means | refreshes exclude each other; a restart finds a token that works and the binding; requests end; the owner is not asked to authorise again for nothing |

### Scope registry and proactive perception

| | |
|---|---|
| Code | `feishu/scope_registry.py`, `feishu/proactive_service.py`, `feishu/ambient_analysis_intake.py`, `feishu/ambient_context.py`, `feishu/collectors/` |
| State | one record per scope (absent, candidate, approved, enabled, disabled, permission_denied; when its approval was last requested); the times of the last discovery, requests and collection, in memory; the recorded messages; the watermark of the intake, a file |
| Operations | a tick: discover groups, request approvals of candidates, collect a window of messages, hand new records to the runtime service; the card's approval; at the console approve, disable, `/feishu request`, `/feishu discover groups` and `/feishu gm`, which collects in a window the owner types |
| Talks to | the approval flow (a request), the runtime service (a packet), the owner's threads through the registry |
| Hard | each registry operation is a read and a later write of the whole record by one of three threads; discovery and collection exist twice, in the ticker and at the console; windows, budgets, packet limits and a watermark in seconds; a crash between the queue and the watermark |
| Correct means | nothing is recorded before the owner's yes; the ticker does not ask again within a day; a message is handed over, and once; what is disabled stays disabled |

### Agent loop and recovery

| | |
|---|---|
| Code | `agent/core_loop.py`, `agent/state.py`, `agent/recovery.py`, `agent/runtime_loop.py` |
| State | the conversation: messages, pending tool calls, `turn_count` and its ceiling, recovery scopes; the counters of one run; the session the caller keeps between runs |
| Operations | prepare or continue a state, call the model, continue after `max_tokens`, execute tool calls, append their results, retry after a transport error, compact after an overflow, return or raise |
| Talks to | the tool executor, the context manager, the chat session or the runtime service, which keep the state of a run that returned and nothing of one that raised |
| Hard | three counters for one bound; calls that get no result and stay pending for the rest of the conversation; exceptions that leave the loop |
| Correct means | runs end; a truncated call is never executed; executed tools keep their results; recovery scopes are settled; a result is shown before it becomes a receipt |

### Tool executor and permissions

| | |
|---|---|
| Code | `agent/tools/executor.py`, `router.py`, `registry.py`, `types.py`, `agent/permissions.py`, the contracts |
| State | the routes of a turn and their results, one `agent_state` in the context, its lock, the threads of a batch and of each attempt |
| Operations | partition into batches, validate, decide a permission, ask, attempt with a timeout, retry with a pause, record recovery events |
| Hard | threads that outlive their timeout; a shared state replaced by changed copies |
| Correct means | a final result for every call and a return; exclusive tools run alone; sensitive ones only approved; no more attempts than declared; no recovery scope lost |

### CLI sessions

| | |
|---|---|
| Code | `agent/cli_session.py`, `agent/tools/logic/cli_tools/` |
| State | the registry, a lock for it and one per session, one `bash` per session with its output |
| Operations | open (start, wait until ready, register), exec (write, collect, time out), close |
| Hard | the executor abandons a handler that still holds a session; close does not take the lock of the session; two timeouts; a command that ends in `&` returns while its job goes on writing |
| Correct means | a command reads its own output, or what background jobs of returned commands of its session write; no running shell that nobody can close, other than one the executor gave up; what is reported as closed or expired has ended; calls return |

### Chat sessions and context management

| | |
|---|---|
| Code | `agent/debug_chat_service.py`, `context/runtime_context.py`, `phase_summary.py`, `compression_journal.py`, `tool_receipt.py`, `context_budget.py`, the chat and context commands of `app.py` |
| State | the one persistent session and its conversation; the working set, budget report and health check of the last projection; the dedupe keys of summaries and of journal entries; summary and journal files |
| Operations | submit a task, project, write a receipt for an old result, summarize a phase, compact in an emergency; `/context clear`, `/context compress` |
| Hard | the chat worker and the console use all of it without a lock; lookups before a model call or a write, and the key added after it |
| Correct means | one conversation; a state is summarized once for one reason; every receipt and summary is in the journal |

### Collectors

| | |
|---|---|
| Code | `feishu/collectors/*.py`, `feishu/sync_state.py`, `feishu/collector_budget.py`, `feishu/ambient_context.py` |
| State | a sync state per chat or folder (cursor, next page), a run with its page and its budget, the records |
| Operations | request a page, write its items, save success or failure, resume; the tick and the console commands do the same at the same time |
| Hard | budgets cut pages; a failure writes back the cursors it read; exceptions and restarts between records and sync state |
| Correct means | what lies before the place of resumption, or behind the cursor, is recorded; every document is in the end |

### Requests in the owner's name

| | |
|---|---|
| Code | `feishu/user_client.py`, `user_request.py`, `user_token_provider.py`, `user_resource.py`, the Feishu tools, `group_candidate_discovery.py` |
| State | a request with its token and its retries, the three token fields of a config, `_REFRESH_LOCK` |
| Operations | get a token, send, retry, refresh after a rejection, read pages, the chains of requests of the tools |
| Hard | two threads share a config whose fields are assigned one by one; tokens die at any moment; a refresh fails in five ways |
| Correct means | a rejected token is not sent again; refreshes happen when due and one at a time; a config never presents a refresh token twice |

### Components without a module

| Component | Why |
|---|---|
| Evidence and context references (`context/evidence_store.py`, `context_ref_reader.py`, `work_context_index.py`) | files written once and lookups |
| Summary tasks (`feishu/summary_task_intake.py`) | see section 5 |
| Control-state snapshot, storage, knowledge and identity | derived summaries, file formats, lookups. That an access may raise is in the models where it matters |
| Transport, shell, tool contracts | sockets, the console and schemas; what the others need of them is in their modules |

`PROJECT.json` lists all of them with their status, and under `hazards` the
places in the code that are hard to test.

## 2. Modules

```
TaskStore --- BackgroundWorker --- TaskScheduler --\
     \------- ApprovalFlow -------------------------+-- TaskLifecycle   implements ExecutionGate
                                                          |
                   TaskLifecycleInv ----------------------/
                     |-- MCTaskLifecycle
                     \-- ApprovalEffect -- TaskLifecycleProofs
RuntimeService -- FeishuIngress                             implements Inbox
                     |-- MCFeishuIngress
                     \-- FeishuIngressProofs
UserTokens -- UserTokensProofs
UserRequests --\
Collectors   --- CollectionProofs
ScopeRegistry -- ProactiveService
                     |-- MCProactiveService
                     \-- ProactiveProofs
ToolExecutor                                                implements ToolTurn
     |-- MCToolExecutor
     \-- ToolExecutorProofs
AgentLoop   --\
ChatContext --- ConversationProofs
CliSessions -- CliSessionsProofs
```

| Module | Models | State and steps against the code |
|---|---|---|
| `TaskStore` | `TaskStore`, `BackgroundTaskIntake` | `tasks` are the files. `update_task` is `BeginUpdate` (it has read and computed the record, kept in `upd[thread]`) and a commit (it writes all of it). `released` is a history variable: tasks that were made runnable and not run since. Texts, capabilities and profiles are left out |
| `BackgroundWorker` | `BackgroundTaskWorker` | `queue`, `queuedBy`, `stopEvent` are the attributes; `wpc` is the place of the thread between two accesses to a file or the queue; `ctl` is the place of a caller of `stop()`. `ProcessRaises` and `FailRaises` are an exception inside and outside the try block |
| `TaskScheduler` | `TaskSchedulerService` | `due` is the snapshot `run_once` works through; the clock is one step per task |
| `ApprovalFlow` | `ApprovalFlow`, `TaskInterruptStore`, the request and resume intakes, the card service, `FeishuScopeApprovalService` | a requester and a decider are threads inside these services; each file access is a step, with the record read before it |
| `TaskLifecycle` | all of the above in one process | `Next` interleaves them; `CrashAndRestart` keeps the files and forgets the rest, as `_bootstrap_background_services` does |
| `ApprovalEffect` | what a decision leaves on disk | a history variable `effect` over the steps of `TaskLifecycle`, which it does not restrict: the release of an approval `stands` from the decider's write on, becomes a `run` when the worker has written `running`, and is `contended` when somebody who had the task in hands may write over it |
| `ExecutionGate` | abstract: release, start, end | what the task subsystem promises of execution |
| `RuntimeService` | `RuntimeService` | queue, sentinel, stop event and thread; the handler is one step that ends in any way |
| `FeishuIngress` | `FeishuIngressService` on the listener thread | `lpc` is the place in `handle_raw_event`; `Deliver` may repeat any event at any time; `HandlerRaises` at every step that may raise; `CrashAndRestart` rebuilds the sets from the records, as `_load_dedup_state` does |
| `Inbox` | abstract: take in, answer in order, crash | what the ingress and the runtime service promise together |
| `UserTokens` | `FeishuOAuthManager`, `FeishuUserTokenProvider`, `save_env_values` | `env` is the file, `cfg[c]` a caller's copy, `accepted` what Feishu takes (modelled from the use, external), `buf` what a writer of `.env` has read |
| `ScopeRegistry` | `FeishuScopeRegistry` and the owner's threads | `scopes` are the records; `chg[thread]` is a record read and changed and not yet written; `job` is what the card action or the console command does next: approve, then enable, are two operations; `loop` is a command of the console that goes over scopes, `/feishu discover groups` or `/feishu gm`. `/feishu request` sends a card and marks nothing. The card itself is a click that comes or not; the decision behind it is in `ApprovalFlow` |
| `ProactiveService` | `FeishuProactiveService`, group discovery and collector, `scan_records`, the intake | `tpc` is the part of the tick, `todo` and `listed` what its loop goes through; `BeginTick`, `EndDiscovery`, ... skip what is not due, as `_execute_tick` does; `Collect` is one scope of either collection, the ticker's or the console's, and `Beginnings` what a window yields after budget and failing pages; `unmarked` are the scopes whose last request left no mark or lost it, `late` the records that came behind the watermark, `byHand` that the console has collected; `New` and `Before` are the filter and the order of the scan. `now` are seconds, `Post` is Feishu |
| `ToolTurn` | abstract: one turn of tool calls | each call gets one final result; the turn returns when all have theirs |
| `ToolExecutor` | `ToolExecutor`, `PermissionGate`, `RecoveryManager`, the routes and declarations | `pc[c]` is the place of the thread of call `c`; `live[c]` counts the handlers it has running, those it gave up included; `state` is `context.agent_state`, `copy[c]` what a thread has read of it under `lock`. `MCToolExecutor` has one declaration of each kind the contracts make |
| `AgentLoop` | `AgentLoop.run_until_stop`, the functions of `agent/state.py`, `RuntimeAgentLoop`, `ChatDebugSession.run_turn` | `state` is the `AgentState`, `session` what the caller keeps, `local`, `attempts`, `compacts` the counters of a run. `ModelAnswers` in its kinds and the two failures are the provider; executing calls is one step, which `ToolExecutor` opens up |
| `CliSessions` | `CliSessionManager` under the executor | a handler is one call of a CLI tool, `pc[h]` its place, and the session it opens is named after it; `ToolTimeout` abandons it; `ShellRuns` and `ShellExits` are the shell; `jobs` are the background jobs commands have left in it, `stray` whose output the pipes hold beside that of the command, and `JobWrites` puts it there at any time |
| `ChatContext` | `ChatDebugService`, the context commands, `RuntimeContextManager`, `PhaseSummaryService`, the journal | `pc[thread]` for the chat worker and the console, `look[thread]` what it has computed; `conv` the conversations, `mgr` what the last projection left; the keys are the sets the code keeps |
| `Collectors` | the message and document collectors, the budget, the sync state | `run[thread]` is one collection, a step is a page requested, written, or a state read or saved |
| `UserRequests` | the request client, the token provider and their callers | `req[t]` is a request, `cfg` the fields of each config, assigned and read one by one; `Respond` is Feishu; `UpsertEnv` keeps what `.env` has when the new value is blank. `/oauth`, `/bind`, crashes and the overlapping writes of `.env` are in `UserTokens`, and here `.env` is written in one step |
| `*Proofs`, `TaskLifecycleInv` | - | invariants and proofs |
| `MC*` | - | instances for TLC |

An action is the piece of a handler between two accesses to shared state. Where
a handler reads and later writes, the interleaving in between is in the model.
Definitions named as mutants in their comment are variants of a definition with
a plausible mistake in it; no specification uses them.

## 3. What is checked

All runs explore their whole state space. Bounds are constants in the `.cfg`
files: the sets of tasks, approvals, events and threads, and counters named
`Max...` for stops, crashes, exceptions, tokens, turns and instants.

| Run | Instance | What it shows |
|---|---|---|
| `worker` | one asynchronous task and a scheduled one, one stop, one crash, exceptions everywhere; fair | `HeldOnce`: never two work items of a task, and the map agrees with queue and thread (that it holds nothing else is its clause for executions without exceptions, which this run has none of: section 4 proves it); `GateSpec`: the system implements `ExecutionGate`; `ReleasedRuns`: a released task is run, also after a crash; `TasksFinish`: without a crash every task ends with a result, although the scheduler and the scan both enqueue it. The two excuse a worker that has ended and a task whose entry in the map was left behind by a failed failure record; their premise is that exceptions come to an end. Two tasks are the least at which one runs and one is due; one stop is enough for a stale sentinel |
| `approvals` | one scheduled task, two approvals, one requester, one decider, one crash | `ReleaseHasCause`: a task is released only by its hour or an approved decision on disk; `DecisionFinal`: a closed decision never changes, and without crashes and exceptions none does once it is written; `ApprovalStands`: an approved decision whose decider is done released its task (as long as nothing crashed), and from then on the file says `queued` until the worker starts a run, whatever stale records scheduler and worker hold, what is left on the queue, and across the crash. Its exceptions are in the `contended` of `ApprovalEffect`: the worker was in a run of that very task and writes the outcome over it, or another request or decision was rewriting it or takes it up afterwards. Two approvals are the least at which a late decision meets a newer request |
| `scope` | one scope task, two approvals, a crash, exceptions in the services | `IndInv`, the invariant of the proofs; `OneGrantPerApproval`; `ScopeNeedsApproval`: a scope that is enabled has an approved decision that no later one replaced. The two approvals are symmetric |
| `ingress` | two events of one message, an `/oauth`, a card, an unsupported event, any number of deliveries; one stop, one exception, one crash; fair | `IngressInv`; `AckedIsTaken`: without a crash a message that was acknowledged, or whose ids are among the seen ones, was queued or refused by a stopped runtime; `InboxImplemented`; `ChatsAreAnswered` |
| `tokens` | a tool call, the proactive service, `/oauth` and `/bind`; three tokens, one crash; fair | `RestartFindsAll`: unless two writes of `.env` overlapped or a token was lost before it was stored, `.env` has a token Feishu accepts and a confirmed binding; `RequestsEnd`. Three tokens are one authorisation and two refreshes |
| `requests` | two walkers over pages with one shared config, one tool with its own; two pages, one retry, four grants, two tokens that age or die, one fault | `RequestsInv`: refreshes exclude each other, and what Feishu rejected is not sent again, although the fields of a config are read while another thread assigns them; `RefreshIsDue`: threads that see the same expiry refresh once, and never with a refresh token their config has exchanged for another. In `RequestsInv` an exchanged refresh token leaves config and `.env` for good, except the one an answer without tokens leaves in `.env`. Two walkers are the least that share; two changes let a token die after its successor was issued |
| `proactive` | one group, two messages, two commands of the owner (card, approve, disable, request, discover, gm over all there is, whose budget cuts it to the oldest messages), three instants, messages posted in the first two, budgets of one, one failure (an exception or a crash) | `ProactiveInv`, the invariant of the proofs; `ConsentFirst`: nothing is recorded before the owner's yes; `CooldownKept`: the ticker asks again after the cooldown only, unless the mark of the last request was lost, overwritten by the console or never made by it; `AnalysedOnce`: handed over once, and once more per crash; `NothingOvertaken`: the watermark passes nothing by, save what shares a second with a message that was handed over and, after a restart or a `/feishu gm`, what was recorded behind it. Three instants are the least at which a window, a later one and the cooldown differ; a budget of one makes every cut happen with two messages. Several groups differ only in the order of the loops, and section 4 has any number of them |
| `collect` | a folder of three documents, a chat of two messages, two items a page, two pages and two items a run, one fault (failed request, exception or restart), three instants; fair | `CollectInv`, the invariant of the proofs: what is in front of the place where a collection resumes, and what is older than the cursor of its window, is recorded, except behind a page of documents cut at the budget, and every collection under way covers its part of the rest; `DocumentsRecorded`: every other document is, in the end. Three documents are two pages, of which the budget ends the first run |
| `tools` | three calls of every combination of four declarations, two threads, all permission modes; fair | `ExecutorInv`: batches do not overlap, sensitive tools run only approved, no thread overwrites the recovery scope of another, no question is left open; `RetriesAsDeclared`; `CountersAgree`; `TurnSpec`: the executor implements `ToolTurn`; `TurnReturns`. Three calls are the least with a concurrent batch and a neighbour, two threads the least that race |
| `loop` | two user messages on one conversation, two call ids, two turns, two attempts, one compaction; fair | `LoopInv`: pending calls have a cause, truncated calls never run, results are seen before they are receipts unless a compaction or a failed run came first, recovery scopes are settled and bounded, `increment_turn` raises only after truncated answers; `ResultsKept`: the caller loses results of executed tools by such an exception only; `RunEnds`. Two runs are the least at which a conversation continues with what the first left pending |
| `cli` | four calls of the CLI tools in the order of their numbers, each of which may be abandoned; fair | `SessionsInv`: a shell has one command at a time, the one whose handler holds its lock; what else its handler reads was written by jobs that returned commands of the same session left in the background; a running shell is registered or about to be closed, only an abandoned open leaves a session nobody knows, what was reported as ended has ended; `TimeoutHiddenByClose`: an expired command is reported as such unless the session was closed under it; `CallReturns`. Open, two commands and a close is the shortest conflict of all three operations |
| `context` | two chat tasks with two tool results, one console command at any moment, one failed call or write, requests over the soft, the hard and the model's limit | `ContextInv`, the invariant of the proofs: a conversation is replaced only when both threads create the session at once, keys are completed before they are audited, and every receipt is explained; `SummarizedOnce`; `ReceiptsJournaled`; `SummariesJournaled`. Token counts are small numbers that reach each threshold in two tasks |

Deadlock is not an error where the system may stop: in `proactive` an exception in
the intake ends the ticker thread for good (`feishu/proactive_service.py:298`), and
in `tools`, `loop`, `cli`, `context`, `collect` and `requests` the calls, tasks or
pages of the instance come to an end.

`worker`, `approvals` and `scope` exclude one another's dimensions to stay
small: a run with every dimension at once is beyond what is checked in minutes.
The proofs of section 4 have no bounds and cover the combinations. With two
asynchronous tasks, and in `context` with two commands, the same properties held in
longer runs.

### Divergences from the documents

Where a document or a comment says more than the code does, the properties above
state what the code does, and name the exception. The models have the steps of
the following; each was met as a counterexample to the stronger property.

- README.md:190 says that a task waiting for approval is suspended: the worker
  writes the outcome of a run over a `waiting_approval` that was written during
  that run (`agent/background_task_worker.py:267`), and over the `queued` of a decision
  that approved the task during it, which then has no effect;
- `feishu/runtime.py:230` answers a duplicate with "event_id already processed":
  after a crash between record and queue, nobody has processed it;
- README.md:114 says that tokens are refreshed silently: a service whose config is
  older than the last refresh presents a refresh token that was replaced, and its
  user is told to authorise again (`feishu/user_token_provider.py:93`);
- `feishu/scope_registry.py:119` says that discovery never enables a disabled scope
  again: `upsert_candidate` writes back what it read before the owner disabled it;
- README.md:202 says that new records go to the analysis queue on every tick:
  records of the second at which a packet was cut lie behind the watermark and are
  never sent (`feishu/ambient_context.py:524`);
- the task of a scope approval is created as `queued`, so the ready scan may run
  it before the request is complete (`feishu/scope_approval.py:122` says it waits
  for the user's confirmation);
- recording the failure of a task may raise, out of the worker thread, and the
  task stays in the map for ever (`agent/background_task_worker.py:299` says the
  failure is recorded and the worker goes on);
- two threads that decide one approval both pass the check, and the later write
  replaces the earlier decision (`approval/approval_flow.py:136`);
- the service the application builds has no feedback gateway, so its requests for
  approval send no card (`app.py:946` against README.md:120);
- the private-chat collector has no `collect_enabled_scopes`, which the tick calls
  (`feishu/proactive_service.py:267`);
- `mark_success` of the collector and `upsert_candidate` may undo an approval or
  a disabling of the owner (`feishu/scope_registry.py:156`);
- a crash between `approve_scope` and `enable_scope` leaves a scope `approved`,
  which no operation of the service takes up again (`feishu/scope_approval.py:218`);
- a window reaches back one interval while the loop wakes up later than that, so
  messages between two windows are never collected
  (`feishu/proactive_service.py:264`);
- `/feishu gm` collects in any window its user types (`app.py:322`): what it records
  behind the watermark of the intake is never handed over;
- `/feishu request` leaves no mark of its request (`app.py:385`), and `/feishu discover
  groups` may write back a record it read before the ticker marked it (`app.py:404`):
  the ticker then asks again within the cooldown, although `feishu/scope_registry.py:368`
  says that merging keeps what the user and the run set;
- a command that ends in `&` puts its markers out at once and writes on
  (`agent/cli_session.py:216`): the next command of the session returns that output as
  its own, and commands that only read are not asked for (`agent/permissions.py:203`
  does not split at `&`);
- a second work item of a completed task (scheduler and scan both enqueued it)
  overwrites `completed` with `failed`, because the claim raises inside the try
  block (`agent/background_task_worker.py:251`);
- an approved scope task is back on the queue before the card's action marks it
  completed, so the worker may run it first (`feishu/scope_approval.py:220`);
- a crash between `completed/` and the deletion in `pending/` leaves both, and
  the approval can be decided again (`approval/approval_flow.py:160`);
- a crash after `resolve_approval` leaves a decided approval whose task waits
  for ever; a task that was `running` at a crash stays so;
- the OAuth flag stays set when `Thread.start` raises (`feishu/runtime.py:417`);
- overlapping writers of `.env` lose a binding or restore an old token
  (`config/env.py:180`), which `RestartFindsAll` excludes by name (`overlap`);
- the result of `/oauth` reaches the ingress service's config but not the one
  the proactive service was built with (`feishu/runtime.py:458`);
- `app.py:735` says that a chat task reuses the session: when the console and the
  first task create it at once, the later one replaces the other and its conversation;
- a `/context clear` between the two reads of `latest_health_check`
  (`context/runtime_context.py:258`) raises, and costs the chat a retry; a compress
  takes budget and delta from the other thread's projection and is not journaled;
- the results of tools whose turn hits the ceiling are lost with the exception of
  `increment_turn` (`agent/core_loop.py:238`); scopes of a run that fails stay
  active or scheduled; `context_compaction_failed` cannot occur, because the health
  check of a compaction cannot fail;
- a command that expires while its session is closed is reported as
  `unknown_session` (`agent/cli_session.py:118`); an open that the executor gave up
  leaves a shell nobody can close; `close_all_sessions` has no caller; the
  `timeout_seconds` a model asks for may be longer than that of the tool;
- the rest of a page of documents cut at the item budget is skipped until the
  listing starts over (`feishu/collectors/user_document_collector.py:266`); a resume
  token Feishu rejects is never dropped; the message collectors save a page token
  no code resumes from, and a console command with an old window moves their
  cursor back; of an edited document `read_by_record_id` finds the oldest file;
- the same config refreshed by two threads after a rejection is refreshed twice
  (`force_refresh` always refreshes), and a reader may see the new token with the
  old expiry; `feishu/user_resource.py:83` says that no method raises, but `httpx`
  errors of a refresh pass every handler; a refresh that succeeds without tokens
  empties the fields of the config (`feishu/oauth.py:170`), while `.env` drops blank
  values (`config/env.py:230`) and keeps a refresh token that may have been spent.

### Fairness

- `TaskLifecycle!Fairness`: the two threads are loops with a timeout on every
  wait, so they are weakly fair; the ready scan is due again every second, which
  makes `StartScan` strongly fair although a step in between disables it; the
  clock goes on. Nothing is assumed of users: neither requests nor decisions are
  fair, and so no liveness is claimed of approvals.
- `FeishuIngress!Fairness`: listener and runtime thread are weakly fair, the
  OAuth callback server has a timeout, and Feishu delivers an event until it is
  acknowledged (strong, because the listener is busy now and then). `start()` is
  not fair, so `ChatsAreAnswered` excludes executions with a stop.
- `UserTokens!FairSpec`: a request goes on (HTTP calls have timeouts), and a
  thread is not passed over at the lock for ever (strong). Python's lock does not
  promise it on paper; with finitely many refreshes in a run it comes to a thread
  that waits being woken.
- `AgentLoop!FairSpec`: the model client answers or raises, by its timeout at the
  latest; nobody is obliged to send a message. `ToolExecutor!FairSpec`: the threads
  go on and the user answers a prompt (the code waits without a timeout); a handler
  need not return, then its timeout expires. `CliSessions!FairSpec`: the handlers
  go on, as every wait of theirs has a deadline; the shells may hang.
- `Collectors!CollectorsFairSpec`: only the tick is fair, which comes again and again;
  the console is not.

`ProactiveService`, `ChatContext` and `UserRequests` are checked for safety only.
A request of the last has a bounded number of steps (`RequestsOnlyAdvance`, section
4); that a thread gets the lock is checked in `tokens`. The documents of the first promise nothing that
must happen: a tick may be refused, fail or find no client at any time. No
exception step is fair: failures may happen and need not.

## 4. What is proved

TLAPS checks the following for all values of the constants, that is, any number
of tasks, threads, approvals, events, messages, documents, tool calls, results,
sessions, runs of the loop, tokens, failures, crashes and stops. A module of proofs
covers one component, or two that have little to do with each other but names that
do not clash; `Spec` is then that of the first, and the second has a prefix.

| Theorem | Statement |
|---|---|
| `TaskLifecycleProofs!Invariance`, `TypeCorrect` | `Spec => []IndInv`, `Spec => []TypeOK` |
| `TaskLifecycleProofs!Refinement` | `Spec => GateSpec` |
| `TaskLifecycleProofs!OneWorkItem` | `Spec => []HeldOnce` |
| `TaskLifecycleProofs!DecisionInvariance` | `Spec /\ []DecidedApart => []DecidedInv` |
| `TaskLifecycleProofs!GrantedOnce` | `Spec /\ []DecidedApart => []OneGrantPerApproval` |
| `TaskLifecycleProofs!EnabledByApproval` | `Spec /\ []DecidedApart => []ScopeNeedsApproval` |
| `TaskLifecycleProofs!ApprovalsTakeEffect` | `EffectSpec /\ []DecidedApart => []ApprovalStands` |
| `TaskLifecycleProofs!DecisionsAreFinal` | `Spec /\ []DecidedApart => DecisionFinal` |
| `TaskLifecycleProofs!ReleasesHaveCause` | `Spec /\ []DecidedApart => ReleaseHasCause` |
| `TaskLifecycleProofs!OneDeciderSuffices` | `Spec => []DecidedApart`, if there is one decider |
| `FeishuIngressProofs!IngressInvariance` | `Spec => []IngressInv` |
| `FeishuIngressProofs!RecordBeforeWork` | `Spec => []WorkHasRecord` |
| `FeishuIngressProofs!AcknowledgedIsTaken` | `Spec => []AckedIsTaken` |
| `FeishuIngressProofs!InboxRefinement` | `Spec => InboxImplemented` |
| `UserTokensProofs!RefreshExclusion` | `Spec => []RefreshesExclude` |
| `UserTokensProofs!RestartSafe` | `Spec => []RestartFindsAll` |
| `ProactiveProofs!ProactiveInvariant` | `Spec => []ProactiveInv` |
| `ProactiveProofs!ConsentBeforeCollection` | `Spec => []ConsentFirst` |
| `ProactiveProofs!RequestsRespectCooldown` | `Spec => CooldownKept` |
| `ProactiveProofs!AtMostOncePerStart` | `Spec => []AnalysedOnce` |
| `ProactiveProofs!WatermarkPassesNothing` | `Spec => []NothingOvertaken` |
| `CollectionProofs!RequestsCorrect` | `Spec => []RequestsInv` |
| `CollectionProofs!RefreshesAreDue` | `Spec => []RefreshIsDue` |
| `CollectionProofs!RequestsOnlyAdvance` | `Spec => RequestsAdvance` |
| `CollectionProofs!CollectionsCover` | `CollectorsSpec => []CollectInv` |
| `CollectionProofs!CollectionsOnlyAdvance` | `CollectorsSpec => CollectionsAdvance` |
| `ToolExecutorProofs!ExecutorCorrect` | `Spec => []ExecutorInv` |
| `ToolExecutorProofs!RetriesBounded` | `Spec => []RetriesAsDeclared` |
| `ToolExecutorProofs!CountersRight` | `Spec => []CountersAgree` |
| `ToolExecutorProofs!CallsOnlyAdvance` | `Spec => CallsAdvance` |
| `ToolExecutorProofs!ImplementsTurn` | `Spec => TurnSpec` |
| `ConversationProofs!LoopCorrect` | `Spec => []LoopInv` |
| `ConversationProofs!ResultsSurvive` | `Spec => ResultsKept` |
| `ConversationProofs!RunsOnlyAdvance` | `Spec => RunsAdvance` |
| `ConversationProofs!ChatContextCorrect` | `ChatSpec => []ContextInv` |
| `ConversationProofs!SummariesOnce` | `ChatSpec => []SummarizedOnce` |
| `ConversationProofs!ReceiptsInJournal` | `ChatSpec => []ReceiptsJournaled` |
| `ConversationProofs!SummariesInJournal` | `ChatSpec => []SummariesJournaled` |
| `CliSessionsProofs!SessionsCorrect` | `Spec => []SessionsInv` |
| `CliSessionsProofs!TimeoutReported` | `Spec => TimeoutHiddenByClose` |

**Assumptions.** Those on the constants, which TLC evaluates in every run:
identifiers of different kinds differ (`TaskStoreAssumption`, `NoneAssumption`,
`WorkerAssumption`, `RuntimeAssumption`, `IngressAssumption`, `TokensAssumption`,
`NoEnvAssumption`, `RegistryAssumption`, `HandlersAssumption`, `NoResultAssumption`,
`RequestsAssumption`), ids that the code sorts by, calls that are numbered in their order and intervals are
natural numbers (`ProactiveAssumption`, `OrderAssumption`), bounds are natural numbers (`LoopAssumption`, ...), switches
are Boolean (`ApprovalFlowAssumption`), and the mark for an absent value is no number
(`ContextAssumption`, `NoneAssumption`). `IngressAssumption`
also has that a message id is not an event id, on which the naming of the records
relies, and that the events of one message are of one kind, since the kind is read
from the message's text. `ExecutorAssumption` has that tools declared safe for
concurrency are read-only and need no approval, as every tool in
`agent/tools/logic` declares; nothing in the code enforces it.

The theorems on decisions have one hypothesis about behaviour: `[]DecidedApart`,
no two threads decide one approval at the same time. Nothing in the code prevents
it: the card listener and the agent's tool `resume_after_approval` call the same
function without a lock, and then the properties are false (section 3). It is a
hypothesis and not part of the specification so that everything else is proved
without it. `OneDeciderSuffices` shows that it holds whenever one thread decides,
which is the case of cards alone; it also holds when many decide different
approvals.

**Tasks.** That a run needs a release is not inductive: the worker may write
`running` only because it read `queued`, several steps and many blind writes of
other threads ago. `IndInv` says what makes it true: what each thread holds in
each phase (`WorkerInv`, `SchedulerInv`, `RequestInv`, `DecisionInv`), and that
every file with status `queued`, and every task between its claim and its start,
has a release (`ReleaseInv`). Every write of another thread either is a release
itself or does not write `queued`; the one exception is the worker's feedback,
which rewrites the record it read, and is covered by a conjunct of its own. The
refinement follows: each step is a release, a start, an end, or a stutter of
`ExecutionGate`. `HeldOnce` has an induction of its own over queue, map and
item, with lemmas on `Append` and `Tail`.

**Decisions.** `DecidedInv` adds to `IndInv` what the records, the grants (a history
variable: how often an approval released its task) and the phases of the deciders
say of each other. `RecordInv`: an approval exists in `pending/` or `completed/` from
its first write on, and has one requester. `OpenInv`: an open approval has released
nothing, which is why a decision that is taken again after a crash cannot release
twice. `PhaseOf` is what a decider has brought about where it stands: until the
deletion its approval is open, after it the record on disk has its decision, and
nobody else changes that, because whoever starts to decide finds the approval open.
`AppliedInv` counts the grants while nothing crashed, `HourInv` covers the scheduler.
The proof has one lemma for the steps that touch no decision, one for requests, and
one per phase of a decider; `DecisionLocal` reduces these to the approval at hand.

**Effect of an approval.** A grant counts what the decider wrote, and says nothing of
who writes next. `ApprovalEffect` therefore follows each release on disk. `Standing`,
the core of `EffectInv`, is that a task whose release stands says `queued`, that no
request or decision has read it to write it, and that the worker is not in a run of it:
what is left is the scheduler, whose stale record says `queued` as well
(`SchedulerQueues`), and the worker on its way to the run or writing the feedback of an
earlier one, which rewrites a record that was `queued` when it was read. A service that
reads the task ends the stand by definition, and so does the start of the run; no other
step touches it, a crash included.

**Ingress.** `DedupInv` links memory and disk: a key that was ever queued has a
perception and an event record that names it, and is in the sets of seen ids, or
its event is about to put it there; while an event is between detection and
hand-over its key was not queued. The restart step uses the records, all others
the sets. The refinement maps the queue with the item in work to the line of
`Inbox`. `AckedIsTaken` is inductive with the sets of seen ids in it, since a
duplicate is acknowledged because of them, and with `HandledBeforeAck`: a chat event
comes to its acknowledgement by way of the hand-over only.

**Tokens.** `TokensInv` is what holds while no writes overlap and no token was
lost: a token is accepted by Feishu as long as it is the one in `.env` or on its
way there (`FreshTokens`), and a writer that has read `.env` holds a copy of what
it holds now (`CopiesFresh`). The theorem about `.env` needs both, since a writer
of `/bind` writes the token back, too.

**Requests.** `RequestsInv` was written to be inductive. The heart is `SpentReplaced`:
an exchanged refresh token is still in a config, or in `.env`, only while the thread
that exchanged it carries the new one there, and that thread holds the lock. A token
that was presented and answered without a new one is not exchanged: `.env` keeps it and
the config loses it, so no thread of that config presents it again; and
`RejectedPassed`, which follows a rejected token through the forced refresh. Most
steps move neither (`QuietStep`); for the others the lock leaves one carrier. That a
refresh is due is kept by the steps of other threads, because the fields it rests on
change only under the lock that the refreshing thread has.

**Scopes.** `ProactiveInv` is inductive. `ConsentInv` follows what may become
`enabled` through the record on disk, the record a thread has open and the jobs;
consent is never taken back, so no lost update can break it (one can undo a
disabling, see section 3). `MarkInv` is the reason the cooldown
survives most of three writers: outside `unmarked`, every candidate record that is on
disk, or that the ticker has open or listed, carries the mark of its last request. The
owner's approvals and disablings cannot break it, since what they write is no
candidate. The discovery of the console can: it writes back a candidate it read before
the mark. `OwnerWrites` puts the scope among the `unmarked` exactly when the record it
writes lacks the mark, and so does a request at the console, which makes none; an
exception or a crash between request and mark leaves it there. `KnownInv` adds that a
record never disappears.

**Windows and watermark.** `IntakeInv` bounds how often a message was sent by
where it stands against the watermark. `WindowInv` relates three times: the
watermark is not after the end of the last collection, and a new window begins no
earlier than that end, so a message recorded later is no older than the watermark.
`NothingOvertaken` is proved together with it: what shares the second of the
watermark has a companion that was handed over. After a restart the times of the
ticker are forgotten, and a `/feishu gm` has a window of its own, so neither holds then:
hence `crashes = 0 /\ ~byHand`. From there on `late` keeps the records that came behind
the watermark or behind a packet on its way, and what is said of the others needs no
hypothesis: they were on disk when the packet was cut, and the scan is sorted.

**Tool executor.** Five parts: who holds the lock of the state and since when its
copy is read (`LockOrder`), which calls a batch may have active (`BatchOrder`), what
a call has attempted (`AttemptOrder`), which recovery scopes its phase implies
(`ScopeOrder`, `ScopeKinds`), and the counters against the number of scopes
(`CountOrder`). The last is about cardinalities: a registration writes the counters
and the scope in two steps, in between which the counters are ahead by the calls that
stand there. That no write is lost follows from the lock: a copy that is written back
is the state as it is (`WriteFacts`). The refinement to `ToolTurn` is then short: only
a call without a result gets one.

**Agent loop.** Each action is a change of the agent state followed by one of three
ends, and each end has a lemma (`RaiseStep`, `StopStep`, `GoOnStep`); the operators on
agent states have one each. `TurnBudget` relates the turn count, the ceiling and the
counters of the run: a truncated answer takes a turn that `local_turns` does not
count, which is the only way for `increment_turn` to raise. `ResultsKept` looks at
every step for the calls that lose a result.

**Collections.** What a sync state promises depends on what the collection that wrote
it had done, so `CollectInv` has a part for each collection under way (`RunCovers`):
the documents of the folder are recorded, on its page or in front of its token
(`FolderCovers`), the messages of its window are recorded or ahead of it
(`WindowCovers`), its newest time has everything of the window behind it
(`CursorCovers`), and the sync state it read holds its promise. The last is why a
failure may write back an old state after another thread has saved a newer one: a
promise, once true, stays true (`StateLater`), because records are never removed,
tokens only lose documents to records, and no message is posted into the past. The
newest time of a page exists because times are bounded (`MaxFacts`, with a least
element of what is left up to the bound), and that a page is a beginning of the listing
makes it a cursor (`WrittenTop`), as messages are listed in the order they were posted
(`PostedInOrder`).

**Chat context.** `ContextInv` says, for each place of a thread, what it has looked up
and what others may have done since. `PlacesAgree` ties place, session and state;
`ReplacedOnlyByRace` that both threads work on one conversation, unless both were in
`create` at once. `KeysCompleted` and `KeysAudited` follow a key from the lookup
through the model call and the file to the journal: the summaries are one for one with
completed keys, although the lookup and the addition are steps apart and the console
compresses meanwhile, because its reason is part of the key and it takes no audit.
`ReceiptsNamed` orders the writes of a projection: the entry, then the key; so a
thread that finds the key skips an entry that exists. A `/context clear` in between
only forgets keys. Steps that move neither keys nor journal are treated together
(`SteadyStep`, `OrdinaryStep`), the other actions one by one.

**CLI sessions.** `NextRatchet` says what no step takes back: replies, ended shells, a
session that is being closed. With it most conjuncts survive the steps of the other
calls. `DropOrder`, `ClosedOrder` and `PipesApart` order the two ends of a session, the
expired command's and the close's, which do not take the same lock. No step of the
code is excluded: the calls the executor abandoned are in all of it. `OneCommand` is
what the session's lock gives: whoever finds a command in a running shell holds the
lock. `ForeignOutput` needs that a job belongs to a command of its own session that has
been answered or is being collected (`JobsInv`); what the jobs of
an expired or closed session write is not read any more, since its shell is terminated
with its process group.

**Progress.** Each of `RunsAdvance`, `CallsAdvance`, `RequestsAdvance` and
`CollectionsAdvance` is an action property: a step of the process in question makes a
measure of what it has left smaller (turns, compactions and attempts of a run; attempts
and phases of a tool call; pages, rounds, tries and phases of a request; pages and
places of a collection), and no step of another process makes it larger. The measures
are lexicographic, with bounds from the invariants, and so no loop of the code can go
round for ever; what they leave to fairness is that a step is taken at all. They need
no strengthening but the invariants above, and one lemma per action.

**Only model-checked.** All safety properties of the runs are proved. Liveness
(`ReleasedRuns`, `TasksFinish`, `ChatsAreAnswered`, `RequestsEnd`, `TurnReturns`,
`RunEnds`, `CallReturns`, `DocumentsRecorded`) is out of the prover's reach and rests on
the runs; for turns and runs of the loop the properties of progress are what can be
proved of it.

## 5. What is not modelled

The components of section 1 that have no module, and within the modelled ones:

- texts, formatting and parsing of the Markdown files. A file access is one step,
  and a write is taken to be whole, although `write_text` truncates first: a reader
  or a restart in between sees an empty record, which the stores take for a task
  without status, a watermark file without entries or a fresh control snapshot;
- counters and previews of the status views, the health snapshots, the audit log,
  the index files of the ambient store and of the registry (two threads rewrite
  them without a lock);
- the expiry of approvals, which is stored and enforced nowhere; the clocks of
  tokens (a token ages and dies at any time); the OAuth callback server; the
  seeding of scopes by `/bind` and `seed_owner_p2p_scope`;
- of the proactive service `/feishu proactive once` (a second tick on the console
  thread), start and stop, the collection of private chats and documents with its
  console commands (`/feishu dm`, `/feishu docs`; section "Collectors" has what they
  write), the discovery of the document root, page tokens, and summary tasks. The intake of the latter reads a watermark per type, creates tasks and
  writes the watermarks back, from the ticker and from the console
  (`feishu/summary_task_intake.py:142`): two of them at once create two tasks or
  lose a watermark, and a crash between task and watermark repeats the task;
- of the agent loop the resume of interrupted queries, which nothing calls, and
  what is asked of the model; of the context the real token counts and what a
  summary says;
- of the grants of Feishu those with one of the two tokens only, and in `UserTokens`
  those with neither, which `UserRequests` has;
- `paged_request` and the failure backoff (`should_retry_failure`), which nothing calls.

Cards of a scope are a set: a second card for a scope whose first was not clicked is
not told apart. A second process on the same directory is not considered. That
Feishu accepts a refresh token once is an assumption about the service.

## 6. Plan

The order follows the weight of what can go wrong.

1. Done: task lifecycle with approvals, and its proofs.
2. Done: ingress and runtime service, and their proofs.
3. Done: user tokens, and their proofs.
4. Done: scope registry, proactive service and group collector, and their proofs.
5. Done: tool executor with its abstract turn, agent loop, CLI sessions, chat
   context, collectors and requests, each with its run.
6. Done: proofs for the executor, the loop, sessions, requests, decisions and
   acknowledgements.
7. Done: proofs for the chat context and the collectors, and progress of runs, calls,
   requests and collections.
8. If bounds allow: `ToolExecutor` under `AgentLoop` as one step opened up, and
   summary tasks.
