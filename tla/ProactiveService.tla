-------------------------- MODULE ProactiveService --------------------------
(***************************************************************************)
(* FeishuProactiveService (feishu/proactive_service.py) with group         *)
(* discovery, the group message collector and the ambient intake, over the *)
(* scope registry and its other threads.                                   *)
(*                                                                         *)
(* A tick discovers groups, asks for approvals of candidates, collects the *)
(* messages of enabled scopes in a time window, and hands new records to   *)
(* the runtime service.  The times of the last discovery, requests and     *)
(* collection are in memory, the watermark of the intake is a file.  The   *)
(* console collects too, in a window of its own, and discovers and asks    *)
(* without leaving or keeping the ticker's marks.                          *)
(*                                                                         *)
(* Left out: private chats, whose collector lacks the method the tick      *)
(* calls, documents, summary tasks and the pages of a response, and        *)
(* run_once of the console, a second tick beside this one: with it,        *)
(* packets would be handed over twice and windows would overlap.  The scan *)
(* of the store is one step.  A tick without a user client changes         *)
(* nothing.                                                                *)
(***************************************************************************)
EXTENDS ScopeRegistry

CONSTANTS
  Messages,           \* message ids, as numbers: the scan sorts by them
  ScopeOf,            \* the group a message is posted in
  DiscoveryInterval,  \* DISCOVERY_INTERVAL_SECONDS
  CollectInterval,    \* COLLECT_INTERVAL_SECONDS
  Cooldown,           \* APPROVAL_REQUEST_COOLDOWN_HOURS
  MaxRequests,        \* MAX_APPROVAL_REQUESTS_PER_TICK
  MaxItems,           \* DEFAULT_MAX_ITEMS_PER_RUN
  MaxRecords,         \* MAX_RECORDS_PER_INTAKE
  GmWindows,          \* windows of /feishu gm, as pairs of times
  MaxTime, MaxFailures   \* bounds of the model

ASSUME ProactiveAssumption ==
  /\ Messages \subseteq Nat
  /\ ScopeOf \in [Messages -> Scopes]
  /\ {DiscoveryInterval, CollectInterval, Cooldown} \subseteq Nat
  /\ {MaxRequests, MaxItems, MaxRecords} \subseteq Nat \ {0}
  /\ GmWindows \subseteq Int \X Int
  /\ {MaxTime, MaxFailures} \subseteq Nat

VARIABLES
  now,            \* the clock, in seconds
  tpc,            \* phase of the tick
  todo,           \* scopes the loop of the phase still has to look at
  listed,         \* the records list_records returned to the loop
  sentRequests,   \* `sent' of _run_approval_requests
  lastDiscovery, lastRequests, lastCollect,   \* FeishuProactiveState
  window,         \* end_time of the collection
  created,        \* Feishu: when a message was posted
  recorded,       \* data/ambient_context
  late,           \* history: what was recorded when later records had been
                  \* handed over
  byHand,         \* history: the console has collected
  packet,         \* records handed over whose watermark is not saved yet
  watermark,      \* ambient_intake_watermark.md
  asked,          \* history: when an approval of a scope was last requested
  unmarked,       \* history: scopes whose last request was not marked, or
                  \* whose mark the console wrote over
  sent,           \* history: how often a message was handed over
  faults, crashes

lastTimes == <<lastDiscovery, lastRequests, lastCollect>>
tickVars == <<tpc, todo, listed, sentRequests, lastTimes, window>>
intakeVars == <<recorded, late, byHand, packet, watermark, sent>>
requestVars == <<asked, unmarked>>
worldVars == <<now, created, faults, crashes>>

vars == <<registryVars, tickVars, intakeVars, requestVars, worldVars>>

Phases == {"wait", "discover", "requests", "mark", "collection", "intake",
           "watermark", "dead"}

\* A thread that has just been started: bootstrap, or the first start.
TickerStarts ==
  /\ tpc' = "wait"
  /\ todo' = {}
  /\ listed' = [s \in Scopes |-> Absent]
  /\ sentRequests' = 0
  /\ lastDiscovery' = Never
  /\ lastRequests' = Never
  /\ lastCollect' = Never
  /\ window' = 0

Init ==
  /\ RegistryInit
  /\ tpc = "wait"
  /\ todo = {}
  /\ listed = [s \in Scopes |-> Absent]
  /\ sentRequests = 0
  /\ lastDiscovery = Never
  /\ lastRequests = Never
  /\ lastCollect = Never
  /\ window = 0
  /\ now = 0
  /\ created = [m \in Messages |-> Never]
  /\ recorded = {}
  /\ late = {}
  /\ byHand = FALSE
  /\ packet = {}
  /\ watermark = Never
  /\ asked = [s \in Scopes |-> Never]
  /\ unmarked = {}
  /\ sent = [m \in Messages |-> 0]
  /\ faults = 0
  /\ crashes = 0

\* _is_due and _approval_cooldown_expired
Due(last, interval) == last = Never \/ (last \in Nat /\ now - last >= interval)

\* Exceptions and crashes are bounded together.
MayFail == faults + crashes < MaxFailures

\* Loops over list_records go in the order of the ids.
First(S) == {s \in S : \A t \in S : s <= t}

\* Of the registry, the ticker changes only what WriteScope writes.
OwnerSide == <<job, loop, cards, consent, jobs>>

\* A record that says candidate also says when the scope was asked for.
Marked(s, rec) ==
  rec.status = "candidate" =>
    asked[s] = Never \/ (rec.requested \in Nat /\ rec.requested >= asked[s])

\* In the loop over the requests, what is written is a mark: the last one,
\* unless the console has asked since the record was read.
TickerWrites ==
  /\ WriteScope(Ticker)
  /\ unmarked' = IF tpc = "requests" /\ Marked(chg[Ticker].scope, chg[Ticker].rec)
                 THEN unmarked \ {chg[Ticker].scope}
                 ELSE unmarked
  /\ UNCHANGED <<OwnerSide, tickVars, intakeVars, asked, worldVars>>

\* Mutant: every scope that is known is collected.
ListKnown == Known

ListEnabled == ListRecords("enabled")

----------------------------------------------------------------------------
\* _execute_tick and _run_discovery

\* What the tick does next: each part is skipped when it is not due.
EnterCollection ==
  IF Due(lastCollect, CollectInterval)
  THEN tpc' = "collection" /\ todo' = ListEnabled /\ window' = now
  ELSE tpc' = "intake" /\ todo' = {} /\ UNCHANGED window

EnterRequests ==
  IF Due(lastRequests, CollectInterval)
  THEN /\ tpc' = "requests"
       /\ todo' = ListRecords("candidate")
       /\ listed' = scopes
       /\ UNCHANGED window
  ELSE /\ EnterCollection
       /\ UNCHANGED listed

BeginTick ==
  /\ tpc = "wait"
  /\ IF Due(lastDiscovery, DiscoveryInterval)
     THEN tpc' = "discover" /\ todo' = Scopes /\ UNCHANGED <<listed, window>>
     ELSE EnterRequests
  /\ UNCHANGED <<registryVars, sentRequests, lastTimes, intakeVars, requestVars,
                 worldVars>>

\* Groups come in the order of Feishu's list.
DiscoverGroup(s) ==
  /\ tpc = "discover"
  /\ s \in todo
  /\ todo' = todo \ {s}
  /\ BeginChange(Ticker, s, Merged(s))
  /\ UNCHANGED <<scopes, OwnerSide, tpc, listed, sentRequests, lastTimes, window,
                 intakeVars, requestVars, worldVars>>

\* The list is finished, or a page failed.
EndDiscovery ==
  /\ tpc = "discover"
  /\ chg[Ticker] = NoChange
  /\ lastDiscovery' = now
  /\ EnterRequests
  /\ UNCHANGED <<registryVars, sentRequests, lastRequests, lastCollect, intakeVars,
                 requestVars, worldVars>>

----------------------------------------------------------------------------
\* _run_approval_requests

Asking(s) ==
  /\ tpc = "requests"
  /\ chg[Ticker] = NoChange
  /\ sentRequests < MaxRequests
  /\ s \in First(todo)

SkipRequest(s) ==
  /\ Asking(s)
  /\ ~Due(listed[s].requested, Cooldown)
  /\ todo' = todo \ {s}
  /\ UNCHANGED <<registryVars, tpc, listed, sentRequests, lastTimes, window,
                 intakeVars, requestVars, worldVars>>

\* request_enable_scope: the approval exists now.  The service the
\* application builds has no feedback gateway, so there is no card.
RequestEnable(s) ==
  /\ Asking(s)
  /\ Due(listed[s].requested, Cooldown)
  /\ tpc' = "mark"
  /\ asked' = [asked EXCEPT ![s] = now]
  /\ unmarked' = unmarked \cup {s}
  /\ UNCHANGED <<registryVars, todo, listed, sentRequests, lastTimes, window,
                 intakeVars, worldVars>>

\* Exceptions are swallowed: before the approval exists ...
RequestRaises(s) ==
  /\ Asking(s)
  /\ Due(listed[s].requested, Cooldown)
  /\ MayFail
  /\ faults' = faults + 1
  /\ todo' = todo \ {s}
  /\ UNCHANGED <<registryVars, tpc, listed, sentRequests, lastTimes, window,
                 intakeVars, requestVars, now, created, crashes>>

\* ... and after that, in mark_approval_requested.
MarkRaises(s) ==
  /\ tpc = "mark"
  /\ s \in First(todo)
  /\ MayFail
  /\ faults' = faults + 1
  /\ tpc' = "requests"
  /\ todo' = todo \ {s}
  /\ UNCHANGED <<registryVars, listed, sentRequests, lastTimes, window, intakeVars,
                 requestVars, now, created, crashes>>

\* Mutant: the loop goes on without the mark.
CountOnly(s) ==
  /\ tpc = "mark"
  /\ s \in First(todo)
  /\ tpc' = "requests"
  /\ todo' = todo \ {s}
  /\ sentRequests' = sentRequests + 1
  /\ unmarked' = unmarked \ {s}
  /\ UNCHANGED <<registryVars, listed, lastTimes, window, intakeVars, asked,
                 worldVars>>

MarkRequested(s) ==
  /\ tpc = "mark"
  /\ s \in First(todo)
  /\ BeginChange(Ticker, s, [scopes[s] EXCEPT !.requested = now])
  /\ tpc' = "requests"
  /\ todo' = todo \ {s}
  /\ sentRequests' = sentRequests + 1
  /\ UNCHANGED <<scopes, OwnerSide, listed, lastTimes, window, intakeVars, requestVars,
                 worldVars>>

EndRequests ==
  /\ tpc = "requests"
  /\ chg[Ticker] = NoChange
  /\ todo = {} \/ sentRequests >= MaxRequests
  /\ listed' = [s \in Scopes |-> Absent]
  /\ sentRequests' = 0
  /\ lastRequests' = now
  /\ EnterCollection
  /\ UNCHANGED <<registryVars, lastDiscovery, lastCollect, intakeVars, requestVars,
                 worldVars>>

----------------------------------------------------------------------------
\* _run_collection: the group collector

\* What a request for a window answers: posted messages of the scope.
InWindow(s, from, to) ==
  {m \in Messages : /\ ScopeOf[m] = s
                    /\ created[m] \in Nat
                    /\ from <= created[m]
                    /\ created[m] <= to}

\* A message the intake no longer waits for.
Behind(m) ==
  \/ watermark # Never /\ created[m] < watermark
  \/ \E p \in packet : created[m] < created[p]

\* Responses are sorted by creation and cut at the budget or at a page that
\* fails.
Beginnings(S) ==
  {B \in SUBSET S : /\ Cardinality(B) <= MaxItems
                    /\ \A m \in B, n \in S \ B : created[m] <= created[n]}

Complete(B, S) == B = S \/ Cardinality(B) = MaxItems

\* One scope: what was written stays, whatever comes after it.  mark_success
\* rewrites the record, a refusal marks it, any other failure does neither.
Collect(th, s, from, to) ==
  /\ chg[th] = NoChange
  /\ \E B \in Beginnings(InWindow(s, from, to)) :
       /\ recorded' = recorded \cup B
       /\ late' = late \cup {m \in B \ recorded : Behind(m)}
       /\ \/ Complete(B, InWindow(s, from, to)) /\ BeginChange(th, s, scopes[s])
          \/ BeginChange(th, s, WithStatus(s, "permission_denied"))
          \/ UNCHANGED chg

CollectScope(s) ==
  /\ tpc = "collection"
  /\ s \in First(todo)
  /\ todo' = todo \ {s}
  /\ Collect(Ticker, s, window - CollectInterval, window)
  /\ UNCHANGED <<scopes, OwnerSide, tpc, listed, sentRequests, lastTimes, window,
                 byHand, packet, watermark, sent, requestVars, worldVars>>

\* All scopes, or an exception, which ends the loop.
EndCollection ==
  /\ tpc = "collection"
  /\ chg[Ticker] = NoChange
  /\ tpc' = "intake"
  /\ todo' = {}
  /\ window' = 0
  /\ lastCollect' = now
  /\ UNCHANGED <<registryVars, listed, sentRequests, lastDiscovery, lastRequests,
                 intakeVars, requestVars, worldVars>>

----------------------------------------------------------------------------
\* _run_intake

\* _created_at_in_window: strictly after the watermark.
New == {m \in recorded : watermark = Never \/ created[m] > watermark}

\* Mutant: the scan is sorted by record id.
ById(m, n) == m <= n

\* The sort of scan_records.
Before(m, n) == created[m] < created[n] \/ (created[m] = created[n] /\ m <= n)

\* What scan_records returns: the first records in its order, up to the limit.
Scans ==
  {B \in SUBSET New : /\ Cardinality(B) <= MaxRecords
                      /\ B = New \/ Cardinality(B) = MaxRecords
                      /\ \A m \in B, n \in New \ B : Before(m, n)}

NothingNew ==
  /\ tpc = "intake"
  /\ New = {}
  /\ tpc' = "wait"
  /\ UNCHANGED <<registryVars, todo, listed, sentRequests, lastTimes, window,
                 intakeVars, requestVars, worldVars>>

EnqueuePacket ==
  /\ tpc = "intake"
  /\ New # {}
  /\ packet' \in Scans
  /\ sent' = [m \in Messages |-> IF m \in packet' THEN sent[m] + 1 ELSE sent[m]]
  /\ tpc' = "watermark"
  /\ UNCHANGED <<registryVars, todo, listed, sentRequests, lastTimes, window, recorded,
                 late, byHand, watermark, requestVars, worldVars>>

\* The runtime service refuses; the records stay new.
EnqueueRefused ==
  /\ tpc = "intake"
  /\ New # {}
  /\ tpc' = "wait"
  /\ UNCHANGED <<registryVars, todo, listed, sentRequests, lastTimes, window,
                 intakeVars, requestVars, worldVars>>

\* Mutant: the watermark of an earlier packet is kept.
KeepWatermark ==
  /\ tpc = "watermark"
  /\ tpc' = "wait"
  /\ packet' = {}
  /\ UNCHANGED <<registryVars, todo, listed, sentRequests, lastTimes, window, recorded,
                 late, byHand, watermark, sent, requestVars, worldVars>>

\* time_window_end: the creation of the last record of the packet.
SaveWatermark ==
  /\ tpc = "watermark"
  /\ \E last \in packet :
       /\ \A m \in packet : created[m] <= created[last]
       /\ watermark' = created[last]
  /\ packet' = {}
  /\ tpc' = "wait"
  /\ UNCHANGED <<registryVars, todo, listed, sentRequests, lastTimes, window, recorded,
                 late, byHand, sent, requestVars, worldVars>>

\* Nothing catches an exception of the scan or of the watermark file: it ends
\* the thread.
IntakeRaises ==
  /\ tpc \in {"intake", "watermark"}
  /\ MayFail
  /\ faults' = faults + 1
  /\ tpc' = "dead"
  /\ UNCHANGED <<registryVars, todo, listed, sentRequests, lastTimes, window,
                 intakeVars, requestVars, now, created, crashes>>

TickerThread ==
  \/ BeginTick \/ EndDiscovery \/ EndRequests \/ EndCollection \/ TickerWrites
  \/ NothingNew \/ EnqueuePacket \/ EnqueueRefused \/ SaveWatermark \/ IntakeRaises
  \/ \E s \in Scopes :
       \/ DiscoverGroup(s)
       \/ SkipRequest(s) \/ RequestEnable(s) \/ RequestRaises(s)
       \/ MarkRaises(s) \/ MarkRequested(s)
       \/ CollectScope(s)

----------------------------------------------------------------------------
\* The rest of the world

\* The approval exists now; only the ticker writes the mark of a request.
OwnerAsks(s) ==
  /\ RequestAtConsole(s)
  /\ asked' = [asked EXCEPT ![s] = now]
  /\ unmarked' = unmarked \cup {s}
  /\ UNCHANGED <<tickVars, intakeVars, worldVars>>

\* What is written may have been read before the last request was marked.
OwnerWrites(o) ==
  /\ WriteForJob(o)
  /\ unmarked' = IF Marked(chg[o].scope, chg[o].rec) THEN unmarked
                 ELSE unmarked \cup {chg[o].scope}
  /\ UNCHANGED <<tickVars, intakeVars, asked, worldVars>>

\* run_feishu_gm_debug: a window up to now, or any other the owner types.
CollectAtConsole ==
  /\ MayAct(Console)
  /\ ListEnabled # {}
  /\ \E w \in GmWindows :
       loop' = [op |-> "collect", left |-> ListEnabled, from |-> w[1], to |-> w[2]]
  /\ byHand' = TRUE
  /\ UNCHANGED <<scopes, chg, job, cards, consent, tickVars, recorded, late, packet,
                 watermark, sent, requestVars, worldVars>>

CollectNext(s) ==
  /\ loop.op = "collect"
  /\ s \in First(loop.left)
  /\ loop' = LoopAfter(s)
  /\ Collect(Console, s, loop.from, loop.to)
  /\ UNCHANGED <<scopes, job, cards, consent, jobs, tickVars, byHand, packet,
                 watermark, sent, requestVars, worldVars>>

OwnerThread ==
  \/ OwnerStep /\ UNCHANGED <<tickVars, intakeVars, requestVars, worldVars>>
  \/ \E s \in Scopes : OwnerAsks(s) \/ CollectNext(s)
  \/ \E o \in Owners : OwnerWrites(o)
  \/ CollectAtConsole

\* Feishu: somebody posts a message.  The last instant of the model is left to the
\* collections.
Post(m) ==
  /\ now < MaxTime
  /\ created[m] = Never
  /\ created' = [created EXCEPT ![m] = now]
  /\ UNCHANGED <<registryVars, tickVars, intakeVars, requestVars, now, faults,
                 crashes>>

TimePasses ==
  /\ now < MaxTime
  /\ now' = now + 1
  /\ UNCHANGED <<registryVars, tickVars, intakeVars, requestVars, created, faults,
                 crashes>>

CrashAndRestart ==
  /\ MayFail
  /\ crashes' = crashes + 1
  /\ RegistryRestart
  /\ TickerStarts
  /\ packet' = {}
  /\ UNCHANGED <<recorded, late, byHand, watermark, sent, requestVars, now, created,
                 faults>>

Next ==
  \/ TickerThread \/ OwnerThread \/ TimePasses \/ CrashAndRestart
  \/ \E m \in Messages : Post(m)

Spec == Init /\ [][Next]_vars

----------------------------------------------------------------------------
Times == Nat \cup {Never}
Records == [status : Statuses, requested : Times]
Loops == [op : {"none", "discover", "collect"}, left : SUBSET Scopes,
          from : Int, to : Int]

TypeOK ==
  /\ scopes \in [Scopes -> Records]
  /\ chg \in [Threads -> [scope : Scopes, rec : Records] \cup {NoChange}]
  /\ job \in [Owners -> [op : {"approve", "enable", "disable"}, scope : Scopes]
                        \cup {NoJob}]
  /\ loop \in Loops
  /\ cards \subseteq Scopes
  /\ consent \subseteq Scopes
  /\ jobs \in 0..MaxJobs
  /\ now \in 0..MaxTime
  /\ tpc \in Phases
  /\ todo \subseteq Scopes
  /\ listed \in [Scopes -> Records]
  /\ sentRequests \in 0..MaxRequests
  /\ {lastDiscovery, lastRequests, lastCollect} \subseteq Times
  /\ window \in Nat
  /\ created \in [Messages -> Times]
  /\ recorded \subseteq Messages
  /\ late \subseteq recorded
  /\ byHand \in BOOLEAN
  /\ packet \subseteq recorded
  /\ watermark \in Times
  /\ asked \in [Scopes -> Times]
  /\ unmarked \subseteq Scopes
  /\ sent \in [Messages -> Nat]
  /\ faults \in 0..MaxFailures
  /\ crashes \in 0..MaxFailures

\* The ticker has a change open only in its three loops.
PhaseInv ==
  /\ chg[Ticker] # NoChange => tpc \in {"discover", "requests", "collection"}
  /\ tpc = "mark" => sentRequests < MaxRequests
  /\ packet # {} => tpc \in {"watermark", "dead"}
  /\ tpc = "watermark" => packet # {}
  /\ loop.op = "collect" => byHand

\* A record never disappears, and none is missing where the loops look for it.
KnownInv ==
  /\ \A th \in Threads : chg[th] # NoChange => chg[th].rec.status # "absent"
  /\ tpc \in {"requests", "mark", "collection"} => todo \subseteq Known
  /\ loop.op = "collect" => loop.left \subseteq Known
  /\ \A s \in Scopes \ Known : asked[s] = Never

\* What may become `enabled' on disk is what the owner said yes to.
ConsentInv ==
  /\ \A s \in Scopes : scopes[s].status = "enabled" => s \in consent
  /\ \A th \in Threads :
       chg[th].rec.status = "enabled" => chg[th].scope \in consent
  /\ \A o \in Owners : job[o].op \in {"approve", "enable"} => job[o].scope \in consent
  /\ tpc = "collection" => todo \subseteq consent
  /\ loop.op = "collect" => loop.left \subseteq consent

\* The ticker is one thread: a mark nobody else wrote over is in every candidate
\* record it reads, lists or writes.
MarkInv ==
  /\ \A s \in Scopes : asked[s] # Never => asked[s] <= now
  /\ \A s \in Scopes \ unmarked : Marked(s, scopes[s])
  /\ chg[Ticker].scope \notin unmarked => Marked(chg[Ticker].scope, chg[Ticker].rec)
  /\ tpc = "requests" =>
       /\ chg[Ticker].scope \notin todo
       /\ \A s \in todo \ unmarked : Marked(s, listed[s])
  /\ tpc = "mark" => \A s \in (todo \ First(todo)) \ unmarked : Marked(s, listed[s])
  /\ tpc \in {"requests", "mark"} => \A s \in todo : listed[s].status = "candidate"

Passed(m) ==
  watermark # Never /\ created[m] # Never /\ created[m] <= watermark

\* What was handed over is behind the watermark, or is about to be.
IntakeInv ==
  /\ \A m \in recorded : created[m] # Never
  /\ \A m \in Messages :
       sent[m] <= crashes + (IF Passed(m) \/ m \in packet THEN 1 ELSE 0)
  /\ \A m \in packet : sent[m] > 0
  /\ tpc = "watermark" => packet \subseteq New

\* The watermark is the time of a record that was handed over, and what is not in
\* the packet comes after it.  While the times of the ticker are not forgotten and
\* only the ticker collects, a window begins where the last collection ended or
\* later, and no record is younger than that end.
WindowInv ==
  /\ window <= now
  /\ lastCollect # Never => lastCollect <= now
  /\ watermark # Never =>
       \E n \in recorded : created[n] = watermark /\ sent[n] > 0
  /\ tpc = "watermark" =>
       \A m \in packet, n \in New \ packet : n \notin late => created[m] <= created[n]
  /\ crashes = 0 /\ ~byHand =>
       /\ late = {}
       /\ tpc = "collection" =>
            /\ lastCollect # Never => lastCollect <= window - CollectInterval
            /\ \A m \in recorded : created[m] <= window
       /\ tpc # "collection" =>
            \A m \in recorded : lastCollect # Never /\ created[m] <= lastCollect
       /\ watermark # Never => lastCollect # Never /\ watermark <= lastCollect

\* The invariant of the proofs: types, what the threads may rely on about
\* records that others rewrite (feishu/scope_registry.py:196-209,
\* proactive_service.py:236-252), and what windows and watermark have to do with
\* one another (proactive_service.py:264-265, ambient_analysis_intake.py:72-84).
ProactiveInv ==
  /\ TypeOK /\ PhaseInv
  /\ KnownInv /\ ConsentInv /\ MarkInv
  /\ IntakeInv /\ WindowInv

\* A message is on disk only if the owner said yes to its group, whatever the
\* threads write over each other's records: the group collector reads what
\* list_enabled returns (feishu/collectors/group_message_collector.py:135).
ConsentFirst == \A m \in recorded : ScopeOf[m] \in consent

\* The ticker asks for a scope again only after the cooldown, although listener
\* and console rewrite the record that holds the mark (proactive_service.py:242),
\* but for three cases: the last mark was lost in a failure or a crash, the last
\* request came from the console, which leaves no mark (app.py:385-402), or a
\* command of the console wrote over it a record that it had read before
\* (app.py:404-417, scope_registry.py:86-91).
CooldownKept ==
  [][tpc = "requests" /\ tpc' = "mark" =>
       \A s \in First(todo) :
         asked[s] = Never \/ s \in unmarked \/ now - asked[s] >= Cooldown]_vars

\* A message is handed over once, and once more at most for each crash: a crash
\* between the queue and the watermark repeats the packet
\* (feishu/ambient_analysis_intake.py:84).
AnalysedOnce == \A m \in Messages : sent[m] <= 1 + crashes

\* The watermark passes no record by that was on disk in time, unless another one
\* of the same second was handed over (ambient_analysis_intake.py:100): budgets and
\* packets never let a later record overtake an earlier one.  Too late is only what
\* was recorded after a restart, which forgets the end of the last window, or after
\* the console has collected in a window of its own (app.py:322-345).
NothingOvertaken ==
  /\ watermark # Never =>
       \A m \in recorded \ late : created[m] <= watermark =>
         \E n \in recorded : created[n] = created[m] /\ sent[n] > 0
  /\ crashes = 0 /\ ~byHand => late = {}

=============================================================================
