--------------------------- MODULE ScopeRegistry ---------------------------
(***************************************************************************)
(* FeishuScopeRegistry (feishu/scope_registry.py) and the threads that     *)
(* change it.  Every operation of the registry reads one record and later  *)
(* writes all of it; nothing keeps the others out in between.              *)
(*                                                                         *)
(* Three threads do so: the ticker, which is the worker of the proactive   *)
(* service (its steps are in ProactiveService), the listener, which runs   *)
(* the post-approval action of a card, and the console, whose commands run *)
(* one after the other: approve, disable, request, discover groups, and    *)
(* the collection of group messages (its steps are in ProactiveService).   *)
(*                                                                         *)
(* Of a record, the status and last_approval_requested_at are kept: no     *)
(* guard reads the other fields.  Only scopes of group chats are modelled. *)
(* The approvals behind the cards are in ApprovalFlow; here a card is      *)
(* either waiting for its click or not there.                              *)
(***************************************************************************)
EXTENDS Integers, FiniteSets

CONSTANTS
  Scopes,    \* scope ids, as numbers: list_records sorts by them
  NoScope,
  Never,     \* an empty timestamp
  Ticker, Listener, Console,
  MaxJobs    \* bound on what the owner does

Owners == {Listener, Console}
Threads == Owners \cup {Ticker}

ASSUME RegistryAssumption ==
  /\ Scopes \subseteq Nat
  /\ NoScope \notin Nat
  /\ Never \notin Nat
  /\ Ticker \notin Owners
  /\ MaxJobs \in Nat

VARIABLES
  scopes,   \* the records on disk
  chg,      \* what a thread has read and changed, and not yet written
  job,      \* the operation a thread of the owner is to do next
  loop,     \* the command of the console that goes through several scopes
  cards,    \* scopes with an approval card the owner may click
  consent,  \* history: scopes the owner said yes to
  jobs      \* what the owner has done so far

registryVars == <<scopes, chg, job, loop, cards, consent, jobs>>

Statuses == {"absent", "candidate", "approved", "enabled", "disabled",
             "permission_denied"}

Absent == [status |-> "absent", requested |-> Never]
NoChange == [scope |-> NoScope, rec |-> Absent]
NoJob == [op |-> "none", scope |-> NoScope]
NoLoop == [op |-> "none", left |-> {}, from |-> 0, to |-> 0]

RegistryInit ==
  /\ scopes = [s \in Scopes |-> Absent]
  /\ chg = [th \in Threads |-> NoChange]
  /\ job = [o \in Owners |-> NoJob]
  /\ loop = NoLoop
  /\ cards = {}
  /\ consent = {}
  /\ jobs = 0

Known == {s \in Scopes : scopes[s].status # "absent"}
WithStatus(s, status) == [scopes[s] EXCEPT !.status = status]
ListRecords(status) == {s \in Scopes : scopes[s].status = status}

----------------------------------------------------------------------------
\* One operation: _require_record, then _write

BeginChange(th, s, rec) ==
  /\ chg[th] = NoChange
  /\ chg' = [chg EXCEPT ![th] = [scope |-> s, rec |-> rec]]

WriteScope(th) ==
  /\ chg[th] # NoChange
  /\ scopes' = [scopes EXCEPT ![chg[th].scope] = chg[th].rec]
  /\ chg' = [chg EXCEPT ![th] = NoChange]

\* Mutant: the time of the last request is not carried over.
Forgotten(s) ==
  [status |-> IF s \in Known THEN scopes[s].status ELSE "candidate",
   requested |-> Never]

\* upsert_candidate: what is known keeps its status and its times.
Merged(s) ==
  IF s \in Known THEN scopes[s]
  ELSE [status |-> "candidate", requested |-> Never]

----------------------------------------------------------------------------
\* The owner: a card, or a command of the console

MayAct(o) ==
  /\ job[o] = NoJob
  /\ chg[o] = NoChange
  /\ o = Console => loop = NoLoop
  /\ jobs < MaxJobs
  /\ jobs' = jobs + 1

\* enable_scope_from_approval: approve_scope, then enable_scope.
ClickCard(s) ==
  /\ MayAct(Listener)
  /\ s \in cards
  /\ cards' = cards \ {s}
  /\ \/ /\ consent' = consent \cup {s}
        /\ job' = [job EXCEPT ![Listener] = [op |-> "approve", scope |-> s]]
     \/ UNCHANGED <<consent, job>>
  /\ UNCHANGED <<scopes, chg, loop>>

ApproveAtConsole(s) ==
  /\ MayAct(Console)
  /\ s \in Known
  /\ consent' = consent \cup {s}
  /\ job' = [job EXCEPT ![Console] = [op |-> "approve", scope |-> s]]
  /\ UNCHANGED <<scopes, chg, loop, cards>>

DisableAtConsole(s) ==
  /\ MayAct(Console)
  /\ s \in Known
  /\ job' = [job EXCEPT ![Console] = [op |-> "disable", scope |-> s]]
  /\ UNCHANGED <<scopes, chg, loop, cards, consent>>

\* request_feishu_scope_approval_debug has a feedback gateway: the card is
\* sent, or sending it fails.  Nothing marks the request in the record.
RequestAtConsole(s) ==
  /\ MayAct(Console)
  /\ s \in Known \ ListRecords("enabled")
  /\ cards' \in {cards, cards \cup {s}}
  /\ UNCHANGED <<scopes, chg, job, loop, consent>>

\* run_feishu_discover_groups_debug: the discovery of the ticker, by hand.
DiscoverAtConsole ==
  /\ MayAct(Console)
  /\ loop' = [NoLoop EXCEPT !.op = "discover", !.left = Scopes]
  /\ UNCHANGED <<scopes, chg, job, cards, consent>>

\* What is left of the console's loop after s.
LoopAfter(s) ==
  IF loop.left = {s} THEN NoLoop ELSE [loop EXCEPT !.left = @ \ {s}]

DiscoverNext(s) ==
  /\ loop.op = "discover"
  /\ s \in loop.left
  /\ loop' = LoopAfter(s)
  /\ BeginChange(Console, s, Merged(s))
  /\ UNCHANGED <<scopes, job, cards, consent, jobs>>

\* A page or a file access failed: the rest of the command is not done.
EndLoop ==
  /\ loop # NoLoop
  /\ chg[Console] = NoChange
  /\ loop' = NoLoop
  /\ UNCHANGED <<scopes, chg, job, cards, consent, jobs>>

StatusAfter(op) ==
  CASE op = "approve" -> "approved"
    [] op = "enable"  -> "enabled"
    [] op = "disable" -> "disabled"

ReadForJob(o) ==
  /\ job[o] # NoJob
  /\ BeginChange(o, job[o].scope, WithStatus(job[o].scope, StatusAfter(job[o].op)))
  /\ UNCHANGED <<scopes, job, loop, cards, consent, jobs>>

WriteForJob(o) ==
  /\ WriteScope(o)
  /\ job' = [job EXCEPT ![o] =
               IF @.op = "approve" THEN [@ EXCEPT !.op = "enable"] ELSE NoJob]
  /\ UNCHANGED <<loop, cards, consent, jobs>>

\* What an owner's thread does without asking for a scope or writing a record.
OwnerStep ==
  \/ \E s \in Scopes :
       \/ ClickCard(s)
       \/ ApproveAtConsole(s)
       \/ DisableAtConsole(s)
       \/ DiscoverNext(s)
  \/ DiscoverAtConsole \/ EndLoop
  \/ \E o \in Owners : ReadForJob(o)

\* The files, and the cards in the chat, survive a crash.
RegistryRestart ==
  /\ chg' = [th \in Threads |-> NoChange]
  /\ job' = [o \in Owners |-> NoJob]
  /\ loop' = NoLoop
  /\ UNCHANGED <<scopes, cards, consent, jobs>>
=============================================================================
