------------------------------ MODULE Collectors ------------------------------
(***************************************************************************)
(* One collection of the message collectors or of the document collector   *)
(* (feishu/collectors), with its budget (feishu/collector_budget.py), its  *)
(* sync state (feishu/sync_state.py) and the records it writes             *)
(* (feishu/ambient_context.py).  The tick thread of the proactive service  *)
(* and the console thread (/feishu gm, dm, docs) collect at the same time; *)
(* no file has a lock.                                                     *)
(*                                                                         *)
(* ProactiveService takes a collection as one step and has the schedule,   *)
(* the registry and the intake; here is what one collection does page by   *)
(* page.  One chat and one folder; the private and the group collector are *)
(* the same loop.  Left out: items without an id, which are skipped, the   *)
(* index of the store, which no code reads, and edits of documents, which  *)
(* Feishu lists again first and the store keeps as a file of their day.    *)
(***************************************************************************)
EXTENDS Integers, FiniteSets, FiniteSetsExt

CONSTANTS
  None,
  Documents, Messages,  \* what the folder and the chat hold, as numbers; messages
                        \* are numbered in the order they are posted
  PageSize,             \* page_size of a request
  MaxPagesPerRun, MaxItemsPerRun,   \* max_pages_per_run, max_items_per_run
  Lookback,             \* seconds of a message window
  MaxTime,              \* bound: the clock
  MaxFailures           \* bound: failed requests, exceptions and restarts

ASSUME CollectorsAssumption ==
  /\ Documents \cup Messages \subseteq Nat
  /\ Documents \cap Messages = {}
  /\ IsFiniteSet(Documents) /\ IsFiniteSet(Messages)
  /\ {PageSize, MaxPagesPerRun, MaxItemsPerRun, MaxTime} \subseteq Nat \ {0}
  /\ {Lookback, MaxFailures} \subseteq Nat

Collecting == {"tick", "console"}
Kinds == {"document", "message"}
Items == Documents \cup Messages
Times == 0..MaxTime

\* A page token continues a listing: it stands for what is still to come.
Tokens == SUBSET Documents

\* FeishuCollectorSyncState.  The next_cursor of messages is the second of the
\* cursor, and nothing reads it.  `from' is history: the window of that run.
SyncStates ==
  [cursor : Times \cup {None}, next : Tokens \cup {None}, from : Times \cup {None}]

Places == {"request", "write", "mark", "save"}

Runs ==
  [pc : Places, kind : Kinds, ok : BOOLEAN,
   from : Times,                              \* the window of messages
   rest : SUBSET Items,                       \* not on a page yet
   page : SUBSET Items,                       \* of the last response, unwritten
   pages : 0..MaxPagesPerRun, items : 0..MaxItemsPerRun,  \* CollectorBudgetUsage
   top : Times \cup {None},                   \* newest time written
   seen : SyncStates]                         \* the sync state that was read

VARIABLES
  now,
  created,    \* Feishu: create_time of the messages
  recorded,   \* data/ambient_context
  sync,       \* data/feishu/sync_state
  run,        \* of each thread: its collection
  failures,
  dropped     \* history: documents behind the item budget on a page

worldVars == <<now, created>>
collectVars == <<worldVars, recorded, sync, run, failures, dropped>>

NoState == [cursor |-> None, next |-> None, from |-> None]

CollectorsInit ==
  /\ now = 1
  /\ created = [m \in Messages |-> None]
  /\ recorded = {}
  /\ sync = [k \in Kinds |-> NoState]
  /\ run = [t \in Collecting |-> None]
  /\ failures = 0
  /\ dropped = {}

----------------------------------------------------------------------------
(* Listings and budget *)

\* The order of a listing: messages by time; the order of documents is Feishu's.
Before(i, j) == i <= j

Beginnings(S) == {P \in SUBSET S : \A i \in P, j \in S \ P : Before(i, j)}

\* What a response may hold: at most a page, and less than was asked for when
\* Feishu likes.
FirstPages(rest) ==
  {P \in Beginnings(rest) : Cardinality(P) <= PageSize /\ (rest # {} => P # {})}

\* The last modification of a document does not matter here.
TimeOf(i) == IF i \in Messages THEN created[i] ELSE 0

\* can_accept_item and record_item, for all items of a page.
Room(r) == MaxItemsPerRun - r.items

Accepted(r) ==
  {P \in Beginnings(r.page) :
     Cardinality(P) = IF Cardinality(r.page) > Room(r) THEN Room(r) ELSE Cardinality(r.page)}

CanAcceptItem(r) == r.items < MaxItemsPerRun
CanRequestNextPage(r) == r.pages < MaxPagesPerRun

ShouldStopLoop(r) ==
  \/ ~CanAcceptItem(r)
  \/ r.rest = {}
  \/ ~CanRequestNextPage(r)

Newest(top, P) ==
  LET times == {TimeOf(i) : i \in P} \cup ({top} \ {None})
  IN IF times = {} THEN None ELSE Max(times)

\* Mutant: the token that the collection began with is kept.
TokenSeen(r) == r.seen.next

\* _max_timestamp of what was written, else the cursor that is there.
CursorOf(r) == IF r.top = None THEN r.seen.cursor ELSE r.top

NextToken(r) == IF r.rest # {} THEN r.rest ELSE None

\* _success_result: documents resume at the token; messages have a cursor.
SuccessState(r) ==
  [cursor |-> CursorOf(r),
   next |-> IF r.kind = "document" THEN NextToken(r) ELSE None,
   from |-> IF r.top = None THEN r.seen.from ELSE r.from]

\* mark_failure writes back the cursors that it read.
FailureState(r) == r.seen

NewRun(kind, from, rest) ==
  [pc |-> "request", kind |-> kind, ok |-> TRUE, from |-> from,
   rest |-> rest, page |-> {}, pages |-> 0, items |-> 0, top |-> None,
   seen |-> NoState]

\* Every collection of messages asks for a window of its own ...
MessageRun(from) ==
  NewRun("message", from, {m \in Messages : created[m] # None /\ from <= created[m]})

\* ... and documents resume where the sync state says.
DocumentRun ==
  NewRun("document", 0,
         IF sync["document"].next = None THEN Documents ELSE sync["document"].next)

----------------------------------------------------------------------------
(* A collection *)

In(t, place) == run[t] # None /\ run[t].pc = place
Become(t, r) == run' = [run EXCEPT ![t] = r]

\* The tick collects messages and then documents, the console what is asked.
AfterRun(t) == IF t = "tick" /\ run[t].kind = "message" THEN DocumentRun ELSE None

StartTick ==
  /\ run["tick"] = None
  /\ Become("tick", MessageRun(IF now > Lookback THEN now - Lookback ELSE 0))
  /\ UNCHANGED <<worldVars, recorded, sync, failures, dropped>>

\* /feishu gm and dm take a window, here one that reaches back to the first
\* message; /feishu docs takes nothing.
ConsoleCommand ==
  /\ run["console"] = None
  /\ \/ Become("console", DocumentRun)
     \/ Become("console", MessageRun(0))
  /\ UNCHANGED <<worldVars, recorded, sync, failures, dropped>>

RequestPage(t) ==
  /\ In(t, "request")
  /\ \E P \in FirstPages(run[t].rest) :
       Become(t, [run[t] EXCEPT !.pc = "write", !.pages = @ + 1, !.page = P,
                                !.rest = @ \ P])
  /\ UNCHANGED <<worldVars, recorded, sync, failures, dropped>>

\* Mutant: a page that cannot be read is passed over.
SkipFailedPage(t) ==
  /\ In(t, "request")
  /\ failures < MaxFailures
  /\ failures' = failures + 1
  /\ \E P \in FirstPages(run[t].rest) :
       Become(t, [run[t] EXCEPT !.pc = "write", !.pages = @ + 1, !.rest = @ \ P])
  /\ UNCHANGED <<worldVars, recorded, sync, dropped>>

\* No token, or the last attempt failed.  What the earlier pages brought stays in
\* the store.  (A refusal takes the scope out of the list: ProactiveService.)
RequestFails(t) ==
  /\ In(t, "request")
  /\ failures < MaxFailures
  /\ failures' = failures + 1
  /\ Become(t, [run[t] EXCEPT !.pc = "mark", !.ok = FALSE])
  /\ UNCHANGED <<worldVars, recorded, sync, dropped>>

\* AmbientContextStore.write: the file of each record, written over if it is there.
Store(P) == recorded' = recorded \cup P

\* _write_response_items: the records of a page, up to the item budget.  What is
\* left of the page is skipped, and the token is that of the page after it.  No
\* other thread reads the store, so that the page is one step.
WritePage(t) ==
  LET r == run[t]
  IN /\ In(t, "write")
     /\ \E P \in Accepted(r) :
          LET after == [r EXCEPT !.page = {}, !.items = @ + Cardinality(P),
                                 !.top = Newest(@, P)]
          IN /\ Store(P)
             /\ dropped' = dropped \cup ((r.page \ P) \cap Documents)
             /\ Become(t, [after EXCEPT
                             !.pc = IF ShouldStopLoop(after) THEN "mark" ELSE "request"])
     /\ UNCHANGED <<worldVars, sync, failures>>

ReadState(t) ==
  /\ In(t, "mark")
  /\ Become(t, [run[t] EXCEPT !.pc = "save", !.seen = sync[run[t].kind]])
  /\ UNCHANGED <<worldVars, recorded, sync, failures, dropped>>

SaveState(t) ==
  LET r == run[t]
  IN /\ In(t, "save")
     /\ sync' = [sync EXCEPT ![r.kind] = IF r.ok THEN SuccessState(r) ELSE FailureState(r)]
     /\ Become(t, AfterRun(t))
     /\ UNCHANGED <<worldVars, recorded, failures, dropped>>

\* When a collection breaks off, some records of the page may be written.
Partial(t) == IF In(t, "write") THEN Beginnings(run[t].page) ELSE {{}}

\* An exception of a file ends the collection without a mark; the tick goes on
\* with the next collector.
CollectRaises(t) ==
  /\ \E place \in {"write", "mark", "save"} : In(t, place)
  /\ failures < MaxFailures
  /\ failures' = failures + 1
  /\ \E P \in Partial(t) : Store(P)
  /\ Become(t, AfterRun(t))
  /\ UNCHANGED <<worldVars, sync, dropped>>

Restart ==
  /\ failures < MaxFailures
  /\ failures' = failures + 1
  /\ \E P \in Partial("tick"), Q \in Partial("console") : Store(P \cup Q)
  /\ run' = [t \in Collecting |-> None]
  /\ UNCHANGED <<worldVars, sync, dropped>>

Collect(t) ==
  \/ RequestPage(t) \/ RequestFails(t) \/ WritePage(t)
  \/ ReadState(t) \/ SaveState(t) \/ CollectRaises(t)

----------------------------------------------------------------------------
(* Feishu and the clock *)

Post(m) ==
  /\ created[m] = None
  /\ \A n \in Messages : n < m => created[n] # None
  /\ created' = [created EXCEPT ![m] = now]
  /\ UNCHANGED <<now, recorded, sync, run, failures, dropped>>

TimePasses ==
  /\ now < MaxTime
  /\ now' = now + 1
  /\ UNCHANGED <<created, recorded, sync, run, failures, dropped>>

CollectorsNext ==
  \/ StartTick \/ ConsoleCommand
  \/ \E t \in Collecting : Collect(t)
  \/ Restart
  \/ \E m \in Messages : Post(m)
  \/ TimePasses

CollectorsSpec == CollectorsInit /\ [][CollectorsNext]_collectVars

\* The tick comes every minute and goes on until it waits again; the console
\* only when the user types.
CollectorsFairSpec == CollectorsSpec /\ WF_collectVars(StartTick \/ Collect("tick"))

----------------------------------------------------------------------------
(* Type correctness.                                                       *)
CollectorsTypeOK ==
  /\ now \in Times
  /\ created \in [Messages -> Times \cup {None}]
  /\ recorded \subseteq Items
  /\ sync \in [Kinds -> SyncStates]
  /\ run \in [Collecting -> Runs \cup {None}]
  /\ failures \in 0..MaxFailures
  /\ dropped \subseteq Documents

(* Messages are numbered as they are posted, and none is of the future.    *)
PostedInOrder ==
  \A m \in Messages : created[m] # None =>
    /\ created[m] <= now
    /\ \A n \in Messages : n < m => created[n] # None /\ created[n] <= created[m]

\* Every message of a window that is older than the cursor is in the store.
CursorCovers(cursor, from) ==
  cursor # None =>
    /\ from \in Times
    /\ cursor <= now
    /\ \A m \in Messages :
         created[m] # None /\ from <= created[m] /\ created[m] < cursor => m \in recorded

\* Every document in front of the page that the token stands for is in the store.
TokenCovers(next) == next # None => Documents \subseteq next \cup recorded \cup dropped

StateCovers(s) == CursorCovers(s.cursor, s.from) /\ TokenCovers(s.next)

(* What the sync state promises: every document in front of the place      *)
(* where the next collection resumes is in the ambient store, and so is    *)
(* every message of the saved window that is older than the saved cursor.  *)
(* Failed pages, exceptions, restarts and the other thread, whose older    *)
(* state a failure may write back, do not break it.  The one exception is  *)
(* a page of documents cut at the item budget: the token that is saved is  *)
(* the one of the page after it.                                           *)
ResumeCovers == \A k \in Kinds : StateCovers(sync[k])

\* What a collection has still to write.
Ahead(r) == r.rest \cup r.page

\* Documents: whatever is neither ahead nor written stood behind the budget.
FolderCovers(r) ==
  /\ Ahead(r) \subseteq Documents
  /\ Documents \subseteq Ahead(r) \cup recorded \cup dropped
  /\ r.top # None => r.top = 0

\* Messages: a listing passes over no message that is older than one ahead,
\* as long as another page may be written.
WindowCovers(r) ==
  /\ Ahead(r) \subseteq Messages
  /\ \A i \in Ahead(r) : created[i] # None /\ r.from <= created[i]
  /\ r.pc \in {"request", "write"} =>
       \A i \in Ahead(r), m \in Messages :
         m < i /\ created[m] # None /\ r.from <= created[m] => m \in Ahead(r) \cup recorded

\* A collection under way, and the state that it read.
RunCovers(r) ==
  /\ r.pc # "write" => r.page = {}
  /\ r.pc = "request" => r.pages < MaxPagesPerRun
  /\ \A i \in r.page, j \in r.rest : Before(i, j)
  /\ StateCovers(r.seen)
  /\ CursorCovers(r.top, r.from)
  /\ IF r.kind = "document" THEN FolderCovers(r) ELSE WindowCovers(r)

(* The sync state keeps its promise: with what every collection under way  *)
(* has read, written and has ahead of it, which is why a state that is     *)
(* saved late, or an older one that a failure writes back, still keeps it. *)
CollectInv ==
  /\ CollectorsTypeOK
  /\ PostedInOrder
  /\ ResumeCovers
  /\ \A t \in Collecting : run[t] # None => RunCovers(run[t])

\* What a collection still goes through before its next request.
PlacesLeft(place) ==
  CASE place = "write" -> 3 [] place = "request" -> 2 [] place = "mark" -> 1
    [] place = "save" -> 0

\* The next page, the next place, or the documents after the messages.
CollectionAdvances(t) ==
  LET r == run[t]
      s == run'[t]
  IN \/ s = None
     \/ r.kind = "message" /\ s.kind = "document"
     \/ /\ s.kind = r.kind
        /\ \/ s.pages = r.pages + 1
           \/ s.pages = r.pages /\ PlacesLeft(s.pc) < PlacesLeft(r.pc)

(* Every step of a collection brings it nearer to its end: it requests     *)
(* max_pages_per_run pages at most, whatever a listing returns, and        *)
(* neither a failure nor the other thread starts it over.                  *)
CollectionsAdvance ==
  [][\A t \in Collecting : run[t] # None =>
       \/ CollectionAdvances(t)
       \/ ~Collect(t) /\ run'[t] = run[t]]_collectVars

(* Every document of the folder is recorded in the end, however many pages *)
(* the listing has, unless it stood behind the item budget on a page.      *)
DocumentsRecorded == <>(Documents \subseteq recorded \cup dropped)
=============================================================================
