--------------------------- MODULE FeishuIngress ---------------------------
(***************************************************************************)
(* FeishuIngressService (feishu/runtime.py) on the listener's thread       *)
(* (feishu/client.py), in front of RuntimeService.                         *)
(*                                                                         *)
(* Feishu delivers an event again until it is acknowledged, and may        *)
(* deliver it again after that.  The listener handles one event at a time; *)
(* a handler that raises is answered with an error, which is no            *)
(* acknowledgement.  Duplicates are found in two sets in memory, which are *)
(* rebuilt from the event records on disk when the process starts.         *)
(***************************************************************************)
EXTENDS RuntimeService

CONSTANTS
  Events,        \* event ids
  NoEvent,
  KindOf,        \* what an event is
  MessageOf,     \* the message id it carries, or NoItem
  MaxFaults,     \* bound on exceptions of file accesses, threads and cards
  MaxCrashes     \* bound on crashes of the process

\* evt_ and per_ records are named after the message, or else the event.
KeyOf(e) == IF MessageOf[e] # NoItem THEN MessageOf[e] ELSE e

Kinds == {"chat", "bind", "oauth", "card", "unsupported"}

ASSUME IngressAssumption ==
  /\ NoEvent \notin Events
  /\ KindOf \in [Events -> Kinds]
  /\ \A e \in Events : KeyOf(e) \in Items
  /\ \A e \in Events : MessageOf[e] \notin Events
  \* What an event is, its message says: it is the same at a second delivery.
  /\ \A e, f \in Events :
       MessageOf[e] = MessageOf[f] /\ MessageOf[e] # NoItem => KindOf[e] = KindOf[f]
  /\ MaxFaults \in Nat
  /\ MaxCrashes \in Nat

VARIABLES
  lpc,           \* phase of the listener thread
  ev,            \* the event it handles
  seenEvents,    \* seen_event_ids
  seenMessages,  \* seen_message_ids
  records,       \* data/events: which event wrote the record of a key
  perceptions,   \* data/perception: keys with a perception record
  oauthFlag,     \* _oauth_in_progress
  flows,         \* OAuth background threads, by the event that started them
  acked,         \* chat events Feishu got an acknowledgement for
  refused,       \* history: keys the runtime service did not take
  faults, crashes

ingressVars == <<lpc, ev, seenEvents, seenMessages, records, perceptions,
                 oauthFlag, flows, acked, refused, faults, crashes>>

vars == <<runtimeVars, ingressVars>>

Init ==
  /\ RuntimeInit
  /\ lpc = "idle"
  /\ ev = NoEvent
  /\ seenEvents = {}
  /\ seenMessages = {}
  /\ records = [k \in Items |-> NoEvent]
  /\ perceptions = {}
  /\ oauthFlag = FALSE
  /\ flows = {}
  /\ acked = {}
  /\ refused = {}
  /\ faults = 0
  /\ crashes = 0

Kind == KindOf[ev]

\* What most steps of the listener leave alone.
Elsewhere == <<acked, refused, faults, crashes>>

\* The listener answers the frame and turns to the next one.
Idle == lpc' = "idle" /\ ev' = NoEvent

----------------------------------------------------------------------------
\* handle_raw_event, step by step

Deliver(e) ==
  /\ lpc = "idle"
  /\ lpc' = "detect"
  /\ ev' = e
  /\ UNCHANGED <<runtimeVars, seenEvents, seenMessages, records, perceptions,
                 oauthFlag, flows, Elsewhere>>

\* Mutant: the message id is not compared.
DuplicateByEventId == ev \in seenEvents

IsDuplicate == ev \in seenEvents \/ MessageOf[ev] \in seenMessages

\* Only the acknowledgements of chat events are kept: nothing depends on
\* those of other events, which may be delivered again in any case.
Acknowledge ==
  /\ Idle
  /\ acked' = IF Kind = "chat" THEN acked \cup {ev} ELSE acked

AnswerDuplicate ==
  /\ lpc = "detect"
  /\ IsDuplicate
  /\ Acknowledge
  /\ UNCHANGED <<runtimeVars, seenEvents, seenMessages, records, perceptions,
                 oauthFlag, flows, refused, faults, crashes>>

\* An unsupported event is acknowledged and not remembered.
Ignore ==
  /\ lpc = "detect"
  /\ ~IsDuplicate
  /\ Kind = "unsupported"
  /\ Acknowledge
  /\ UNCHANGED <<runtimeVars, seenEvents, seenMessages, records, perceptions,
                 oauthFlag, flows, refused, faults, crashes>>

\* Mutant: the event counts as seen before it is handled.
RememberOnRecord ==
  /\ lpc = "detect"
  /\ ~IsDuplicate
  /\ Kind # "unsupported"
  /\ records' = [records EXCEPT ![KeyOf(ev)] = ev]
  /\ seenEvents' = seenEvents \cup {ev}
  /\ seenMessages' = seenMessages \cup ({MessageOf[ev]} \ {NoItem})
  /\ lpc' = IF Kind = "card" THEN "card" ELSE "perceive"
  /\ UNCHANGED <<runtimeVars, ev, perceptions, oauthFlag, flows, Elsewhere>>

WriteEventRecord ==
  /\ lpc = "detect"
  /\ ~IsDuplicate
  /\ Kind # "unsupported"
  /\ records' = [records EXCEPT ![KeyOf(ev)] = ev]
  /\ lpc' = IF Kind = "card" THEN "card" ELSE "perceive"
  /\ UNCHANGED <<runtimeVars, ev, seenEvents, seenMessages, perceptions,
                 oauthFlag, flows, Elsewhere>>

CreatePerception ==
  /\ lpc = "perceive"
  /\ perceptions' = perceptions \cup {KeyOf(ev)}
  /\ lpc' = CASE Kind = "bind"  -> "bind"
              [] Kind = "oauth" -> "oauth"
              [] OTHER          -> "enqueue"
  /\ UNCHANGED <<runtimeVars, ev, seenEvents, seenMessages, records,
                 oauthFlag, flows, Elsewhere>>

HandOver ==
  /\ lpc = "enqueue"
  /\ EnqueuePerception(KeyOf(ev))
  /\ lpc' = "remember"
  /\ UNCHANGED <<ev, seenEvents, seenMessages, records, perceptions,
                 oauthFlag, flows, Elsewhere>>

\* enqueue_perception raises RuntimeError, which becomes a field of the result.
HandOverRefused ==
  /\ lpc = "enqueue"
  /\ ~Alive
  /\ refused' = refused \cup {KeyOf(ev)}
  /\ lpc' = "remember"
  /\ UNCHANGED <<runtimeVars, ev, seenEvents, seenMessages, records,
                 perceptions, oauthFlag, flows, acked, faults, crashes>>

\* The approval card service (module ApprovalFlow) and the /bind handler
\* (module UserTokens has its write of .env) return.
CallHandler ==
  /\ lpc \in {"card", "bind"}
  /\ lpc' = "remember"
  /\ UNCHANGED <<runtimeVars, ev, seenEvents, seenMessages, records,
                 perceptions, oauthFlag, flows, Elsewhere>>

ReserveOAuthFlow ==
  /\ lpc = "oauth"
  /\ ~oauthFlag
  /\ oauthFlag' = TRUE
  /\ lpc' = "start flow"
  /\ UNCHANGED <<runtimeVars, ev, seenEvents, seenMessages, records,
                 perceptions, flows, Elsewhere>>

\* Another flow is under way, or the config lacks the redirect URI or the scopes.
RefuseOAuthFlow ==
  /\ lpc = "oauth"
  /\ lpc' = "remember"
  /\ UNCHANGED <<runtimeVars, ev, seenEvents, seenMessages, records,
                 perceptions, oauthFlag, flows, Elsewhere>>

StartOAuthThread ==
  /\ lpc = "start flow"
  /\ flows' = flows \cup {ev}
  /\ lpc' = "remember"
  /\ UNCHANGED <<runtimeVars, ev, seenEvents, seenMessages, records,
                 perceptions, oauthFlag, Elsewhere>>

RememberEvent ==
  /\ lpc = "remember"
  /\ seenEvents' = seenEvents \cup {ev}
  /\ seenMessages' = seenMessages \cup ({MessageOf[ev]} \ {NoItem})
  /\ lpc' = "sync"
  /\ UNCHANGED <<runtimeVars, ev, records, perceptions, oauthFlag, flows,
                 Elsewhere>>

SyncControlState ==
  /\ lpc = "sync"
  /\ Acknowledge
  /\ UNCHANGED <<runtimeVars, seenEvents, seenMessages, records, perceptions,
                 oauthFlag, flows, refused, faults, crashes>>

\* A write, the card service, the /bind handler, Thread.start or the
\* control-state sync raises: the frame is answered with an error.
HandlerRaises ==
  /\ \/ lpc = "detect" /\ ~IsDuplicate /\ Kind # "unsupported"
     \/ lpc \in {"perceive", "card", "bind", "start flow", "sync"}
  /\ faults < MaxFaults
  /\ faults' = faults + 1
  /\ Idle
  /\ UNCHANGED <<runtimeVars, seenEvents, seenMessages, records, perceptions,
                 oauthFlag, flows, acked, refused, crashes>>

ListenerThread ==
  \/ AnswerDuplicate \/ Ignore \/ WriteEventRecord \/ CreatePerception
  \/ HandOver \/ HandOverRefused \/ CallHandler
  \/ ReserveOAuthFlow \/ RefuseOAuthFlow \/ StartOAuthThread
  \/ RememberEvent \/ SyncControlState

\* An OAuth thread has got its callback, timed out or failed; "finally".
FlowEnds(f) ==
  /\ f \in flows
  /\ flows' = flows \ {f}
  /\ oauthFlag' = FALSE
  /\ UNCHANGED <<runtimeVars, lpc, ev, seenEvents, seenMessages, records,
                 perceptions, Elsewhere>>

----------------------------------------------------------------------------
\* Restart

\* _load_dedup_state: what the event records on disk name.
RecordedEvents == {records[k] : k \in Items} \ {NoEvent}

\* Mutant: the sets start empty.
CrashForgetsSeen ==
  /\ crashes < MaxCrashes
  /\ crashes' = crashes + 1
  /\ RuntimeRestart
  /\ Idle
  /\ seenEvents' = {}
  /\ seenMessages' = {}
  /\ oauthFlag' = FALSE
  /\ flows' = {}
  /\ UNCHANGED <<records, perceptions, acked, refused, faults>>

CrashAndRestart ==
  /\ crashes < MaxCrashes
  /\ crashes' = crashes + 1
  /\ RuntimeRestart
  /\ Idle
  /\ seenEvents' = RecordedEvents
  /\ seenMessages' = {MessageOf[e] : e \in RecordedEvents} \ {NoItem}
  /\ oauthFlag' = FALSE
  /\ flows' = {}
  /\ UNCHANGED <<records, perceptions, acked, refused, faults>>

RuntimeStep ==
  /\ RuntimeThread \/ StartRuntime \/ StopRuntime
  /\ UNCHANGED ingressVars

Next ==
  \/ \E e \in Events : Deliver(e)
  \/ ListenerThread
  \/ HandlerRaises
  \/ \E f \in Events : FlowEnds(f)
  \/ RuntimeStep
  \/ CrashAndRestart

Spec == Init /\ [][Next]_vars

\* The threads run, the OAuth callback server has a timeout, and Feishu
\* delivers an event until it is acknowledged.
Fairness ==
  /\ WF_vars(ListenerThread)
  /\ WF_vars(RuntimeThread /\ UNCHANGED ingressVars)
  /\ \A f \in Events : WF_vars(FlowEnds(f))
  /\ \A e \in Events : SF_vars(Deliver(e) /\ e \notin acked)

FairSpec == Spec /\ Fairness

----------------------------------------------------------------------------
TypeOK ==
  /\ RuntimeTypeOK
  /\ lpc \in {"idle", "detect", "perceive", "enqueue", "card", "bind", "oauth",
              "start flow", "remember", "sync"}
  /\ ev \in Events \cup {NoEvent}
  /\ (ev = NoEvent) <=> (lpc = "idle")
  /\ seenEvents \subseteq Events
  /\ seenMessages \subseteq Items
  /\ records \in [Items -> Events \cup {NoEvent}]
  /\ perceptions \subseteq Items
  /\ oauthFlag \in BOOLEAN
  /\ flows \subseteq Events
  /\ acked \subseteq Events
  /\ refused \subseteq Items
  /\ faults \in 0..MaxFaults
  /\ crashes \in 0..MaxCrashes

\* Why that is so.  An item that was ever queued is found as a duplicate: in
\* the sets, or because its event is about to be put there; and after a
\* restart, because the record of its key is on disk and names its message.
Seen == seenEvents \cup seenMessages

DedupInv ==
  /\ seenMessages \cap Events = {}
  /\ \A k \in Items : records[k] # NoEvent => KeyOf(records[k]) = k
  /\ lpc \in {"perceive", "enqueue"} => /\ KeyOf(ev) \notin accepted
                                       /\ records[KeyOf(ev)] # NoEvent
  /\ lpc = "enqueue" => KeyOf(ev) \in perceptions
  /\ \A k \in accepted :
       /\ k \in perceptions
       /\ records[k] # NoEvent
       /\ k \in Seen \/ (lpc = "remember" /\ KeyOf(ev) = k)

IngressInv == TypeOK /\ DedupInv

\* A message is put on the runtime queue at most once, whatever is delivered
\* again, raises or crashes, and is answered in the order of the queue
\* (_detect_duplicate, the event records, RuntimeService's one thread).
InboxSpec ==
  INSTANCE Inbox WITH Messages <- Items, Mark <- Sentinel, taken <- accepted,
                      line <- InLine, answered <- handled
InboxImplemented == InboxSpec!Spec

\* A work item names a perception record that is on disk, so that
\* RuntimeAgentLoop._require_loop_input finds it, and so does the event
\* record that keeps its message from being taken in after a restart.
WorkHasRecord ==
  \A i \in accepted : i \in perceptions /\ records[i] # NoEvent

\* Without a crash, a chat event that Feishu was told to forget, or that is
\* taken for a duplicate, has been put on the queue, or refused by a runtime
\* service that is not running (handle_raw_event remembers an event last).
AckedIsTaken ==
  crashes = 0 =>
    \A e \in Events :
      KindOf[e] = "chat" /\ (e \in acked \cup seenEvents \/ MessageOf[e] \in seenMessages)
        => KeyOf(e) \in accepted \cup refused

\* Why that is so: only a chat event passes "enqueue" on its way to "remember".
HandledBeforeAck ==
  /\ lpc = "card" => Kind = "card"
  /\ lpc = "bind" => Kind = "bind"
  /\ lpc \in {"oauth", "start flow"} => Kind = "oauth"
  /\ crashes = 0 /\ lpc \in {"remember", "sync"} /\ Kind = "chat"
       => KeyOf(ev) \in accepted \cup refused

\* While the runtime service is not stopped and the process does not crash,
\* every chat message is handled in the end, also when handling an event
\* raises now and then.
ChatsAreAnswered ==
  \A e \in Events :
    KindOf[e] = "chat" => <>(KeyOf(e) \in handled \/ crashes > 0 \/ stops > 0)

=============================================================================
