------------------------ MODULE FeishuIngressProofs ------------------------
(***************************************************************************)
(* For any number of events, messages, exceptions, crashes and stops: a    *)
(* message is queued at most once and answered in order, a queued message  *)
(* has its perception record on disk, and without a crash no chat message  *)
(* is acknowledged before it was handed over.                              *)
(***************************************************************************)
EXTENDS FeishuIngress, SequenceTheorems, TLAPS

\* One element in front of a sequence (RuntimeService.InLine).
LEMMA FrontElement ==
  ASSUME NEW S, NEW x \in S, NEW q \in Seq(S)
  PROVE  /\ <<x>> \o q \in Seq(S)
         /\ <<x>> \o q # <<>>
         /\ Head(<<x>> \o q) = x
         /\ Tail(<<x>> \o q) = q
         /\ \A y \in S : <<x>> \o Append(q, y) = Append(<<x>> \o q, y)
<1>1. <<x>> \in Seq(S) /\ Len(<<x>>) = 1 /\ <<x>>[1] = x
  OBVIOUS
<1>2. /\ <<x>> \o q \in Seq(S)
      /\ Len(<<x>> \o q) = 1 + Len(q)
      /\ (<<x>> \o q)[1] = x
      /\ \A i \in 1..Len(q) : (<<x>> \o q)[i + 1] = q[i]
  BY <1>1
<1>3. <<x>> \o q # <<>>
  BY <1>2
<1>4. Head(<<x>> \o q) = x
  BY <1>2, <1>3
<1>5. Tail(<<x>> \o q) = q
  <2>1. Tail(<<x>> \o q) \in Seq(S) /\ Len(Tail(<<x>> \o q)) = Len(q)
    BY <1>2, <1>3
  <2>2. \A i \in 1..Len(q) : Tail(<<x>> \o q)[i] = q[i]
    BY <1>2, <1>3, <2>1
  <2> QED
    BY <2>1, <2>2, SeqEqual
<1>6. ASSUME NEW y \in S
      PROVE  <<x>> \o Append(q, y) = Append(<<x>> \o q, y)
  <2>1. /\ <<x>> \o Append(q, y) \in Seq(S)
        /\ Append(<<x>> \o q, y) \in Seq(S)
        /\ Len(<<x>> \o Append(q, y)) = Len(q) + 2
        /\ Len(Append(<<x>> \o q, y)) = Len(q) + 2
    BY <1>1, <1>2
  <2>2. ASSUME NEW i \in 1..Len(q) + 2
        PROVE  (<<x>> \o Append(q, y))[i] = Append(<<x>> \o q, y)[i]
    BY <1>1, <1>2
  <2> QED
    BY <2>1, <2>2, SeqEqual
<1> QED
  BY <1>2, <1>3, <1>4, <1>5, <1>6

\* A sequence is its head in front of its tail (RuntimeService.GetWork).
LEMMA HeadInFront ==
  ASSUME NEW S, NEW q \in Seq(S), q # <<>>
  PROVE  Head(q) \in S /\ Tail(q) \in Seq(S) /\ <<Head(q)>> \o Tail(q) = q
<1>1. Head(q) \in S /\ Tail(q) \in Seq(S) /\ Len(Tail(q)) = Len(q) - 1 /\ Len(q) \in Nat \ {0}
  OBVIOUS
<1>2. <<Head(q)>> \o Tail(q) \in Seq(S) /\ Len(<<Head(q)>> \o Tail(q)) = Len(q)
  BY <1>1
<1>3. \A i \in 1..Len(q) : (<<Head(q)>> \o Tail(q))[i] = q[i]
  BY <1>1, <1>2
<1> QED
  BY <1>1, <1>2, <1>3, SeqEqual

\* A record name is a message id or an event id, never both
\* (feishu/runtime.py, _build_record_id).
LEMMA KeyType ==
  ASSUME NEW e \in Events
  PROVE  /\ KeyOf(e) \in Items
         /\ e # NoEvent
         /\ MessageOf[e] # NoItem => KeyOf(e) = MessageOf[e]
         /\ MessageOf[e] = NoItem => KeyOf(e) = e
         /\ MessageOf[e] \notin Events
  BY IngressAssumption DEF KeyOf

\* The bounded counters (stops, faults, crashes).
LEMMA Counting ==
  ASSUME NEW n \in Nat
  PROVE  /\ 0 \in 0..n
         /\ \A c \in 0..n : c < n => c + 1 \in 0..n
  OBVIOUS

LEMMA Bounds == MaxRestarts \in Nat /\ MaxFaults \in Nat /\ MaxCrashes \in Nat
  BY IngressAssumption, RuntimeAssumption

LEMMA InitInv == Init => IngressInv
<1> SUFFICES ASSUME Init PROVE IngressInv
  OBVIOUS
<1>0. /\ 0 \in 0..MaxRestarts /\ 0 \in 0..MaxFaults /\ 0 \in 0..MaxCrashes
      /\ <<>> \in Seq({} \cup {Sentinel})
  BY Bounds, Counting
<1> USE IngressAssumption, RuntimeAssumption DEF Init, RuntimeInit
<1>1. TypeOK
  BY <1>0 DEF TypeOK, RuntimeTypeOK, RuntimePhases
<1>2. DedupInv
  BY DEF DedupInv
<1> QED
  BY <1>1, <1>2 DEF IngressInv

\* The part of the invariant that speaks of the listener and the records is
\* not disturbed by a step that leaves both alone.
LEMMA DedupUnchanged ==
  ASSUME DedupInv, UNCHANGED <<ingressVars, accepted>>
  PROVE  DedupInv'
  BY DEF DedupInv, ingressVars, Seen

LEMMA RuntimeStepInv ==
  ASSUME IngressInv, RuntimeStep
  PROVE  IngressInv'
<1>0. BeginStop => stops' \in 0..MaxRestarts
  <2>1. stops \in 0..MaxRestarts
    BY DEF IngressInv, TypeOK, RuntimeTypeOK
  <2> QED
    BY <2>1, Bounds, Counting DEF BeginStop
<1> USE IngressAssumption, RuntimeAssumption DEF IngressInv, TypeOK, RuntimeTypeOK, RuntimePhases, ingressVars
<1>1. CASE KeepRunning /\ UNCHANGED ingressVars
  BY <1>1, DedupUnchanged DEF KeepRunning
<1>2. CASE GetWork /\ UNCHANGED ingressVars
  <2>1. Head(queue) \in accepted \cup {Sentinel} /\ Tail(queue) \in Seq(accepted \cup {Sentinel})
    BY <1>2, HeadInFront DEF GetWork
  <2>2. RuntimeTypeOK'
    BY <1>2, <2>1 DEF GetWork
  <2> QED
    BY <1>2, <2>2, DedupUnchanged DEF GetWork
<1>3. CASE GetTimesOut /\ UNCHANGED ingressVars
  BY <1>3, DedupUnchanged DEF GetTimesOut
<1>4. CASE HandlerDone /\ UNCHANGED ingressVars
  BY <1>4, DedupUnchanged DEF HandlerDone
<1>5. CASE WorkerExits /\ UNCHANGED ingressVars
  BY <1>5, DedupUnchanged DEF WorkerExits
<1>6. CASE StartRuntime /\ UNCHANGED ingressVars
  BY <1>6, DedupUnchanged DEF StartRuntime, Alive
<1>7. CASE BeginStop /\ UNCHANGED ingressVars
  <2>1. stops' \in 0..MaxRestarts
    BY <1>0, <1>7
  <2>2. UNCHANGED <<queue, stopEvent, rpc, work, accepted, handled>> /\ cpc' = "set event"
    BY <1>7 DEF BeginStop
  <2> QED
    BY <1>7, <2>1, <2>2, DedupUnchanged
<1>8. CASE SetStopEvent /\ UNCHANGED ingressVars
  BY <1>8, DedupUnchanged DEF SetStopEvent
<1>9. CASE PutSentinel /\ UNCHANGED ingressVars
  <2>1. queue' \in Seq(accepted \cup {Sentinel})
    BY <1>9, AppendProperties DEF PutSentinel
  <2> QED
    BY <1>9, <2>1, DedupUnchanged DEF PutSentinel
<1>10. CASE EndStop /\ UNCHANGED ingressVars
  BY <1>10, DedupUnchanged DEF EndStop
<1> QED
  BY <1>1, <1>2, <1>3, <1>4, <1>5, <1>6, <1>7, <1>8, <1>9, <1>10
     DEF RuntimeStep, RuntimeThread, StopRuntime

LEMMA ListenerInv ==
  ASSUME IngressInv, (\E e \in Events : Deliver(e)) \/ ListenerThread \/ HandlerRaises
  PROVE  IngressInv'
<1> USE IngressAssumption, RuntimeAssumption DEF IngressInv
<1>a. HandlerRaises => faults' \in 0..MaxFaults
  <2>1. faults \in 0..MaxFaults
    BY DEF TypeOK
  <2> QED
    BY <2>1, Bounds, Counting DEF HandlerRaises
<1>0. /\ ev \in Events => KeyOf(ev) \in Items
      /\ lpc # "idle" => ev \in Events
  BY KeyType DEF TypeOK
<1>1. ASSUME NEW e \in Events, Deliver(e) PROVE IngressInv'
  <2>1. TypeOK'
    BY <1>1 DEF Deliver, TypeOK, RuntimeTypeOK, runtimeVars, Elsewhere
  <2>2. DedupInv'
    BY <1>1 DEF Deliver, DedupInv, Seen, runtimeVars, Elsewhere
  <2> QED
    BY <2>1, <2>2
<1>2. CASE AnswerDuplicate \/ Ignore \/ SyncControlState
  <2>1. TypeOK'
    BY <1>0, <1>2 DEF AnswerDuplicate, Ignore, SyncControlState, Acknowledge, Idle,
                      TypeOK, RuntimeTypeOK, runtimeVars
  <2>2. DedupInv'
    BY <1>2 DEF AnswerDuplicate, Ignore, SyncControlState, Acknowledge, Idle,
                DedupInv, Seen, runtimeVars
  <2> QED
    BY <2>1, <2>2
<1>3. CASE WriteEventRecord
  <2>1. ev \in Events /\ KeyOf(ev) \in Items
    BY <1>0, <1>3 DEF WriteEventRecord
  <2>2. TypeOK'
    BY <1>3, <2>1 DEF WriteEventRecord, TypeOK, RuntimeTypeOK, runtimeVars, Elsewhere
  <2>3. KeyOf(ev) \notin accepted
    BY <1>3, <2>1, KeyType DEF WriteEventRecord, IsDuplicate, DedupInv, Seen, TypeOK
  <2>4. DedupInv'
    <3>1. \A k \in Items : records'[k] # NoEvent => KeyOf(records'[k]) = k
      BY <1>3, <2>1 DEF WriteEventRecord, DedupInv, TypeOK
    <3>2. records'[KeyOf(ev)] # NoEvent
      BY <1>3, <2>1, KeyType DEF WriteEventRecord, TypeOK
    <3>3. \A k \in accepted : records'[k] # NoEvent /\ k \in perceptions /\ k \in Seen
      BY <1>3, <2>1, KeyType DEF WriteEventRecord, DedupInv, TypeOK, RuntimeTypeOK
    <3> QED
      BY <1>3, <2>3, <3>1, <3>2, <3>3
         DEF WriteEventRecord, DedupInv, Seen, runtimeVars, Elsewhere
  <2> QED
    BY <2>2, <2>4
<1>4. CASE CreatePerception
  <2>1. TypeOK'
    BY <1>0, <1>4 DEF CreatePerception, TypeOK, RuntimeTypeOK, runtimeVars, Elsewhere
  <2>2. DedupInv'
    BY <1>0, <1>4 DEF CreatePerception, DedupInv, Seen, runtimeVars, Elsewhere
  <2> QED
    BY <2>1, <2>2
<1>5. CASE HandOver
  <2>1. KeyOf(ev) \in Items /\ ev \in Events
    BY <1>0, <1>5 DEF HandOver
  <2>2. queue' \in Seq(accepted' \cup {Sentinel})
    <3>1. queue \in Seq(accepted' \cup {Sentinel})
      BY <1>5, SeqMonotonic DEF HandOver, EnqueuePerception, TypeOK, RuntimeTypeOK
    <3> QED
      BY <1>5, <3>1, AppendProperties DEF HandOver, EnqueuePerception
  <2>3. TypeOK'
    BY <1>5, <2>1, <2>2 DEF HandOver, EnqueuePerception, TypeOK, RuntimeTypeOK, Elsewhere
  <2>4. DedupInv'
    BY <1>5, <2>1 DEF HandOver, EnqueuePerception, DedupInv, Seen, Elsewhere
  <2> QED
    BY <2>3, <2>4
<1>6. CASE HandOverRefused
  <2>1. TypeOK'
    BY <1>0, <1>6 DEF HandOverRefused, TypeOK, RuntimeTypeOK, runtimeVars
  <2>2. DedupInv'
    BY <1>6 DEF HandOverRefused, DedupInv, Seen, runtimeVars
  <2> QED
    BY <2>1, <2>2
<1>7. CASE CallHandler \/ ReserveOAuthFlow \/ RefuseOAuthFlow \/ StartOAuthThread
  <2>1. TypeOK'
    <3>1. CASE CallHandler
      BY <1>0, <3>1 DEF CallHandler, TypeOK, RuntimeTypeOK, runtimeVars, Elsewhere
    <3>2. CASE ReserveOAuthFlow
      BY <1>0, <3>2 DEF ReserveOAuthFlow, TypeOK, RuntimeTypeOK, runtimeVars, Elsewhere
    <3>3. CASE RefuseOAuthFlow
      BY <1>0, <3>3 DEF RefuseOAuthFlow, TypeOK, RuntimeTypeOK, runtimeVars, Elsewhere
    <3>4. CASE StartOAuthThread
      BY <1>0, <3>4 DEF StartOAuthThread, TypeOK, RuntimeTypeOK, runtimeVars, Elsewhere
    <3> QED
      BY <1>7, <3>1, <3>2, <3>3, <3>4
  <2>2. DedupInv'
    BY <1>7 DEF CallHandler, ReserveOAuthFlow, RefuseOAuthFlow, StartOAuthThread,
                DedupInv, Seen, runtimeVars, Elsewhere
  <2> QED
    BY <2>1, <2>2
<1>8. CASE RememberEvent
  <2>1. ev \in Events
    BY <1>0, <1>8 DEF RememberEvent
  <2>2. MessageOf[ev] # NoItem => MessageOf[ev] \in Items
    BY <2>1, KeyType
  <2>3. TypeOK'
    BY <1>8, <2>1, <2>2 DEF RememberEvent, TypeOK, RuntimeTypeOK, runtimeVars, Elsewhere
  <2>4. KeyOf(ev) \in Seen'
    BY <1>8, <2>1, KeyType DEF RememberEvent, Seen
  <2>5. Seen \subseteq Seen' /\ seenMessages' \cap Events = {}
    BY <1>8, <2>1, KeyType DEF RememberEvent, Seen, DedupInv
  <2>6. DedupInv'
    BY <1>8, <2>4, <2>5 DEF RememberEvent, DedupInv, runtimeVars, Elsewhere
  <2> QED
    BY <2>3, <2>6
<1>9. CASE HandlerRaises
  <2>1. faults' \in 0..MaxFaults
    BY <1>9, <1>a
  <2>2. lpc # "remember" /\ lpc' = "idle" /\ ev' = NoEvent
    BY <1>9 DEF HandlerRaises, Idle
  <2>3. TypeOK'
    BY <1>9, <2>1, <2>2 DEF HandlerRaises, TypeOK, RuntimeTypeOK, runtimeVars
  <2>4. DedupInv'
    BY <1>9, <2>2 DEF HandlerRaises, DedupInv, Seen, runtimeVars
  <2> QED
    BY <2>3, <2>4
<1> QED
  BY <1>1, <1>2, <1>3, <1>4, <1>5, <1>6, <1>7, <1>8, <1>9 DEF ListenerThread

LEMMA FlowInv ==
  ASSUME IngressInv, NEW f \in Events, FlowEnds(f)
  PROVE  IngressInv'
<1>1. TypeOK'
  BY DEF IngressInv, FlowEnds, TypeOK, RuntimeTypeOK, runtimeVars, Elsewhere
<1>2. DedupInv'
  BY DEF IngressInv, FlowEnds, DedupInv, Seen, runtimeVars, Elsewhere
<1> QED
  BY <1>1, <1>2 DEF IngressInv

\* What was queued before the crash is a duplicate after it: its record names
\* its message, or else its event (_load_dedup_state).
LEMMA RestartInv ==
  ASSUME IngressInv, CrashAndRestart
  PROVE  IngressInv'
<1> USE IngressAssumption, RuntimeAssumption DEF IngressInv
<1>1. RecordedEvents \subseteq Events
  <2>1. records \in [Items -> Events \cup {NoEvent}]
    BY DEF TypeOK
  <2> HIDE IngressAssumption, RuntimeAssumption DEF IngressInv
  <2> QED
    BY <2>1 DEF RecordedEvents
<1>2. seenMessages' \subseteq Items /\ seenMessages' \cap Events = {}
  BY <1>1, KeyType DEF CrashAndRestart
<1>3. crashes' \in 0..MaxCrashes
  <2>1. crashes \in 0..MaxCrashes
    BY DEF TypeOK
  <2> QED
    BY <2>1, Bounds, Counting DEF CrashAndRestart
<1>4. TypeOK'
  <2>1. <<>> \in Seq(accepted \cup {Sentinel})
    OBVIOUS
  <2>2. RuntimeTypeOK'
    BY <2>1 DEF CrashAndRestart, RuntimeRestart, TypeOK, RuntimeTypeOK, RuntimePhases
  <2> QED
    BY <1>1, <1>2, <1>3, <2>2 DEF CrashAndRestart, Idle, TypeOK
<1>5. ASSUME NEW k \in accepted
      PROVE  k \in Seen'
  <2> DEFINE e == records[k]
  <2>1. k \in Items /\ e \in RecordedEvents /\ KeyOf(e) = k
    BY DEF TypeOK, RuntimeTypeOK, DedupInv, RecordedEvents
  <2>2. CASE MessageOf[e] # NoItem
    BY <1>1, <2>1, <2>2, KeyType DEF CrashAndRestart, Seen
  <2>3. CASE MessageOf[e] = NoItem
    BY <1>1, <2>1, <2>3, KeyType DEF CrashAndRestart, Seen
  <2> QED
    BY <2>2, <2>3
<1>6. DedupInv'
  BY <1>2, <1>5 DEF CrashAndRestart, RuntimeRestart, Idle, DedupInv
<1> QED
  BY <1>4, <1>6

\* The invariant behind the at-most-once hand-over holds in every state.
THEOREM IngressInvariance == Spec => []IngressInv
<1>1. ASSUME IngressInv, [Next]_vars
      PROVE  IngressInv'
  <2>1. CASE UNCHANGED vars
    BY <1>1, <2>1, DedupUnchanged
       DEF IngressInv, TypeOK, RuntimeTypeOK, vars, runtimeVars, ingressVars
  <2> QED
    BY <1>1, <2>1, RuntimeStepInv, ListenerInv, FlowInv, RestartInv DEF Next
<1> QED
  BY <1>1, InitInv, PTL DEF Spec

\* Every queued message has its perception record and its event record on
\* disk (PerceptionRecordService.create_record before enqueue_perception).
THEOREM RecordBeforeWork == Spec => []WorkHasRecord
<1>1. IngressInv => WorkHasRecord
  BY DEF IngressInv, DedupInv, WorkHasRecord
<1> QED
  BY <1>1, IngressInvariance, PTL

\* A step that marks no event as handled keeps AckedIsTaken: what the runtime
\* service was given only grows.
LEMMA TakenGrows ==
  ASSUME AckedIsTaken, UNCHANGED <<crashes, acked, seenEvents, seenMessages>>,
         accepted \subseteq accepted', refused \subseteq refused'
  PROVE  AckedIsTaken'
  BY DEF AckedIsTaken

\* An acknowledged chat event has just been handled, or is a duplicate.
LEMMA AcknowledgeTaken ==
  ASSUME IngressInv, AckedIsTaken, Acknowledge,
         lpc # "idle",
         crashes = 0 /\ Kind = "chat" => KeyOf(ev) \in accepted \cup refused,
         UNCHANGED <<crashes, seenEvents, seenMessages, accepted, refused>>
  PROVE  AckedIsTaken' /\ HandledBeforeAck'
  BY DEF AckedIsTaken, HandledBeforeAck, Acknowledge, Idle

\* RememberEvent: another event with the same message is of the same kind, so
\* that what this one was taken for answers for both.
LEMMA RememberTaken ==
  ASSUME IngressInv, AckedIsTaken, HandledBeforeAck, RememberEvent
  PROVE  AckedIsTaken' /\ HandledBeforeAck'
<1>1. ev \in Events
  BY DEF IngressInv, TypeOK, RememberEvent
<1>2. ASSUME crashes = 0, NEW e \in Events, KindOf[e] = "chat",
             e \in acked' \cup seenEvents' \/ MessageOf[e] \in seenMessages'
      PROVE  KeyOf(e) \in accepted \cup refused
  <2>1. CASE e \in acked \cup seenEvents \/ MessageOf[e] \in seenMessages
    BY <1>2, <2>1 DEF AckedIsTaken
  <2>2. CASE e = ev
    BY <1>2, <2>2 DEF HandledBeforeAck, RememberEvent, Kind
  <2>3. CASE MessageOf[e] = MessageOf[ev] /\ MessageOf[e] # NoItem
    <3>1. KindOf[ev] = "chat"
      BY <1>1, <1>2, <2>3, IngressAssumption
    <3>2. KeyOf(e) = KeyOf(ev)
      BY <2>3 DEF KeyOf
    <3> QED
      BY <1>2, <3>1, <3>2 DEF HandledBeforeAck, RememberEvent, Kind
  <2> QED
    BY <1>2, <2>1, <2>2, <2>3 DEF RememberEvent, Elsewhere
<1>3. UNCHANGED <<crashes, accepted, refused, ev>> /\ lpc = "remember" /\ lpc' = "sync"
  BY DEF RememberEvent, Elsewhere, runtimeVars
<1>4. AckedIsTaken'
  BY <1>2, <1>3 DEF AckedIsTaken
<1>5. HandledBeforeAck'
  BY <1>3 DEF HandledBeforeAck, Kind
<1> QED
  BY <1>4, <1>5

LEMMA ListenerTaken ==
  ASSUME IngressInv, AckedIsTaken, HandledBeforeAck, ListenerThread
  PROVE  AckedIsTaken' /\ HandledBeforeAck'
<1>0. lpc # "idle" => ev \in Events
  BY DEF IngressInv, TypeOK
<1>1. CASE AnswerDuplicate
  <2>1. crashes = 0 /\ Kind = "chat" => KeyOf(ev) \in accepted \cup refused
    BY <1>0, <1>1 DEF AnswerDuplicate, IsDuplicate, AckedIsTaken, Kind
  <2> QED
    BY <1>1, <2>1, AcknowledgeTaken DEF AnswerDuplicate, runtimeVars
<1>2. CASE Ignore
  BY <1>2, AcknowledgeTaken DEF Ignore, runtimeVars
<1>3. CASE SyncControlState
  BY <1>3, AcknowledgeTaken DEF SyncControlState, HandledBeforeAck, runtimeVars
<1>4. CASE WriteEventRecord
  <2>1. AckedIsTaken'
    BY <1>4, TakenGrows DEF WriteEventRecord, Elsewhere, runtimeVars
  <2> QED
    BY <1>4, <2>1 DEF WriteEventRecord, HandledBeforeAck, Kind
<1>5. CASE CreatePerception
  <2>1. AckedIsTaken'
    BY <1>5, TakenGrows DEF CreatePerception, Elsewhere, runtimeVars
  <2> QED
    BY <1>5, <2>1 DEF CreatePerception, HandledBeforeAck, Kind
<1>6. CASE HandOver
  <2>1. AckedIsTaken'
    BY <1>6, TakenGrows DEF HandOver, EnqueuePerception, Elsewhere
  <2> QED
    BY <1>6, <2>1 DEF HandOver, EnqueuePerception, HandledBeforeAck, Kind
<1>7. CASE HandOverRefused
  <2>1. AckedIsTaken'
    BY <1>7, TakenGrows DEF HandOverRefused, runtimeVars
  <2> QED
    BY <1>7, <2>1 DEF HandOverRefused, HandledBeforeAck, Kind
<1>8. CASE CallHandler \/ ReserveOAuthFlow \/ RefuseOAuthFlow \/ StartOAuthThread
  <2>1. AckedIsTaken'
    BY <1>8, TakenGrows DEF CallHandler, ReserveOAuthFlow, RefuseOAuthFlow,
       StartOAuthThread, Elsewhere, runtimeVars
  <2>2. Kind # "chat" /\ Kind' = Kind /\ lpc' \in {"remember", "start flow"}
    BY <1>8 DEF CallHandler, ReserveOAuthFlow, RefuseOAuthFlow, StartOAuthThread,
       HandledBeforeAck, Kind
  <2>3. lpc' = "start flow" => Kind = "oauth"
    BY <1>8 DEF CallHandler, ReserveOAuthFlow, RefuseOAuthFlow, StartOAuthThread,
       HandledBeforeAck
  <2> QED
    BY <2>1, <2>2, <2>3 DEF HandledBeforeAck
<1>9. CASE RememberEvent
  BY <1>9, RememberTaken
<1> QED
  BY <1>1, <1>2, <1>3, <1>4, <1>5, <1>6, <1>7, <1>8, <1>9 DEF ListenerThread

\* Without a crash, a chat event that Feishu was told to forget, or that is
\* taken for a duplicate, is on the queue or was refused by a runtime service
\* that is not running (handle_raw_event calls _remember_event last).
THEOREM AcknowledgedIsTaken == Spec => []AckedIsTaken
<1> DEFINE TakenInv == AckedIsTaken /\ HandledBeforeAck
<1>1. Init => TakenInv
  <2>1. ASSUME Init, NEW e \in Events
        PROVE  MessageOf[e] \notin seenMessages /\ e \notin acked \cup seenEvents
    BY <2>1 DEF Init
  <2> QED
    BY <2>1 DEF Init, AckedIsTaken, HandledBeforeAck
<1>2. ASSUME IngressInv, TakenInv, [Next]_vars
      PROVE  TakenInv'
  <2>1. CASE UNCHANGED vars
    BY <1>2, <2>1 DEF vars, runtimeVars, ingressVars, AckedIsTaken, HandledBeforeAck, Kind
  <2>2. CASE \E e \in Events : Deliver(e)
    <3>1. AckedIsTaken'
      BY <1>2, <2>2, TakenGrows DEF Deliver, Elsewhere, runtimeVars
    <3> QED
      BY <1>2, <2>2, <3>1 DEF Deliver, HandledBeforeAck
  <2>3. CASE ListenerThread
    BY <1>2, <2>3, ListenerTaken
  <2>4. CASE HandlerRaises
    <3>1. AckedIsTaken'
      BY <1>2, <2>4, TakenGrows DEF HandlerRaises, runtimeVars
    <3> QED
      BY <2>4, <3>1 DEF HandlerRaises, Idle, HandledBeforeAck
  <2>5. CASE \E f \in Events : FlowEnds(f)
    <3>1. AckedIsTaken'
      BY <1>2, <2>5, TakenGrows DEF FlowEnds, Elsewhere, runtimeVars
    <3> QED
      BY <1>2, <2>5, <3>1 DEF FlowEnds, HandledBeforeAck, Elsewhere, runtimeVars, Kind
  <2>6. CASE RuntimeStep
    <3>1. accepted' = accepted
      BY <2>6 DEF RuntimeStep, RuntimeThread, StopRuntime, KeepRunning, GetWork, GetTimesOut,
         HandlerDone, WorkerExits, StartRuntime, BeginStop, SetStopEvent, PutSentinel, EndStop
    <3>2. UNCHANGED ingressVars
      BY <2>6 DEF RuntimeStep
    <3>3. AckedIsTaken'
      BY <1>2, <3>1, <3>2, TakenGrows DEF ingressVars
    <3> QED
      BY <1>2, <3>1, <3>2, <3>3 DEF HandledBeforeAck, Kind, ingressVars
  <2>7. CASE CrashAndRestart
    <3>1. crashes \in 0..MaxCrashes /\ crashes' = crashes + 1
      BY <1>2, <2>7 DEF IngressInv, TypeOK, CrashAndRestart
    <3>2. crashes' # 0
      BY <3>1, Bounds
    <3> QED
      BY <2>7, <3>2 DEF CrashAndRestart, Idle, AckedIsTaken, HandledBeforeAck
  <2> QED
    BY <1>2, <2>1, <2>2, <2>3, <2>4, <2>5, <2>6, <2>7 DEF Next
<1> QED
  BY <1>1, <1>2, IngressInvariance, PTL DEF Spec

----------------------------------------------------------------------------
\* The ingress implements Inbox, step by step.

InboxStep == [InboxSpec!Next]_<<accepted, InLine, handled>>

LEMMA RuntimeStepRefines ==
  ASSUME IngressInv, RuntimeStep
  PROVE  InboxStep
<1> DEFINE S == accepted \cup {Sentinel}
<1>0. /\ queue \in Seq(S)
      /\ rpc = "work" => work \in S /\ work # Sentinel
  BY RuntimeAssumption DEF IngressInv, TypeOK, RuntimeTypeOK
<1>1. CASE KeepRunning \/ GetTimesOut \/ WorkerExits \/ StartRuntime
  BY <1>1 DEF KeepRunning, GetTimesOut, WorkerExits, StartRuntime, Alive, InLine, InboxStep
<1>2. CASE BeginStop \/ SetStopEvent \/ EndStop
  BY <1>2 DEF BeginStop, SetStopEvent, EndStop, InLine, InboxStep
<1>3. CASE GetWork
  <2>1. /\ rpc = "get" /\ queue # <<>> /\ InLine = queue
        /\ queue' = Tail(queue) /\ UNCHANGED <<accepted, handled>>
    BY <1>3 DEF GetWork, InLine
  <2>2. CASE Head(queue) = Sentinel
    <3>1. InLine' = Tail(queue)
      BY <1>3, <2>1, <2>2 DEF GetWork, InLine
    <3> QED
      BY <2>1, <2>2, <3>1 DEF InboxStep, InboxSpec!Next, InboxSpec!Pass
  <2>3. CASE Head(queue) # Sentinel
    <3>1. InLine' = <<Head(queue)>> \o Tail(queue)
      BY <1>3, <2>1, <2>3 DEF GetWork, InLine
    <3> QED
      BY <1>0, <2>1, <3>1, HeadInFront DEF InboxStep
  <2> QED
    BY <2>2, <2>3
<1>4. CASE HandlerDone
  <2>1. /\ rpc = "work" /\ InLine = <<work>> \o queue /\ InLine' = queue
        /\ accepted' = accepted /\ handled' = handled \cup {work}
    BY <1>4 DEF HandlerDone, InLine
  <2>2. InLine # <<>> /\ Head(InLine) = work /\ Tail(InLine) = queue
    BY <1>0, <2>1, FrontElement
  <2> QED
    BY <1>0, <2>1, <2>2 DEF InboxStep, InboxSpec!Next, InboxSpec!Answer
<1>5. CASE PutSentinel
  <2>1. InLine' = Append(InLine, Sentinel)
    <3>1. CASE rpc = "work"
      <4>1. InLine = <<work>> \o queue /\ InLine' = <<work>> \o Append(queue, Sentinel)
        BY <1>5, <3>1 DEF PutSentinel, InLine
      <4> QED
        BY <1>0, <3>1, <4>1, FrontElement
    <3>2. CASE rpc # "work"
      BY <1>5, <3>2 DEF PutSentinel, InLine
    <3> QED
      BY <3>1, <3>2
  <2> QED
    BY <1>5, <2>1 DEF PutSentinel, InboxStep, InboxSpec!Next, InboxSpec!PutMark
<1> QED
  BY <1>1, <1>2, <1>3, <1>4, <1>5 DEF RuntimeStep, RuntimeThread, StopRuntime

LEMMA HandOverRefines ==
  ASSUME IngressInv, HandOver
  PROVE  InboxStep
<1> DEFINE S == Items \cup {Sentinel}
           k == KeyOf(ev)
<1>1. k \in Items /\ k \notin accepted
  BY KeyType DEF HandOver, IngressInv, DedupInv, TypeOK
<1>2. /\ queue \in Seq(S)
      /\ rpc = "work" => work \in S
  <2>1. queue \in Seq(accepted \cup {Sentinel}) /\ accepted \subseteq Items
    BY DEF IngressInv, TypeOK, RuntimeTypeOK
  <2>2. queue \in Seq(S)
    BY <2>1, SeqMonotonic
  <2> QED
    BY <2>1, <2>2 DEF IngressInv, TypeOK, RuntimeTypeOK
<1>3. InLine' = Append(InLine, k)
  <2>1. CASE rpc = "work"
    <3>1. InLine = <<work>> \o queue /\ InLine' = <<work>> \o Append(queue, k)
      BY <2>1 DEF HandOver, EnqueuePerception, InLine
    <3> QED
      BY <1>1, <1>2, <2>1, <3>1, FrontElement
  <2>2. CASE rpc # "work"
    BY <2>2 DEF HandOver, EnqueuePerception, InLine
  <2> QED
    BY <2>1, <2>2
<1>4. accepted' = accepted \cup {k} /\ handled' = handled
  BY DEF HandOver, EnqueuePerception
<1>5. InboxSpec!TakeIn(k)
  BY <1>1, <1>3, <1>4 DEF InboxSpec!TakeIn
<1> QED
  BY <1>1, <1>5 DEF InboxStep, InboxSpec!Next

\* The ingress implements Inbox: at most once, in order, one at a time.
THEOREM InboxRefinement == Spec => InboxImplemented
<1>1. Init => InboxSpec!Init
  BY DEF Init, RuntimeInit, InboxSpec!Init, InLine
<1>2. ASSUME IngressInv, [Next]_vars
      PROVE  InboxStep
  <2>1. CASE UNCHANGED runtimeVars
    BY <2>1 DEF runtimeVars, InLine, InboxStep
  <2>2. CASE CrashAndRestart
    BY <2>2 DEF CrashAndRestart, RuntimeRestart, InLine, InboxStep,
                InboxSpec!Next, InboxSpec!Crash
  <2>3. CASE (\E e \in Events : Deliver(e) \/ FlowEnds(e)) \/ HandlerRaises
    BY <2>1, <2>3 DEF Deliver, FlowEnds, HandlerRaises
  <2>4. CASE ListenerThread /\ ~HandOver
    BY <2>1, <2>4 DEF ListenerThread, AnswerDuplicate, Ignore, WriteEventRecord,
       CreatePerception, HandOverRefused, CallHandler, ReserveOAuthFlow,
       RefuseOAuthFlow, StartOAuthThread, RememberEvent, SyncControlState
  <2>5. CASE UNCHANGED vars
    BY <2>1, <2>5 DEF vars
  <2> QED
    BY <1>2, <2>2, <2>3, <2>4, <2>5, RuntimeStepRefines, HandOverRefines
       DEF Next, ListenerThread
<1> QED
  BY <1>1, <1>2, IngressInvariance, PTL
     DEF Spec, InboxImplemented, InboxSpec!Spec, InboxSpec!inboxVars, InboxStep
=============================================================================
