-------------------------- MODULE ProactiveProofs --------------------------
(***************************************************************************)
(* For any number of scopes, messages, jobs, faults and crashes, and any   *)
(* intervals and limits: the owner's yes comes first, the cooldown of the  *)
(* requests is kept as far as the console leaves its marks alone, and the  *)
(* intake neither repeats nor overtakes a message before a restart.        *)
(*                                                                         *)
(* ProactiveInv is inductive.  Each of its conjuncts has a lemma, which    *)
(* goes through the actions that write what the conjunct speaks of; the    *)
(* others are one case.                                                    *)
(***************************************************************************)
EXTENDS ProactiveService, FiniteSetTheorems, TLAPS

LEMMA ThreadFacts ==
  /\ Ticker \in Threads /\ Ticker \notin Owners
  /\ Listener \in Threads /\ Console \in Threads
  /\ \A o \in Owners : o \in Threads /\ o # Ticker
  /\ \A th \in Threads : th \in Owners \/ th = Ticker
  BY RegistryAssumption DEF Threads, Owners

\* The ids are numbers: no scope is NoScope, and no number is Never.
LEMMA IdFacts ==
  /\ Scopes \subseteq Nat /\ Messages \subseteq Nat
  /\ NoScope \notin Scopes
  /\ Never \notin Nat
  /\ \A m \in Messages : ScopeOf[m] \in Scopes
  /\ DiscoveryInterval \in Nat /\ CollectInterval \in Nat /\ Cooldown \in Nat
  /\ MaxRequests \in Nat \ {0} /\ MaxRecords \in Nat \ {0}
  /\ MaxJobs \in Nat /\ MaxTime \in Nat /\ MaxFailures \in Nat
  /\ GmWindows \subseteq Int \X Int
  BY RegistryAssumption, ProactiveAssumption

\* The loops look at one scope at a time.
LEMMA OnlyFirst ==
  ASSUME NEW S, S \subseteq Scopes, NEW s \in First(S), NEW t \in First(S)
  PROVE  s = t
<1>1. s \in Nat /\ t \in Nat /\ s <= t /\ t <= s
  BY IdFacts DEF First
<1> QED
  BY <1>1

LEMMA AbsentType == Absent \in Records
  BY DEF Absent, Records, Statuses, Times

LEMMA WithStatusType ==
  ASSUME TypeOK, NEW s \in Scopes, NEW status \in Statuses
  PROVE  /\ WithStatus(s, status) \in Records
         /\ WithStatus(s, status).status = status
  BY DEF TypeOK, WithStatus, Records

LEMMA MergedType ==
  ASSUME TypeOK, NEW s \in Scopes
  PROVE  /\ Merged(s) \in Records
         /\ Merged(s).status # "absent"
         /\ \/ s \in Known /\ Merged(s) = scopes[s]
            \/ s \notin Known /\ Merged(s) = [status |-> "candidate", requested |-> Never]
  BY DEF TypeOK, Merged, Known, Records, Statuses, Times

\* What an owner's job writes.
LEMMA JobStatus ==
  ASSUME NEW op \in {"approve", "enable", "disable"}
  PROVE  /\ StatusAfter(op) \in Statuses \ {"absent", "candidate"}
         /\ StatusAfter(op) = "enabled" => op = "enable"
  BY DEF StatusAfter, Statuses

\* The change a thread has open after BeginChange.
LEMMA BegunRecord ==
  ASSUME TypeOK, NEW th \in Threads, NEW s, NEW rec, BeginChange(th, s, rec)
  PROVE  /\ chg'[th].scope = s
         /\ chg'[th].rec = rec
         /\ \A other \in Threads \ {th} : chg'[other] = chg[other]
  BY DEF TypeOK, BeginChange

LEMMA BegunChange ==
  ASSUME TypeOK, NEW th \in Threads, NEW s \in Scopes, NEW rec \in Records,
         BeginChange(th, s, rec)
  PROVE  chg' \in [Threads -> [scope : Scopes, rec : Records] \cup {NoChange}]
  BY DEF TypeOK, BeginChange

\* What is on disk, and what is open, after WriteScope.
LEMMA WrittenScope ==
  ASSUME TypeOK, NEW th \in Threads, WriteScope(th)
  PROVE  /\ scopes' \in [Scopes -> Records]
         /\ chg' \in [Threads -> [scope : Scopes, rec : Records] \cup {NoChange}]
         /\ chg[th].scope \in Scopes
         /\ scopes'[chg[th].scope] = chg[th].rec
         /\ \A s \in Scopes \ {chg[th].scope} : scopes'[s] = scopes[s]
         /\ chg'[th] = NoChange
         /\ \A other \in Threads \ {th} : chg'[other] = chg[other]
  BY DEF TypeOK, WriteScope

LEMMA NoChangeFacts ==
  /\ NoChange.scope = NoScope
  /\ NoChange.rec = Absent
  /\ NoChange.rec.status = "absent"
  /\ NoJob.op = "none"
  /\ NoLoop.op = "none"
  BY DEF NoChange, Absent, NoJob, NoLoop

LEMMA NoLoopType == NoLoop \in Loops
  BY DEF NoLoop, Loops

\* The loop of the console after one more scope.
LEMMA LoopAfterFacts ==
  ASSUME TypeOK, NEW s
  PROVE  /\ LoopAfter(s) \in Loops
         /\ LoopAfter(s).op \in {"none", loop.op}
         /\ LoopAfter(s).op = loop.op \/ LoopAfter(s).op = "none"
         /\ LoopAfter(s).left \subseteq loop.left
  BY NoLoopType DEF TypeOK, LoopAfter, NoLoop, Loops

\* What the collection of one scope may leave in the store and in the registry.
LEMMA Collected ==
  ASSUME TypeOK, NEW th \in Threads, NEW s \in Scopes, NEW from, NEW to,
         Collect(th, s, from, to)
  PROVE  /\ recorded' \subseteq Messages /\ recorded \subseteq recorded'
         /\ late' \subseteq recorded' /\ late \subseteq late'
         /\ \A m \in recorded' \ recorded :
              /\ ScopeOf[m] = s
              /\ created[m] \in Nat /\ from <= created[m] /\ created[m] <= to
              /\ m \in late' <=> Behind(m)
         /\ \A m \in late' : m \in late \/ m \in recorded' \ recorded
         /\ chg[th] = NoChange
         /\ \/ BeginChange(th, s, scopes[s])
            \/ BeginChange(th, s, WithStatus(s, "permission_denied"))
            \/ UNCHANGED chg
<1>1. PICK B \in Beginnings(InWindow(s, from, to)) :
        /\ recorded' = recorded \cup B
        /\ late' = late \cup {m \in B \ recorded : Behind(m)}
        /\ \/ BeginChange(th, s, scopes[s])
           \/ BeginChange(th, s, WithStatus(s, "permission_denied"))
           \/ UNCHANGED chg
  BY DEF Collect
<1>2. B \subseteq InWindow(s, from, to)
  BY <1>1 DEF Beginnings
<1>3. \A m \in B : /\ m \in Messages /\ ScopeOf[m] = s
                   /\ created[m] \in Nat /\ from <= created[m] /\ created[m] <= to
  BY <1>2 DEF InWindow
<1>4. late \subseteq recorded /\ recorded \subseteq Messages
  BY DEF TypeOK
<1>5. \A m \in recorded' \ recorded : m \in B /\ m \notin late
  BY <1>1, <1>4
<1>6. \A m \in recorded' \ recorded : m \in late' <=> Behind(m)
  BY <1>1, <1>5
<1>7. \A m \in late' : m \in late \/ m \in recorded' \ recorded
  BY <1>1
<1>8. recorded' \subseteq Messages /\ recorded \subseteq recorded'
  BY <1>1, <1>3, <1>4
<1>9. late' \subseteq recorded' /\ late \subseteq late'
  BY <1>1, <1>4
<1>10. chg[th] = NoChange
  BY DEF Collect
<1> QED
  BY <1>1, <1>3, <1>5, <1>6, <1>7, <1>8, <1>9, <1>10

LEMMA CollectedChange ==
  ASSUME TypeOK, NEW th \in Threads, NEW s \in Scopes, NEW from, NEW to,
         Collect(th, s, from, to)
  PROVE  chg' \in [Threads -> [scope : Scopes, rec : Records] \cup {NoChange}]
<1>1. \/ BeginChange(th, s, scopes[s])
      \/ BeginChange(th, s, WithStatus(s, "permission_denied"))
      \/ UNCHANGED chg
  BY Collected
<1>2. scopes[s] \in Records /\ WithStatus(s, "permission_denied") \in Records
  BY WithStatusType DEF Statuses, TypeOK
<1> QED
  BY <1>1, <1>2, BegunChange DEF TypeOK

LEMMA InitInv == Init => ProactiveInv /\ NothingOvertaken /\ ConsentFirst
<1> SUFFICES ASSUME Init PROVE ProactiveInv /\ NothingOvertaken /\ ConsentFirst
  OBVIOUS
<1> USE IdFacts, NoChangeFacts, AbsentType DEF Init, RegistryInit
<1>1. TypeOK
  <2>1. /\ scopes \in [Scopes -> Records]
        /\ chg \in [Threads -> [scope : Scopes, rec : Records] \cup {NoChange}]
        /\ job \in [Owners -> [op : {"approve", "enable", "disable"}, scope : Scopes]
                              \cup {NoJob}]
        /\ loop \in Loops /\ jobs \in 0..MaxJobs
    BY NoLoopType
  <2>2. /\ {lastDiscovery, lastRequests, lastCollect} \subseteq Times
        /\ created \in [Messages -> Times] /\ asked \in [Scopes -> Times]
        /\ watermark \in Times /\ sent \in [Messages -> Nat]
    BY DEF Times
  <2>3. /\ cards \subseteq Scopes /\ consent \subseteq Scopes /\ todo \subseteq Scopes
        /\ recorded \subseteq Messages /\ late \subseteq recorded
        /\ packet \subseteq recorded /\ unmarked \subseteq Scopes
        /\ byHand \in BOOLEAN /\ tpc \in Phases
    BY DEF Phases
  <2>4. /\ now \in 0..MaxTime /\ sentRequests \in 0..MaxRequests /\ window \in Nat
        /\ faults \in 0..MaxFailures /\ crashes \in 0..MaxFailures
    BY ProactiveAssumption
  <2>5. listed \in [Scopes -> Records]
    OBVIOUS
  <2> HIDE DEF Init, RegistryInit
  <2> QED
    BY <2>1, <2>2, <2>3, <2>4, <2>5 DEF TypeOK
<1>2. PhaseInv
  BY ThreadFacts DEF PhaseInv
<1>3. KnownInv /\ ConsentInv /\ MarkInv
  BY ThreadFacts DEF KnownInv, ConsentInv, MarkInv, Marked, Absent
<1>4. IntakeInv /\ WindowInv
  BY DEF IntakeInv, WindowInv, Passed
<1>5. NothingOvertaken /\ ConsentFirst
  BY DEF NothingOvertaken, ConsentFirst
<1> QED
  BY <1>1, <1>2, <1>3, <1>4, <1>5 DEF ProactiveInv

\* Where a tick goes on to, when a part of it is skipped or has ended.
LEMMA EnterCollectionType ==
  ASSUME TypeOK, EnterCollection
  PROVE  tpc' \in {"collection", "intake"} /\ todo' \subseteq Scopes /\ window' \in Nat
  BY IdFacts DEF TypeOK, EnterCollection, ListEnabled, ListRecords

LEMMA EnterRequestsType ==
  ASSUME TypeOK, EnterRequests, UNCHANGED scopes
  PROVE  /\ tpc' \in {"requests", "collection", "intake"}
         /\ todo' \subseteq Scopes
         /\ listed' \in [Scopes -> Records]
         /\ window' \in Nat
<1>1. CASE Due(lastRequests, CollectInterval)
  BY <1>1 DEF EnterRequests, TypeOK, ListRecords
<1>2. CASE ~Due(lastRequests, CollectInterval)
  <2>1. EnterCollection /\ UNCHANGED listed
    BY <1>2 DEF EnterRequests
  <2> QED
    BY <2>1, EnterCollectionType DEF TypeOK
<1> QED
  BY <1>1, <1>2

LEMMA TickerThreadType ==
  ASSUME TypeOK, PhaseInv, TickerThread
  PROVE  TypeOK'
<1> USE IdFacts, ThreadFacts, AbsentType
     DEF TypeOK, registryVars, OwnerSide, lastTimes, tickVars, intakeVars,
         requestVars, worldVars, Phases, Times
<1>1. CASE BeginTick
  <2>1. CASE Due(lastDiscovery, DiscoveryInterval)
    BY <1>1, <2>1 DEF BeginTick
  <2>2. CASE ~Due(lastDiscovery, DiscoveryInterval)
    <3>1. EnterRequests /\ UNCHANGED scopes
      BY <1>1, <2>2 DEF BeginTick
    <3> QED
      BY <1>1, <3>1, EnterRequestsType DEF BeginTick
  <2> QED
    BY <2>1, <2>2
<1>2. CASE EndDiscovery
  <2>1. EnterRequests /\ UNCHANGED scopes
    BY <1>2 DEF EndDiscovery
  <2> QED
    BY <1>2, <2>1, EnterRequestsType DEF EndDiscovery
<1>3. CASE EndRequests
  <2>1. EnterCollection
    BY <1>3 DEF EndRequests
  <2> QED
    BY <1>3, <2>1, EnterCollectionType DEF EndRequests
<1>4. CASE EndCollection
  BY <1>4 DEF EndCollection
<1>5. CASE TickerWrites
  <2>1. WriteScope(Ticker)
    BY <1>5 DEF TickerWrites
  <2> QED
    BY <1>5, <2>1, WrittenScope DEF TickerWrites
<1>6. CASE NothingNew \/ EnqueueRefused
  BY <1>6 DEF NothingNew, EnqueueRefused
<1>7. CASE EnqueuePacket
  <2>1. packet' \subseteq recorded
    BY <1>7 DEF EnqueuePacket, Scans, New
  <2>2. sent' \in [Messages -> Nat]
    BY <1>7 DEF EnqueuePacket
  <2> QED
    BY <1>7, <2>1, <2>2 DEF EnqueuePacket
<1>8. CASE SaveWatermark
  <2>1. watermark' \in Nat \cup {Never}
    BY <1>8 DEF SaveWatermark
  <2> QED
    BY <1>8, <2>1 DEF SaveWatermark
<1>9. CASE IntakeRaises
  BY <1>9 DEF IntakeRaises, MayFail
<1>10. ASSUME NEW s \in Scopes, DiscoverGroup(s)
       PROVE  TypeOK'
  <2>1. BeginChange(Ticker, s, Merged(s))
    BY <1>10 DEF DiscoverGroup
  <2> QED
    BY <1>10, <2>1, MergedType, BegunChange DEF DiscoverGroup
<1>11. ASSUME NEW s \in Scopes, SkipRequest(s)
       PROVE  TypeOK'
  BY <1>11 DEF SkipRequest
<1>12. ASSUME NEW s \in Scopes, RequestEnable(s)
       PROVE  TypeOK'
  BY <1>12 DEF RequestEnable
<1>13. ASSUME NEW s \in Scopes, RequestRaises(s)
       PROVE  TypeOK'
  BY <1>13 DEF RequestRaises, MayFail
<1>14. ASSUME NEW s \in Scopes, MarkRaises(s)
       PROVE  TypeOK'
  BY <1>14 DEF MarkRaises, MayFail
<1>15. ASSUME NEW s \in Scopes, MarkRequested(s)
       PROVE  TypeOK'
  <2>1. /\ [scopes[s] EXCEPT !.requested = now] \in Records
        /\ BeginChange(Ticker, s, [scopes[s] EXCEPT !.requested = now])
    BY <1>15 DEF MarkRequested, Records
  <2>2. sentRequests' \in 0..MaxRequests
    BY <1>15 DEF MarkRequested, PhaseInv
  <2> QED
    BY <1>15, <2>1, <2>2, BegunChange DEF MarkRequested
<1>16. ASSUME NEW s \in Scopes, CollectScope(s)
       PROVE  TypeOK'
  <2>1. Collect(Ticker, s, window - CollectInterval, window)
    BY <1>16 DEF CollectScope
  <2>2. /\ recorded' \subseteq Messages /\ recorded \subseteq recorded'
        /\ late' \subseteq recorded'
        /\ chg' \in [Threads -> [scope : Scopes, rec : Records] \cup {NoChange}]
    BY <2>1, Collected, CollectedChange
  <2> QED
    BY <1>16, <2>2 DEF CollectScope
<1> QED
  BY <1>1, <1>2, <1>3, <1>4, <1>5, <1>6, <1>7, <1>8, <1>9, <1>10, <1>11,
     <1>12, <1>13, <1>14, <1>15, <1>16 DEF TickerThread

LEMMA OwnerThreadType ==
  ASSUME TypeOK, OwnerThread
  PROVE  TypeOK'
<1> USE IdFacts, ThreadFacts
     DEF TypeOK, lastTimes, tickVars, intakeVars, requestVars,
         worldVars, Phases, Times
<1>1. ASSUME NEW s \in Scopes, ClickCard(s),
             UNCHANGED <<tickVars, intakeVars, requestVars, worldVars>>
      PROVE  TypeOK'
  <2>1. jobs' \in 0..MaxJobs /\ Listener \in Owners
    BY <1>1 DEF ClickCard, MayAct, Owners
  <2>2. /\ consent' \subseteq Scopes
        /\ job' \in [Owners -> [op : {"approve", "enable", "disable"}, scope : Scopes]
                              \cup {NoJob}]
    <3>1. CASE /\ consent' = consent \cup {s}
               /\ job' = [job EXCEPT ![Listener] = [op |-> "approve", scope |-> s]]
      BY <2>1, <3>1
    <3>2. CASE UNCHANGED <<consent, job>>
      BY <3>2
    <3> QED
      BY <1>1, <3>1, <3>2 DEF ClickCard
  <2>3. cards' \subseteq Scopes /\ UNCHANGED <<scopes, chg, loop>>
    BY <1>1 DEF ClickCard
  <2> QED
    BY <1>1, <2>1, <2>2, <2>3
<1>2. ASSUME NEW s \in Scopes, ApproveAtConsole(s),
             UNCHANGED <<tickVars, intakeVars, requestVars, worldVars>>
      PROVE  TypeOK'
  BY <1>2 DEF ApproveAtConsole, MayAct, Owners
<1>3. ASSUME NEW s \in Scopes, DisableAtConsole(s),
             UNCHANGED <<tickVars, intakeVars, requestVars, worldVars>>
      PROVE  TypeOK'
  BY <1>3 DEF DisableAtConsole, MayAct, Owners
<1>4. ASSUME NEW s \in Scopes, OwnerAsks(s)
      PROVE  TypeOK'
  BY <1>4 DEF OwnerAsks, RequestAtConsole, MayAct
<1>5. ASSUME NEW o \in Owners, ReadForJob(o),
             UNCHANGED <<tickVars, intakeVars, requestVars, worldVars>>
      PROVE  TypeOK'
  <2>1. job[o].op \in {"approve", "enable", "disable"} /\ job[o].scope \in Scopes
    BY <1>5 DEF ReadForJob
  <2>2. WithStatus(job[o].scope, StatusAfter(job[o].op)) \in Records
    BY <2>1, JobStatus, WithStatusType
  <2>3. chg' \in [Threads -> [scope : Scopes, rec : Records] \cup {NoChange}]
    BY <1>5, <2>1, <2>2, BegunChange DEF ReadForJob
  <2> QED
    BY <1>5, <2>3 DEF ReadForJob
<1>6. ASSUME NEW o \in Owners, OwnerWrites(o)
      PROVE  TypeOK'
  <2>1. job' \in [Owners -> [op : {"approve", "enable", "disable"}, scope : Scopes]
                            \cup {NoJob}]
    BY <1>6, NoChangeFacts DEF OwnerWrites, WriteForJob
  <2>2. WriteScope(o)
    BY <1>6 DEF OwnerWrites, WriteForJob
  <2>3. unmarked' \subseteq Scopes
    <3>1. chg[o].scope \in Scopes
      BY <2>2, WrittenScope
    <3>2. unmarked' = unmarked \/ unmarked' = unmarked \cup {chg[o].scope}
      BY <1>6 DEF OwnerWrites
    <3> QED
      BY <3>1, <3>2
  <2> QED
    BY <1>6, <2>1, <2>2, <2>3, WrittenScope DEF OwnerWrites, WriteForJob
<1>7. CASE DiscoverAtConsole /\ UNCHANGED <<tickVars, intakeVars, requestVars, worldVars>>
  <2>1. loop' \in Loops
    BY <1>7, NoLoopType DEF DiscoverAtConsole, Loops
  <2> QED
    BY <1>7, <2>1 DEF DiscoverAtConsole, MayAct
<1>8. ASSUME NEW s \in Scopes, DiscoverNext(s),
             UNCHANGED <<tickVars, intakeVars, requestVars, worldVars>>
      PROVE  TypeOK'
  <2>1. BeginChange(Console, s, Merged(s)) /\ loop' \in Loops
    BY <1>8, LoopAfterFacts DEF DiscoverNext
  <2>2. chg' \in [Threads -> [scope : Scopes, rec : Records] \cup {NoChange}]
    BY <2>1, MergedType, BegunChange
  <2> QED
    BY <1>8, <2>1, <2>2 DEF DiscoverNext
<1>9. CASE EndLoop /\ UNCHANGED <<tickVars, intakeVars, requestVars, worldVars>>
  BY <1>9, NoLoopType DEF EndLoop
<1>10. CASE CollectAtConsole
  <2>1. PICK w \in GmWindows :
          loop' = [op |-> "collect", left |-> ListEnabled, from |-> w[1], to |-> w[2]]
    BY <1>10 DEF CollectAtConsole
  <2>2. w[1] \in Int /\ w[2] \in Int /\ ListEnabled \subseteq Scopes
    BY DEF ListEnabled, ListRecords
  <2>3. loop' \in Loops
    BY <2>1, <2>2 DEF Loops
  <2> QED
    BY <1>10, <2>3 DEF CollectAtConsole, MayAct
<1>11. ASSUME NEW s \in Scopes, CollectNext(s)
       PROVE  TypeOK'
  <2>1. Collect(Console, s, loop.from, loop.to) /\ loop' \in Loops
    BY <1>11, LoopAfterFacts DEF CollectNext
  <2>2. /\ recorded' \subseteq Messages /\ recorded \subseteq recorded'
        /\ late' \subseteq recorded'
        /\ chg' \in [Threads -> [scope : Scopes, rec : Records] \cup {NoChange}]
    BY <2>1, Collected, CollectedChange
  <2> QED
    BY <1>11, <2>1, <2>2 DEF CollectNext
<1> QED
  BY <1>1, <1>2, <1>3, <1>4, <1>5, <1>6, <1>7, <1>8, <1>9, <1>10, <1>11 DEF OwnerStep, OwnerThread

LEMMA TypeStep ==
  ASSUME ProactiveInv, Next
  PROVE  TypeOK'
<1> USE IdFacts, ThreadFacts, AbsentType
     DEF ProactiveInv, registryVars, lastTimes, tickVars, intakeVars,
         requestVars, worldVars
<1>1. CASE TimePasses
  BY <1>1 DEF TimePasses, TypeOK
<1>2. CASE CrashAndRestart
  BY <1>2, NoLoopType
  DEF CrashAndRestart, MayFail, RegistryRestart, TickerStarts, TypeOK, Phases, Times
<1>3. ASSUME NEW m \in Messages, Post(m)
      PROVE  TypeOK'
  BY <1>3 DEF Post, TypeOK, Times
<1> QED
  BY <1>1, <1>2, <1>3, TickerThreadType, OwnerThreadType DEF Next

LEMMA OwnerLeavesTicker ==
  ASSUME TypeOK, OwnerThread
  PROVE  /\ chg'[Ticker] = chg[Ticker]
         /\ UNCHANGED <<tickVars, packet, watermark, sent, worldVars>>
<1> USE ThreadFacts DEF tickVars, intakeVars, worldVars, lastTimes
<1>0. \A o \in Owners : \A s, rec : BeginChange(o, s, rec) => chg'[Ticker] = chg[Ticker]
  BY DEF BeginChange, TypeOK
<1>1. CASE OwnerStep /\ UNCHANGED <<tickVars, intakeVars, requestVars, worldVars>>
  BY <1>0, <1>1 DEF OwnerStep, ClickCard, ApproveAtConsole, DisableAtConsole, DiscoverNext,
                    DiscoverAtConsole, EndLoop, ReadForJob, Owners
<1>2. ASSUME NEW s \in Scopes, OwnerAsks(s)
      PROVE  /\ chg'[Ticker] = chg[Ticker]
             /\ UNCHANGED <<tickVars, packet, watermark, sent, worldVars>>
  BY <1>2 DEF OwnerAsks, RequestAtConsole
<1>3. ASSUME NEW s \in Scopes, CollectNext(s)
      PROVE  /\ chg'[Ticker] = chg[Ticker]
             /\ UNCHANGED <<tickVars, packet, watermark, sent, worldVars>>
  <2>1. \/ BeginChange(Console, s, scopes[s])
        \/ BeginChange(Console, s, WithStatus(s, "permission_denied"))
        \/ UNCHANGED chg
    BY <1>3, Collected DEF CollectNext
  <2> QED
    BY <1>0, <1>3, <2>1 DEF CollectNext, Owners
<1>4. ASSUME NEW o \in Owners, OwnerWrites(o)
      PROVE  /\ chg'[Ticker] = chg[Ticker]
             /\ UNCHANGED <<tickVars, packet, watermark, sent, worldVars>>
  BY <1>4, WrittenScope DEF OwnerWrites, WriteForJob
<1>5. CASE CollectAtConsole
  BY <1>5 DEF CollectAtConsole
<1> QED
  BY <1>1, <1>2, <1>3, <1>4, <1>5 DEF OwnerThread

LEMMA PhaseStep ==
  ASSUME ProactiveInv, Next
  PROVE  PhaseInv'
<1> USE IdFacts, ThreadFacts
     DEF ProactiveInv, PhaseInv, registryVars, OwnerSide, lastTimes, tickVars,
         intakeVars, requestVars, worldVars
<1>1. CASE TickerThread
  <2>1. CASE BeginTick \/ EndDiscovery \/ EndRequests
    BY <1>1, <2>1 DEF BeginTick, EndDiscovery, EndRequests, EnterRequests, EnterCollection
  <2>2. CASE EndCollection \/ NothingNew \/ EnqueueRefused \/ IntakeRaises
    BY <2>2 DEF EndCollection, NothingNew, EnqueueRefused, IntakeRaises
  <2>3. CASE TickerWrites
    BY <2>3, WrittenScope DEF TickerWrites
  <2>4. CASE EnqueuePacket
    <3>1. packet' # {}
      BY <2>4, FS_EmptySet DEF EnqueuePacket, Scans
    <3> QED
      BY <2>4, <3>1 DEF EnqueuePacket
  <2>5. CASE SaveWatermark
    BY <2>5 DEF SaveWatermark
  <2>6. ASSUME NEW s \in Scopes,
               DiscoverGroup(s) \/ CollectScope(s) \/ SkipRequest(s) \/ RequestRaises(s)
        PROVE  PhaseInv'
    BY <2>6 DEF DiscoverGroup, CollectScope, SkipRequest, RequestRaises, Asking
  <2>7. ASSUME NEW s \in Scopes, RequestEnable(s) \/ MarkRaises(s) \/ MarkRequested(s)
        PROVE  PhaseInv'
    BY <2>7 DEF RequestEnable, MarkRaises, MarkRequested, Asking
  <2> QED
    BY <1>1, <2>1, <2>2, <2>3, <2>4, <2>5, <2>6, <2>7 DEF TickerThread
<1>2. CASE OwnerThread
  <2>1. chg'[Ticker] = chg[Ticker]
    BY <1>2, OwnerLeavesTicker
  <2>2. UNCHANGED <<tpc, sentRequests, packet>>
    BY <1>2, OwnerLeavesTicker
  <2>3. loop'.op = "collect" => byHand'
    BY <1>2, LoopAfterFacts, NoChangeFacts
    DEF OwnerThread, OwnerStep, ClickCard, ApproveAtConsole, DisableAtConsole, DiscoverNext,
        DiscoverAtConsole, EndLoop, ReadForJob, OwnerAsks, RequestAtConsole, CollectNext,
        OwnerWrites, WriteForJob, CollectAtConsole, NoLoop
  <2> QED
    BY <2>1, <2>2, <2>3
<1>3. CASE CrashAndRestart
  BY <1>3, NoChangeFacts DEF CrashAndRestart, RegistryRestart, TickerStarts
<1>4. CASE TimePasses \/ \E m \in Messages : Post(m)
  BY <1>4 DEF TimePasses, Post
<1> QED
  BY <1>1, <1>2, <1>3, <1>4 DEF Next

\* A thread that writes leaves a record behind.
LEMMA KnownWritten ==
  ASSUME TypeOK, KnownInv, NEW th \in Threads, WriteScope(th)
  PROVE  /\ Known \subseteq Known'
         /\ \A other \in Threads : chg'[other] # NoChange => chg'[other].rec.status # "absent"
<1>1. chg[th] # NoChange /\ chg[th].rec.status # "absent"
  BY DEF WriteScope, KnownInv
<1>2. /\ scopes'[chg[th].scope] = chg[th].rec
      /\ \A s \in Scopes \ {chg[th].scope} : scopes'[s] = scopes[s]
      /\ chg'[th] = NoChange
      /\ \A other \in Threads \ {th} : chg'[other] = chg[other]
  BY WrittenScope
<1>3. \A s \in Scopes : scopes[s].status # "absent" => scopes'[s].status # "absent"
  BY <1>1, <1>2
<1>4. Known \subseteq Known'
  BY <1>3 DEF Known
<1>5. \A other \in Threads : chg'[other] # NoChange => chg'[other].rec.status # "absent"
  BY <1>2 DEF KnownInv
<1> QED
  BY <1>4, <1>5

LEMMA KnownBegun ==
  ASSUME TypeOK, KnownInv, NEW th \in Threads, NEW s \in Scopes, NEW rec \in Records,
         rec.status # "absent", BeginChange(th, s, rec)
  PROVE  \A other \in Threads : chg'[other] # NoChange => chg'[other].rec.status # "absent"
<1>1. chg'[th].rec.status # "absent"
  BY BegunRecord
<1>2. \A other \in Threads \ {th} : chg'[other] = chg[other]
  BY BegunRecord
<1> QED
  BY <1>1, <1>2 DEF KnownInv

LEMMA KnownCollected ==
  ASSUME TypeOK, KnownInv, NEW th \in Threads, NEW s \in Scopes, NEW from, NEW to,
         Collect(th, s, from, to), s \in Known
  PROVE  \A other \in Threads : chg'[other] # NoChange => chg'[other].rec.status # "absent"
<1>1. \/ BeginChange(th, s, scopes[s])
      \/ BeginChange(th, s, WithStatus(s, "permission_denied"))
      \/ UNCHANGED chg
  BY Collected
<1>2. scopes[s] \in Records /\ scopes[s].status # "absent"
  BY DEF Known, TypeOK
<1>3. /\ WithStatus(s, "permission_denied") \in Records
      /\ WithStatus(s, "permission_denied").status # "absent"
  BY WithStatusType DEF Statuses
<1> QED
  BY <1>1, <1>2, <1>3, KnownBegun DEF KnownInv

LEMMA KnownStep ==
  ASSUME ProactiveInv, Next
  PROVE  KnownInv'
<1> USE IdFacts, ThreadFacts
     DEF ProactiveInv, registryVars, OwnerSide, lastTimes, tickVars,
         intakeVars, requestVars, worldVars
<1>1. CASE /\ UNCHANGED <<scopes, chg, asked>>
           /\ tpc' \in {"requests", "mark", "collection"} => todo' \subseteq Known
           /\ UNCHANGED loop \/ loop'.op # "collect"
  BY <1>1 DEF KnownInv, Known
<1>2. CASE TickerThread
  <2>1. CASE BeginTick \/ EndDiscovery \/ EndRequests
    <3>1. tpc' \in {"requests", "mark", "collection"} => todo' \subseteq Known
      BY <2>1 DEF BeginTick, EndDiscovery, EndRequests, EnterRequests, EnterCollection,
                  ListEnabled, ListRecords, Known
    <3> QED
      BY <1>1, <2>1, <3>1 DEF BeginTick, EndDiscovery, EndRequests
  <2>2. CASE EndCollection \/ NothingNew \/ EnqueueRefused \/ IntakeRaises
             \/ EnqueuePacket \/ SaveWatermark
    BY <1>1, <2>2 DEF EndCollection, NothingNew, EnqueueRefused, IntakeRaises,
                      EnqueuePacket, SaveWatermark
  <2>3. CASE TickerWrites
    <3>1. WriteScope(Ticker) /\ UNCHANGED <<tpc, todo, asked, loop>>
      BY <2>3 DEF TickerWrites
    <3> QED
      BY <3>1, KnownWritten DEF KnownInv
  <2>4. ASSUME NEW s \in Scopes, DiscoverGroup(s)
        PROVE  KnownInv'
    <3>1. /\ BeginChange(Ticker, s, Merged(s))
          /\ UNCHANGED <<scopes, asked, loop>> /\ tpc' = "discover"
      BY <2>4 DEF DiscoverGroup
    <3> QED
      BY <3>1, MergedType, KnownBegun DEF KnownInv, Known
  <2>5. ASSUME NEW s \in Scopes, CollectScope(s)
        PROVE  KnownInv'
    <3>1. /\ Collect(Ticker, s, window - CollectInterval, window)
          /\ UNCHANGED <<scopes, asked, tpc, loop>> /\ s \in todo /\ todo' \subseteq todo
          /\ tpc = "collection"
      BY <2>5 DEF CollectScope, First
    <3>2. s \in Known
      BY <3>1 DEF KnownInv
    <3>3. \A th \in Threads : chg'[th] # NoChange => chg'[th].rec.status # "absent"
      BY <3>1, <3>2, KnownCollected
    <3> QED
      BY <3>1, <3>3 DEF KnownInv, Known
  <2>6. ASSUME NEW s \in Scopes, SkipRequest(s) \/ RequestRaises(s) \/ MarkRaises(s)
        PROVE  KnownInv'
    BY <1>1, <2>6 DEF SkipRequest, RequestRaises, MarkRaises, Asking, KnownInv
  <2>7. ASSUME NEW s \in Scopes, RequestEnable(s)
        PROVE  KnownInv'
    <3>1. /\ UNCHANGED <<scopes, chg, todo, loop>> /\ tpc = "requests"
          /\ s \in todo /\ asked' = [asked EXCEPT ![s] = now]
      BY <2>7 DEF RequestEnable, Asking, First
    <3>2. s \in Known
      BY <3>1 DEF KnownInv
    <3> QED
      BY <3>1, <3>2 DEF KnownInv, Known, TypeOK
  <2>8. ASSUME NEW s \in Scopes, MarkRequested(s)
        PROVE  KnownInv'
    <3>1. /\ BeginChange(Ticker, s, [scopes[s] EXCEPT !.requested = now])
          /\ UNCHANGED <<scopes, asked, loop>> /\ tpc = "mark"
          /\ s \in todo /\ todo' \subseteq todo
      BY <2>8 DEF MarkRequested, First
    <3>2. /\ [scopes[s] EXCEPT !.requested = now] \in Records
          /\ [scopes[s] EXCEPT !.requested = now].status # "absent"
      BY <3>1 DEF KnownInv, Known, TypeOK, Records, Times
    <3> QED
      BY <3>1, <3>2, KnownBegun DEF KnownInv, Known
  <2> QED
    BY <1>2, <2>1, <2>2, <2>3, <2>4, <2>5, <2>6, <2>7, <2>8 DEF TickerThread
<1>3. CASE OwnerThread
  <2>0. UNCHANGED <<tpc, todo>>
    BY <1>3, OwnerLeavesTicker
  <2>1. ASSUME NEW s \in Scopes, ClickCard(s) \/ ApproveAtConsole(s) \/ DisableAtConsole(s),
               UNCHANGED asked
        PROVE  KnownInv'
    BY <2>0, <2>1, <1>1 DEF ClickCard, ApproveAtConsole, DisableAtConsole, KnownInv
  <2>2. ASSUME NEW o \in Owners, ReadForJob(o), UNCHANGED asked
        PROVE  KnownInv'
    <3>1. /\ job[o].op \in {"approve", "enable", "disable"} /\ job[o].scope \in Scopes
          /\ BeginChange(o, job[o].scope, WithStatus(job[o].scope, StatusAfter(job[o].op)))
          /\ UNCHANGED <<scopes, loop>>
      BY <2>2 DEF ReadForJob, TypeOK
    <3>2. /\ WithStatus(job[o].scope, StatusAfter(job[o].op)) \in Records
          /\ WithStatus(job[o].scope, StatusAfter(job[o].op)).status # "absent"
      <4>1. StatusAfter(job[o].op) \in Statuses /\ StatusAfter(job[o].op) # "absent"
        BY <3>1, JobStatus
      <4> QED
        BY <3>1, <4>1, WithStatusType
    <3> QED
      BY <2>0, <2>2, <3>1, <3>2, KnownBegun DEF KnownInv, Known
  <2>3. ASSUME NEW o \in Owners, OwnerWrites(o)
        PROVE  KnownInv'
    <3>1. WriteScope(o) /\ UNCHANGED <<loop, asked>>
      BY <2>3 DEF OwnerWrites, WriteForJob
    <3> QED
      BY <2>0, <3>1, KnownWritten DEF KnownInv
  <2>4. CASE (DiscoverAtConsole \/ EndLoop) /\ UNCHANGED asked
    BY <2>0, <2>4, <1>1, NoChangeFacts DEF DiscoverAtConsole, EndLoop, KnownInv, NoLoop
  <2>5. ASSUME NEW s \in Scopes, DiscoverNext(s), UNCHANGED asked
        PROVE  KnownInv'
    <3>1. /\ BeginChange(Console, s, Merged(s)) /\ UNCHANGED scopes
          /\ loop'.op # "collect"
      BY <2>5, LoopAfterFacts DEF DiscoverNext
    <3>2. Merged(s) \in Records /\ Merged(s).status # "absent"
      BY MergedType
    <3> QED
      BY <2>0, <2>5, <3>1, <3>2, KnownBegun DEF KnownInv, Known
  <2>6. ASSUME NEW s \in Scopes, OwnerAsks(s)
        PROVE  KnownInv'
    <3>1. /\ UNCHANGED <<scopes, chg, loop>> /\ s \in Known
          /\ asked' = [asked EXCEPT ![s] = now]
      BY <2>6 DEF OwnerAsks, RequestAtConsole
    <3> QED
      BY <2>0, <3>1 DEF KnownInv, Known, TypeOK
  <2>7. CASE CollectAtConsole
    <3>1. /\ UNCHANGED <<scopes, chg, asked>> /\ loop'.left = ListRecords("enabled")
      BY <2>7 DEF CollectAtConsole, ListEnabled
    <3> QED
      BY <2>0, <3>1 DEF KnownInv, Known, ListRecords
  <2>8. ASSUME NEW s \in Scopes, CollectNext(s)
        PROVE  KnownInv'
    <3>1. /\ Collect(Console, s, loop.from, loop.to)
          /\ UNCHANGED <<scopes, asked>> /\ s \in loop.left
          /\ loop'.left \subseteq loop.left /\ loop.op = "collect"
      BY <2>8, LoopAfterFacts DEF CollectNext, First
    <3>2. s \in Known /\ loop'.left \subseteq Known
      BY <3>1 DEF KnownInv
    <3>3. \A th \in Threads : chg'[th] # NoChange => chg'[th].rec.status # "absent"
      BY <3>1, <3>2, KnownCollected
    <3> QED
      BY <2>0, <3>1, <3>2, <3>3 DEF KnownInv, Known
  <2> QED
    BY <1>3, <2>1, <2>2, <2>3, <2>4, <2>5, <2>6, <2>7, <2>8 DEF OwnerThread, OwnerStep
<1>4. CASE CrashAndRestart
  BY <1>4, NoChangeFacts DEF CrashAndRestart, RegistryRestart, TickerStarts, KnownInv, Known
<1>5. CASE TimePasses \/ \E m \in Messages : Post(m)
  BY <1>1, <1>5 DEF TimePasses, Post, KnownInv
<1> QED
  BY <1>2, <1>3, <1>4, <1>5 DEF Next

\* A scope the owner said yes to is never taken back, so what is enabled stays
\* within them.
LEMMA ConsentStep ==
  ASSUME ProactiveInv, Next
  PROVE  ConsentInv'
<1> USE IdFacts, ThreadFacts
     DEF ProactiveInv, registryVars, OwnerSide, lastTimes, tickVars,
         intakeVars, requestVars, worldVars
<1>1. CASE /\ UNCHANGED <<scopes, chg, job, consent>>
           /\ tpc' = "collection" => todo' \subseteq consent
           /\ UNCHANGED loop \/ (loop'.op = "collect" => loop'.left \subseteq consent)
  BY <1>1 DEF ConsentInv
\* A thread that begins a change brings nothing new to `enabled'.
<1>6. ASSUME NEW th \in Threads, NEW s \in Scopes, NEW rec \in Records,
             BeginChange(th, s, rec),
             rec.status = "enabled" => s \in consent,
             UNCHANGED <<scopes, job, consent>>,
             tpc' = "collection" => todo' \subseteq consent,
             loop'.op = "collect" => loop'.left \subseteq consent
      PROVE  ConsentInv'
  <2>1. /\ chg'[th].scope = s
        /\ chg'[th].rec = rec
        /\ \A other \in Threads \ {th} : chg'[other] = chg[other]
    BY <1>6, BegunRecord
  <2>2. \A other \in Threads :
          chg'[other].rec.status = "enabled" => chg'[other].scope \in consent
    BY <1>6, <2>1 DEF ConsentInv
  <2> QED
    BY <1>6, <2>2 DEF ConsentInv
<1>7. ASSUME NEW th \in Threads, NEW s \in Scopes, NEW from, NEW to,
             Collect(th, s, from, to),
             UNCHANGED <<scopes, job, consent>>,
             tpc' = "collection" => todo' \subseteq consent,
             loop'.op = "collect" => loop'.left \subseteq consent
      PROVE  ConsentInv'
  <2>1. \/ BeginChange(th, s, scopes[s])
        \/ BeginChange(th, s, WithStatus(s, "permission_denied"))
        \/ UNCHANGED chg
    BY <1>7, Collected
  <2>2. scopes[s] \in Records /\ (scopes[s].status = "enabled" => s \in consent)
    BY DEF ConsentInv, TypeOK
  <2>3. /\ WithStatus(s, "permission_denied") \in Records
        /\ WithStatus(s, "permission_denied").status # "enabled"
    BY WithStatusType DEF Statuses
  <2> QED
    BY <1>1, <1>6, <1>7, <2>1, <2>2, <2>3
<1>8. ASSUME NEW th \in Threads, WriteScope(th), UNCHANGED consent,
             \A p \in Owners :
               job'[p].op \in {"approve", "enable"} => job'[p].scope \in consent,
             tpc' = "collection" => todo' \subseteq consent,
             loop'.op = "collect" => loop'.left \subseteq consent
      PROVE  ConsentInv'
  <2>1. /\ scopes'[chg[th].scope] = chg[th].rec
        /\ \A s \in Scopes \ {chg[th].scope} : scopes'[s] = scopes[s]
        /\ chg'[th] = NoChange
        /\ \A other \in Threads \ {th} : chg'[other] = chg[other]
    BY <1>8, WrittenScope
  <2>2. \A s \in Scopes : scopes'[s].status = "enabled" => s \in consent
    BY <2>1 DEF ConsentInv
  <2>3. \A other \in Threads :
          chg'[other].rec.status = "enabled" => chg'[other].scope \in consent
    BY <2>1, NoChangeFacts DEF ConsentInv
  <2> QED
    BY <1>8, <2>2, <2>3 DEF ConsentInv
<1>2. CASE TickerThread
  <2>1. CASE BeginTick \/ EndDiscovery \/ EndRequests
    <3>1. tpc' = "collection" => todo' \subseteq ListRecords("enabled")
      BY <2>1 DEF BeginTick, EndDiscovery, EndRequests, EnterRequests, EnterCollection,
                  ListEnabled
    <3> QED
      BY <1>1, <2>1, <3>1 DEF BeginTick, EndDiscovery, EndRequests, ConsentInv, ListRecords
  <2>2. CASE EndCollection \/ NothingNew \/ EnqueueRefused \/ IntakeRaises
             \/ EnqueuePacket \/ SaveWatermark
    BY <1>1, <2>2 DEF EndCollection, NothingNew, EnqueueRefused, IntakeRaises,
                      EnqueuePacket, SaveWatermark
  <2>3. CASE TickerWrites
    <3>1. WriteScope(Ticker) /\ UNCHANGED <<tpc, todo, job, loop, consent>>
      BY <2>3 DEF TickerWrites
    <3> QED
      BY <1>8, <3>1 DEF ConsentInv
  <2>4. ASSUME NEW s \in Scopes, DiscoverGroup(s)
        PROVE  ConsentInv'
    <3>1. /\ BeginChange(Ticker, s, Merged(s))
          /\ UNCHANGED <<scopes, job, loop, consent>> /\ tpc' = "discover"
      BY <2>4 DEF DiscoverGroup
    <3>2. Merged(s) \in Records /\ (Merged(s).status = "enabled" => s \in consent)
      <4>1. CASE s \in Known /\ Merged(s) = scopes[s]
        BY <4>1, MergedType DEF ConsentInv
      <4>2. CASE Merged(s) = [status |-> "candidate", requested |-> Never]
        BY <4>2, MergedType
      <4> QED
        BY <4>1, <4>2, MergedType
    <3> QED
      BY <1>6, <3>1, <3>2 DEF ConsentInv
  <2>5. ASSUME NEW s \in Scopes, CollectScope(s)
        PROVE  ConsentInv'
    <3>1. /\ Collect(Ticker, s, window - CollectInterval, window)
          /\ UNCHANGED <<scopes, job, loop, consent>>
          /\ tpc' = "collection" => todo' \subseteq consent
      BY <2>5 DEF CollectScope, ConsentInv
    <3> QED
      BY <1>7, <3>1 DEF ConsentInv
  <2>6. ASSUME NEW s \in Scopes, SkipRequest(s) \/ RequestRaises(s) \/ MarkRaises(s)
                                 \/ RequestEnable(s)
        PROVE  ConsentInv'
    BY <1>1, <2>6 DEF SkipRequest, RequestRaises, MarkRaises, RequestEnable, Asking
  <2>7. ASSUME NEW s \in Scopes, MarkRequested(s)
        PROVE  ConsentInv'
    <3>1. /\ BeginChange(Ticker, s, [scopes[s] EXCEPT !.requested = now])
          /\ UNCHANGED <<scopes, job, loop, consent>> /\ tpc' = "requests"
      BY <2>7 DEF MarkRequested
    <3>2. /\ [scopes[s] EXCEPT !.requested = now] \in Records
          /\ [scopes[s] EXCEPT !.requested = now].status = scopes[s].status
      BY DEF TypeOK, Records, Times
    <3>3. scopes[s].status = "enabled" => s \in consent
      BY DEF ConsentInv
    <3> QED
      BY <1>6, <3>1, <3>2, <3>3 DEF ConsentInv
  <2> QED
    BY <1>2, <2>1, <2>2, <2>3, <2>4, <2>5, <2>6, <2>7 DEF TickerThread
<1>3. CASE OwnerThread
  <2>0. UNCHANGED <<tpc, todo>>
    BY <1>3, OwnerLeavesTicker
  <2>1. ASSUME NEW s \in Scopes, ClickCard(s) \/ ApproveAtConsole(s)
        PROVE  ConsentInv'
    <3>1. \/ UNCHANGED <<consent, job>>
          \/ \E o \in Owners :
               /\ consent' = consent \cup {s}
               /\ job' = [job EXCEPT ![o] = [op |-> "approve", scope |-> s]]
      BY <2>1 DEF ClickCard, ApproveAtConsole, Owners
    <3>2. UNCHANGED <<scopes, chg, loop>> /\ consent \subseteq consent'
      BY <2>1 DEF ClickCard, ApproveAtConsole
    <3>3. \A o \in Owners : job'[o].op \in {"approve", "enable"} => job'[o].scope \in consent'
      BY <3>1, <3>2 DEF ConsentInv, TypeOK
    <3> QED
      BY <2>0, <3>2, <3>3 DEF ConsentInv
  <2>2. ASSUME NEW s \in Scopes, DisableAtConsole(s)
        PROVE  ConsentInv'
    <3>1. \A o \in Owners : job'[o].op \in {"approve", "enable"} => job'[o].scope \in consent
      BY <2>2 DEF DisableAtConsole, ConsentInv, TypeOK
    <3> QED
      BY <2>0, <2>2, <3>1 DEF DisableAtConsole, ConsentInv
  <2>3. ASSUME NEW s \in Scopes, OwnerAsks(s)
        PROVE  ConsentInv'
    BY <2>0, <2>3 DEF OwnerAsks, RequestAtConsole, ConsentInv
  <2>4. ASSUME NEW o \in Owners, ReadForJob(o)
        PROVE  ConsentInv'
    <3>1. /\ job[o].op \in {"approve", "enable", "disable"} /\ job[o].scope \in Scopes
          /\ BeginChange(o, job[o].scope, WithStatus(job[o].scope, StatusAfter(job[o].op)))
          /\ UNCHANGED <<scopes, job, loop, consent>>
      BY <2>4 DEF ReadForJob, TypeOK
    <3>2. /\ WithStatus(job[o].scope, StatusAfter(job[o].op)) \in Records
          /\ WithStatus(job[o].scope, StatusAfter(job[o].op)).status = "enabled"
               => job[o].scope \in consent
      BY <3>1, JobStatus, WithStatusType DEF ConsentInv
    <3>3. PICK s \in Scopes, rec \in Records :
            /\ BeginChange(o, s, rec)
            /\ rec.status = "enabled" => s \in consent
      BY <3>1, <3>2
    <3> QED
      BY <1>6, <2>0, <3>1, <3>3 DEF ConsentInv
  <2>5. ASSUME NEW o \in Owners, OwnerWrites(o)
        PROVE  ConsentInv'
    <3>1. WriteScope(o) /\ UNCHANGED <<loop, consent>>
      BY <2>5 DEF OwnerWrites, WriteForJob
    <3>2. \A p \in Owners : job'[p].op \in {"approve", "enable"} => job'[p].scope \in consent
      BY <2>5, NoChangeFacts DEF OwnerWrites, WriteForJob, ConsentInv, TypeOK
    <3> QED
      BY <1>8, <2>0, <3>1, <3>2 DEF ConsentInv
  <2>6. CASE DiscoverAtConsole \/ EndLoop
    BY <1>1, <2>0, <2>6, NoChangeFacts DEF DiscoverAtConsole, EndLoop, ConsentInv, NoLoop
  <2>7. ASSUME NEW s \in Scopes, DiscoverNext(s)
        PROVE  ConsentInv'
    <3>1. /\ BeginChange(Console, s, Merged(s)) /\ UNCHANGED <<scopes, job, consent>>
          /\ loop'.op # "collect"
      BY <2>7, LoopAfterFacts DEF DiscoverNext
    <3>2. Merged(s) \in Records /\ (Merged(s).status = "enabled" => s \in consent)
      <4>1. CASE s \in Known /\ Merged(s) = scopes[s]
        BY <4>1, MergedType DEF ConsentInv
      <4>2. CASE Merged(s) = [status |-> "candidate", requested |-> Never]
        BY <4>2, MergedType
      <4> QED
        BY <4>1, <4>2, MergedType
    <3> QED
      BY <1>6, <2>0, <3>1, <3>2 DEF ConsentInv
  <2>8. CASE CollectAtConsole
    <3>1. UNCHANGED <<scopes, chg, job, consent>> /\ loop'.left = ListRecords("enabled")
      BY <2>8 DEF CollectAtConsole, ListEnabled
    <3>2. loop'.left \subseteq consent
      BY <3>1 DEF ConsentInv, ListRecords
    <3> QED
      BY <1>1, <2>0, <3>1, <3>2 DEF ConsentInv
  <2>9. ASSUME NEW s \in Scopes, CollectNext(s)
        PROVE  ConsentInv'
    <3>1. /\ Collect(Console, s, loop.from, loop.to)
          /\ UNCHANGED <<scopes, job, consent>>
          /\ loop'.left \subseteq loop.left /\ loop.op = "collect"
      BY <2>9, LoopAfterFacts DEF CollectNext
    <3> QED
      BY <1>7, <2>0, <3>1 DEF ConsentInv
  <2> QED
    BY <1>3, <2>1, <2>2, <2>3, <2>4, <2>5, <2>6, <2>7, <2>8, <2>9 DEF OwnerThread, OwnerStep
<1>4. CASE CrashAndRestart
  BY <1>4, NoChangeFacts DEF CrashAndRestart, RegistryRestart, TickerStarts, ConsentInv
<1>5. CASE TimePasses \/ \E m \in Messages : Post(m)
  BY <1>1, <1>5 DEF TimePasses, Post, ConsentInv
<1> QED
  BY <1>2, <1>3, <1>4, <1>5 DEF Next

\* Who records, and who does not.
LEMMA Recording ==
  ASSUME TypeOK, Next
  PROVE  \/ UNCHANGED <<recorded, late>>
         \/ \E s \in Scopes : CollectScope(s) \/ CollectNext(s)
  BY DEF Next, TickerThread, OwnerThread, OwnerAsks, OwnerWrites, CollectAtConsole,
         BeginTick, EndDiscovery, EndRequests, EndCollection, TickerWrites, NothingNew,
         EnqueuePacket, EnqueueRefused, SaveWatermark, IntakeRaises, DiscoverGroup,
         SkipRequest, RequestEnable, RequestRaises, MarkRaises, MarkRequested, TimePasses,
         CrashAndRestart, Post, intakeVars

\* What is collected comes from a scope the loop has listed as enabled.
LEMMA ConsentFirstStep ==
  ASSUME ProactiveInv, ConsentFirst, Next
  PROVE  ConsentFirst'
<1> USE DEF ConsentFirst
<1>1. consent \subseteq consent'
  BY DEF Next, TickerThread, OwnerThread, OwnerStep, BeginTick, EndDiscovery, EndRequests,
         EndCollection, TickerWrites, NothingNew, EnqueuePacket, EnqueueRefused,
         SaveWatermark, IntakeRaises, DiscoverGroup, SkipRequest, RequestEnable,
         RequestRaises, MarkRaises, MarkRequested, CollectScope, ClickCard,
         ApproveAtConsole, DisableAtConsole, OwnerAsks, RequestAtConsole, ReadForJob,
         OwnerWrites, WriteForJob, DiscoverAtConsole, DiscoverNext, EndLoop,
         CollectAtConsole, CollectNext, TimePasses, CrashAndRestart, RegistryRestart, Post,
         registryVars, OwnerSide
<1>2. ASSUME NEW s \in Scopes, s \in consent, NEW th \in Threads, NEW from, NEW to,
             Collect(th, s, from, to)
      PROVE  ConsentFirst'
  <2>1. \A m \in recorded' \ recorded : ScopeOf[m] = s
    BY <1>2, Collected DEF ProactiveInv
  <2> QED
    BY <1>1, <1>2, <2>1
<1>3. ASSUME NEW s \in Scopes, CollectScope(s)
      PROVE  ConsentFirst'
  <2>1. /\ s \in todo /\ tpc = "collection"
        /\ Collect(Ticker, s, window - CollectInterval, window)
    BY <1>3 DEF CollectScope, First
  <2>2. s \in consent
    BY <2>1 DEF ProactiveInv, ConsentInv
  <2> QED
    BY <1>2, <2>1, <2>2, ThreadFacts
<1>4. ASSUME NEW s \in Scopes, CollectNext(s)
      PROVE  ConsentFirst'
  <2>1. /\ s \in loop.left /\ loop.op = "collect"
        /\ Collect(Console, s, loop.from, loop.to)
    BY <1>4 DEF CollectNext, First
  <2>2. s \in consent
    BY <2>1 DEF ProactiveInv, ConsentInv
  <2> QED
    BY <1>2, <2>1, <2>2, ThreadFacts
<1> QED
  BY <1>1, <1>3, <1>4, Recording DEF ProactiveInv

\* The clock does not run backwards, and does not stand in MarkInv but as the
\* latest time a scope can have been asked for.
LEMMA MarkUnchanged ==
  ASSUME MarkInv, TypeOK, UNCHANGED <<scopes, asked, unmarked>>,
         now <= now', now' \in Nat,
         chg'[Ticker].scope \notin unmarked => Marked(chg'[Ticker].scope, chg'[Ticker].rec),
         tpc' = "requests" =>
           /\ chg'[Ticker].scope \notin todo'
           /\ \A s \in todo' \ unmarked : Marked(s, listed'[s]),
         tpc' = "mark" => \A s \in (todo' \ First(todo')) \ unmarked : Marked(s, listed'[s]),
         tpc' \in {"requests", "mark"} => \A s \in todo' : listed'[s].status = "candidate"
  PROVE  MarkInv'
<1>1. \A s \in Scopes : asked'[s] # Never => asked'[s] <= now'
  BY IdFacts DEF MarkInv, TypeOK, Times
<1> QED
  BY <1>1 DEF MarkInv, Marked, First

\* A loop over records that were just listed, or one that is not over requests.
LEMMA MarkListed ==
  ASSUME MarkInv, TypeOK, UNCHANGED <<scopes, chg, asked, unmarked, now>>,
         chg[Ticker] = NoChange,
         \/ tpc' \notin {"requests", "mark"}
         \/ tpc' = "requests" /\ listed' = scopes /\ todo' = ListRecords("candidate")
  PROVE  MarkInv'
<1>1. Marked(chg[Ticker].scope, chg[Ticker].rec) /\ chg[Ticker].scope \notin Scopes
  BY NoChangeFacts, IdFacts DEF Marked
<1>2. tpc' = "requests" => \A s \in todo' : s \in Scopes /\ listed'[s].status = "candidate"
  BY DEF ListRecords
<1>3. tpc' = "requests" => \A s \in todo' \ unmarked : Marked(s, listed'[s])
  BY <1>2 DEF MarkInv
<1>4. now \in Nat /\ now <= now
  BY IdFacts DEF TypeOK
<1> QED
  BY <1>1, <1>2, <1>3, <1>4, MarkUnchanged

LEMMA MarkTicker ==
  ASSUME ProactiveInv, TickerThread
  PROVE  MarkInv'
<1> USE IdFacts, ThreadFacts
     DEF ProactiveInv, registryVars, OwnerSide, lastTimes, tickVars,
         intakeVars, requestVars, worldVars
<1>0. now \in Nat /\ now <= now
  BY DEF TypeOK
<1>1. CASE BeginTick
  BY <1>1, MarkListed DEF BeginTick, EnterRequests, EnterCollection, PhaseInv
<1>2. CASE EndDiscovery
  BY <1>2, MarkListed DEF EndDiscovery, EnterRequests, EnterCollection
<1>3. CASE EndRequests
  BY <1>3, MarkListed DEF EndRequests, EnterCollection
<1>4. CASE EndCollection \/ NothingNew \/ EnqueueRefused \/ IntakeRaises
           \/ EnqueuePacket \/ SaveWatermark
  BY <1>4, MarkListed DEF EndCollection, NothingNew, EnqueueRefused, IntakeRaises,
                          EnqueuePacket, SaveWatermark, PhaseInv
<1>5. CASE TickerWrites
  <2> DEFINE w == chg[Ticker].scope
  <2>1. /\ WriteScope(Ticker) /\ UNCHANGED <<tpc, todo, listed, asked, now>>
        /\ \/ unmarked' = unmarked
           \/ unmarked' = unmarked \ {w} /\ Marked(w, chg[Ticker].rec) /\ tpc = "requests"
        /\ tpc \in {"discover", "requests", "collection"}
    BY <1>5 DEF TickerWrites, WriteScope, PhaseInv
  <2>2. /\ scopes'[w] = chg[Ticker].rec
        /\ \A s \in Scopes \ {w} : scopes'[s] = scopes[s]
        /\ chg'[Ticker] = NoChange
    BY <2>1, WrittenScope
  <2>3. w \notin unmarked' => Marked(w, scopes'[w])
    BY <2>1, <2>2 DEF MarkInv
  <2>4. \A s \in Scopes \ unmarked' : Marked(s, scopes'[s])
    BY <2>1, <2>2, <2>3 DEF MarkInv
  <2>5. Marked(NoScope, Absent)
    BY NoChangeFacts DEF Marked
  <2>6. tpc = "requests" => NoScope \notin todo /\ \A s \in todo \ unmarked' : Marked(s, listed[s])
    BY <2>1 DEF MarkInv, TypeOK
  <2> QED
    BY <2>1, <2>2, <2>4, <2>5, <2>6, NoChangeFacts DEF MarkInv, Marked
<1>6. ASSUME NEW s \in Scopes, NEW rec \in Records, BeginChange(Ticker, s, rec),
             UNCHANGED <<scopes, asked, unmarked, now, listed>>,
             s \notin unmarked => Marked(s, rec),
             tpc' # "mark",
             tpc' = "requests" =>
               /\ s \notin todo'
               /\ \A t \in todo' : listed[t].status = "candidate"
               /\ \A t \in todo' \ unmarked : Marked(t, listed[t])
      PROVE  MarkInv'
  <2>1. chg'[Ticker].scope = s /\ chg'[Ticker].rec = rec
    BY <1>6, BegunRecord
  <2> QED
    BY <1>0, <1>6, <2>1, MarkUnchanged
<1>7. ASSUME NEW s \in Scopes, DiscoverGroup(s)
      PROVE  MarkInv'
  <2>1. /\ BeginChange(Ticker, s, Merged(s)) /\ tpc' = "discover"
        /\ UNCHANGED <<scopes, asked, unmarked, now, listed>>
    BY <1>7 DEF DiscoverGroup
  <2>2. Merged(s) \in Records
    BY MergedType
  <2>3. s \notin unmarked => Marked(s, Merged(s))
    <3>1. CASE s \in Known /\ Merged(s) = scopes[s]
      BY <3>1 DEF MarkInv
    <3>2. CASE s \notin Known
      BY <3>2 DEF KnownInv, Marked
    <3> QED
      BY <3>1, <3>2, MergedType
  <2> QED
    BY <1>6, <2>1, <2>2, <2>3
<1>8. ASSUME NEW s \in Scopes, CollectScope(s)
      PROVE  MarkInv'
  <2>1. /\ \/ BeginChange(Ticker, s, scopes[s])
           \/ BeginChange(Ticker, s, WithStatus(s, "permission_denied"))
           \/ UNCHANGED chg
        /\ UNCHANGED <<scopes, asked, unmarked, now, listed>> /\ tpc' = "collection"
        /\ chg[Ticker] = NoChange
    BY <1>8, Collected DEF CollectScope
  <2>2. scopes[s] \in Records /\ (s \notin unmarked => Marked(s, scopes[s]))
    BY DEF MarkInv, TypeOK
  <2>3. /\ WithStatus(s, "permission_denied") \in Records
        /\ Marked(s, WithStatus(s, "permission_denied"))
    BY WithStatusType DEF Statuses, Marked
  <2> QED
    BY <1>6, <2>1, <2>2, <2>3, MarkListed
<1>9. ASSUME NEW s \in Scopes, SkipRequest(s) \/ RequestRaises(s) \/ MarkRaises(s)
      PROVE  MarkInv'
  <2>1. /\ UNCHANGED <<scopes, chg, asked, unmarked, now, listed>> /\ tpc' = "requests"
        /\ chg[Ticker] = NoChange
        /\ s \in First(todo) /\ todo' = todo \ {s} /\ tpc \in {"requests", "mark"}
    BY <1>9 DEF SkipRequest, RequestRaises, MarkRaises, Asking, PhaseInv
  <2>2. todo' \subseteq todo /\ (tpc = "mark" => todo' \subseteq todo \ First(todo))
    BY <2>1, OnlyFirst DEF TypeOK
  <2>3. \A t \in todo' \ unmarked : Marked(t, listed[t])
    BY <2>1, <2>2 DEF MarkInv
  <2>4. \A t \in todo' : listed[t].status = "candidate"
    BY <2>1, <2>2 DEF MarkInv
  <2>5. Marked(NoScope, Absent) /\ NoScope \notin todo'
    BY <2>2, NoChangeFacts DEF Marked, TypeOK
  <2> QED
    BY <1>0, <2>1, <2>3, <2>4, <2>5, NoChangeFacts, MarkUnchanged
<1>10. ASSUME NEW s \in Scopes, RequestEnable(s)
       PROVE  MarkInv'
  <2>1. /\ UNCHANGED <<scopes, chg, todo, listed, now>> /\ tpc = "requests" /\ tpc' = "mark"
        /\ chg[Ticker] = NoChange /\ s \in First(todo)
        /\ asked' = [asked EXCEPT ![s] = now]
        /\ unmarked' = unmarked \cup {s}
    BY <1>10 DEF RequestEnable, Asking
  <2>2. \A t \in Scopes \ {s} : asked'[t] = asked[t]
    BY <2>1 DEF TypeOK
  <2>3. \A t \in Scopes : asked'[t] # Never => asked'[t] <= now
    BY <1>0, <2>1 DEF MarkInv, TypeOK
  <2>4. \A t \in Scopes \ unmarked' : Marked(t, scopes[t])'
    BY <2>1, <2>2 DEF MarkInv, Marked
  <2>5. \A t \in (todo \ First(todo)) \ unmarked' : Marked(t, listed[t])'
    BY <2>1, <2>2 DEF MarkInv, Marked, TypeOK
  <2>6. Marked(chg[Ticker].scope, chg[Ticker].rec)'
    BY <2>1, NoChangeFacts DEF Marked
  <2> QED
    BY <2>1, <2>3, <2>4, <2>5, <2>6 DEF MarkInv, First
<1>11. ASSUME NEW s \in Scopes, MarkRequested(s)
       PROVE  MarkInv'
  <2>1. /\ BeginChange(Ticker, s, [scopes[s] EXCEPT !.requested = now])
        /\ UNCHANGED <<scopes, asked, unmarked, now, listed>>
        /\ tpc = "mark" /\ tpc' = "requests"
        /\ s \in First(todo) /\ todo' = todo \ {s}
    BY <1>11 DEF MarkRequested
  <2>2. todo' \subseteq todo \ First(todo)
    BY <2>1, OnlyFirst DEF TypeOK
  <2>3. /\ [scopes[s] EXCEPT !.requested = now] \in Records
        /\ [scopes[s] EXCEPT !.requested = now].requested = now
    BY <1>0 DEF TypeOK, Records, Times
  <2>4. Marked(s, [scopes[s] EXCEPT !.requested = now])
    BY <1>0, <2>3 DEF Marked, MarkInv
  <2>5. /\ \A t \in todo' \ unmarked : Marked(t, listed[t])
        /\ \A t \in todo' : listed[t].status = "candidate"
    BY <2>1, <2>2 DEF MarkInv
  <2> QED
    BY <1>6, <2>1, <2>3, <2>4, <2>5
<1> QED
  BY <1>1, <1>2, <1>3, <1>4, <1>5, <1>7, <1>8, <1>9, <1>10, <1>11 DEF TickerThread

LEMMA MarkStep ==
  ASSUME ProactiveInv, Next
  PROVE  MarkInv'
<1> USE IdFacts, ThreadFacts
     DEF ProactiveInv, registryVars, lastTimes, tickVars, intakeVars,
         requestVars, worldVars
<1>0. now \in Nat /\ now <= now
  BY DEF TypeOK
<1>1. ASSUME UNCHANGED <<scopes, asked, unmarked, tpc, todo, listed>>,
             now <= now', now' \in Nat, chg'[Ticker] = chg[Ticker]
      PROVE  MarkInv'
  BY <1>1, MarkUnchanged DEF MarkInv
<1>2. CASE OwnerThread
  <2>0. UNCHANGED <<tpc, todo, listed, now>> /\ chg'[Ticker] = chg[Ticker]
    BY <1>2, OwnerLeavesTicker
  <2>1. CASE OwnerStep /\ UNCHANGED <<tickVars, intakeVars, requestVars, worldVars>>
    <3>1. UNCHANGED scopes
      BY <2>1 DEF OwnerStep, ClickCard, ApproveAtConsole, DisableAtConsole, DiscoverNext,
                  DiscoverAtConsole, EndLoop, ReadForJob
    <3> QED
      BY <1>0, <1>1, <2>0, <2>1, <3>1
  <2>2. ASSUME NEW s \in Scopes, OwnerAsks(s)
        PROVE  MarkInv'
    <3>1. /\ UNCHANGED <<scopes, chg>>
          /\ asked' = [asked EXCEPT ![s] = now]
          /\ unmarked' = unmarked \cup {s}
      BY <2>2 DEF OwnerAsks, RequestAtConsole
    <3>2. \A t \in Scopes \ {s} : asked'[t] = asked[t]
      BY <3>1 DEF TypeOK
    <3>3. \A t \in Scopes : asked'[t] # Never => asked'[t] <= now
      BY <1>0, <3>1 DEF MarkInv, TypeOK
    <3>4. \A t : \A rec : t \in Scopes \ unmarked' /\ Marked(t, rec) => Marked(t, rec)'
      BY <3>1, <3>2 DEF Marked
    <3>5. \A t \in Scopes \ unmarked' : Marked(t, scopes[t])'
      BY <3>1, <3>2 DEF MarkInv, Marked
    <3>6. chg[Ticker].scope \notin unmarked' => Marked(chg[Ticker].scope, chg[Ticker].rec)'
      <4>1. CASE chg[Ticker] = NoChange
        BY <4>1, <3>1, NoChangeFacts DEF Marked
      <4>2. CASE chg[Ticker] # NoChange
        <5>1. chg[Ticker].scope \in Scopes
          BY <4>2 DEF TypeOK
        <5> QED
          BY <3>1, <3>2, <5>1 DEF MarkInv, Marked
      <4> QED
        BY <4>1, <4>2
    <3>7. tpc = "requests" => \A t \in todo \ unmarked' : Marked(t, listed[t])'
      BY <2>0, <3>1, <3>2 DEF MarkInv, Marked, TypeOK
    <3>8. tpc = "mark" =>
            \A t \in (todo \ First(todo)) \ unmarked' : Marked(t, listed[t])'
      BY <2>0, <3>1, <3>2 DEF MarkInv, Marked, TypeOK
    <3> QED
      BY <2>0, <3>1, <3>3, <3>5, <3>6, <3>7, <3>8 DEF MarkInv, First
  <2>3. ASSUME NEW s \in Scopes, CollectNext(s)
        PROVE  MarkInv'
    BY <1>0, <1>1, <2>0, <2>3 DEF CollectNext
  <2>4. CASE CollectAtConsole
    BY <1>0, <1>1, <2>0, <2>4 DEF CollectAtConsole
  <2>5. ASSUME NEW o \in Owners, OwnerWrites(o)
        PROVE  MarkInv'
    <3> DEFINE w == chg[o].scope
    <3>1. WriteScope(o) /\ UNCHANGED asked
      BY <2>5 DEF OwnerWrites, WriteForJob
    <3>2. /\ scopes'[w] = chg[o].rec
          /\ \A s \in Scopes \ {w} : scopes'[s] = scopes[s]
      BY <3>1, WrittenScope
    <3>3. /\ unmarked \subseteq unmarked'
          /\ w \notin unmarked' => Marked(w, chg[o].rec)
      BY <2>5 DEF OwnerWrites
    <3>4. \A s \in Scopes \ unmarked' : Marked(s, scopes'[s])
      BY <3>2, <3>3 DEF MarkInv
    <3> QED
      BY <2>0, <3>1, <3>3, <3>4 DEF MarkInv, Marked, First
  <2> QED
    BY <1>2, <2>1, <2>2, <2>3, <2>4, <2>5 DEF OwnerThread
<1>3. CASE CrashAndRestart
  <2>1. /\ UNCHANGED <<scopes, asked, unmarked, now>> /\ tpc' = "wait"
        /\ \A th \in Threads : chg'[th] = NoChange
    BY <1>3 DEF CrashAndRestart, RegistryRestart, TickerStarts
  <2>2. Marked(NoScope, Absent)
    BY NoChangeFacts DEF Marked
  <2> QED
    BY <1>0, <2>1, <2>2, NoChangeFacts, MarkUnchanged
<1>4. CASE TimePasses
  BY <1>0, <1>1, <1>4 DEF TimePasses, MarkInv
<1>5. ASSUME NEW m \in Messages, Post(m)
      PROVE  MarkInv'
  BY <1>0, <1>1, <1>5 DEF Post, MarkInv
<1> QED
  BY <1>2, <1>3, <1>4, <1>5, MarkTicker DEF Next

\* What was asked for before is in the record the loop has listed.
LEMMA CooldownStep ==
  ASSUME ProactiveInv, [Next]_vars, tpc = "requests", tpc' = "mark", NEW s \in First(todo)
  PROVE  asked[s] = Never \/ s \in unmarked \/ now - asked[s] >= Cooldown
<1>1. \E t \in Scopes : RequestEnable(t)
  <2>1. ~OwnerThread
    BY OwnerLeavesTicker DEF ProactiveInv, tickVars
  <2> QED
    BY <2>1 DEF vars, Next, TickerThread, BeginTick, EndDiscovery, EndRequests,
         EndCollection, EnterCollection, TickerWrites, NothingNew, EnqueuePacket,
         EnqueueRefused, SaveWatermark, IntakeRaises, DiscoverGroup, SkipRequest,
         RequestRaises, MarkRaises, MarkRequested, CollectScope, TimePasses,
         CrashAndRestart, TickerStarts, Post, tickVars
<1>2. PICK t \in Scopes : RequestEnable(t)
  BY <1>1
<1>3. t \in First(todo) /\ Due(listed[t].requested, Cooldown)
  BY <1>2 DEF RequestEnable, Asking
<1>4. t = s /\ s \in todo /\ s \in Scopes
  BY <1>3, OnlyFirst DEF First, ProactiveInv, TypeOK
<1>5. SUFFICES ASSUME asked[s] # Never, s \notin unmarked
               PROVE  now - asked[s] >= Cooldown
  OBVIOUS
<1>6. listed[s].requested \in Nat /\ listed[s].requested >= asked[s]
  BY <1>4, <1>5 DEF ProactiveInv, MarkInv, Marked
<1>7. now - listed[s].requested >= Cooldown
  BY <1>3, <1>4, <1>6, IdFacts DEF Due
<1>8. now \in Nat /\ asked[s] \in Nat /\ Cooldown \in Nat
  BY <1>4, <1>5, IdFacts DEF ProactiveInv, TypeOK, Times
<1> QED
  BY <1>6, <1>7, <1>8

\* A step that changes neither the records nor the packet.
LEMMA IntakeUnchanged ==
  ASSUME IntakeInv, UNCHANGED <<recorded, created, sent, crashes, packet, watermark>>,
         tpc' = "watermark" => tpc = "watermark"
  PROVE  IntakeInv'
  BY DEF IntakeInv, Passed, New

\* The actions that write neither a record nor a packet, and do not enter the
\* phase after the packet.
LEMMA QuietIntake ==
  ASSUME TypeOK, Next
  PROVE  \/ /\ UNCHANGED <<recorded, late, created, sent, crashes, packet, watermark>>
            /\ tpc' = "watermark" => tpc = "watermark"
            /\ byHand => byHand'
         \/ \E s \in Scopes : CollectScope(s) \/ CollectNext(s)
         \/ EnqueuePacket \/ SaveWatermark \/ CrashAndRestart
         \/ \E m \in Messages : Post(m)
<1>1. CASE OwnerThread
  <2>1. UNCHANGED <<created, sent, crashes, packet, watermark, tpc>>
    BY <1>1, OwnerLeavesTicker DEF tickVars, worldVars
  <2>2. \/ UNCHANGED <<recorded, late>> /\ (byHand => byHand')
        \/ \E s \in Scopes : CollectNext(s)
    BY <1>1 DEF OwnerThread, OwnerAsks, OwnerWrites, CollectAtConsole, intakeVars
  <2> QED
    BY <2>1, <2>2
<1> DEFINE Quiet ==
      /\ UNCHANGED <<recorded, late, created, sent, crashes, packet, watermark>>
      /\ tpc' = "watermark" => tpc = "watermark"
      /\ byHand => byHand'
<1>2. BeginTick \/ EndDiscovery \/ EndRequests \/ EndCollection => Quiet
  BY DEF BeginTick, EndDiscovery, EndRequests, EnterRequests, EnterCollection,
         EndCollection, intakeVars, worldVars
<1>3. TickerWrites \/ NothingNew \/ EnqueueRefused \/ IntakeRaises => Quiet
  BY DEF TickerWrites, NothingNew, EnqueueRefused, IntakeRaises, tickVars, intakeVars,
         worldVars
<1>4. ASSUME NEW s \in Scopes
      PROVE  DiscoverGroup(s) \/ SkipRequest(s) \/ RequestEnable(s) => Quiet
  BY DEF DiscoverGroup, SkipRequest, RequestEnable, Asking, intakeVars, worldVars
<1>5. ASSUME NEW s \in Scopes
      PROVE  RequestRaises(s) \/ MarkRaises(s) \/ MarkRequested(s) => Quiet
  BY DEF RequestRaises, MarkRaises, MarkRequested, Asking, intakeVars, worldVars
<1>6. TimePasses => Quiet
  BY DEF TimePasses, tickVars, intakeVars
<1> HIDE DEF Quiet
<1>7. TickerThread => Quiet \/ (\E s \in Scopes : CollectScope(s))
                          \/ EnqueuePacket \/ SaveWatermark
  BY <1>2, <1>3, <1>4, <1>5 DEF TickerThread
<1>8. CASE ~OwnerThread
  BY <1>6, <1>7, <1>8 DEF Next, Quiet
<1> QED
  BY <1>1, <1>8

\* Where a message stands against the watermark.
LEMMA TimeFacts ==
  ASSUME TypeOK
  PROVE  /\ now \in Nat /\ crashes \in Nat /\ window \in Nat
         /\ \A m \in Messages : created[m] \in Nat \/ created[m] = Never
         /\ \A m \in Messages : sent[m] \in Nat
         /\ watermark \in Nat \/ watermark = Never
         /\ lastCollect \in Nat \/ lastCollect = Never
         /\ recorded \subseteq Messages /\ packet \subseteq recorded /\ late \subseteq recorded
  BY IdFacts DEF TypeOK, Times

LEMMA IntakeStep ==
  ASSUME ProactiveInv, Next
  PROVE  IntakeInv'
<1> USE IdFacts, TimeFacts DEF ProactiveInv
<1>1. ASSUME NEW s \in Scopes, NEW th \in Threads, NEW from, NEW to,
             Collect(th, s, from, to),
             UNCHANGED <<created, sent, crashes, packet, watermark>>,
             tpc' = tpc
      PROVE  IntakeInv'
  <2>1. \A m \in recorded' \ recorded : created[m] \in Nat
    BY <1>1, Collected
  <2>2. \A m \in recorded' : created'[m] # Never
    BY <1>1, <2>1 DEF IntakeInv
  <2>3. tpc' = "watermark" => packet' \subseteq New'
    BY <1>1, Collected DEF IntakeInv, New
  <2> QED
    BY <1>1, <2>2, <2>3 DEF IntakeInv, Passed
<1>2. CASE EnqueuePacket
  <2>1. /\ UNCHANGED <<recorded, created, crashes, watermark>>
        /\ packet' \subseteq New /\ packet = {}
        /\ sent' = [m \in Messages |-> IF m \in packet' THEN sent[m] + 1 ELSE sent[m]]
    BY <1>2 DEF EnqueuePacket, Scans, worldVars, PhaseInv
  <2>2. ASSUME NEW m \in New
        PROVE  m \in Messages /\ sent[m] \in Nat /\ ~Passed(m)
    <3>1. m \in Messages /\ created[m] \in Nat /\ sent[m] \in Nat
      BY DEF New, IntakeInv
    <3>2. watermark = Never \/ (watermark \in Nat /\ created[m] > watermark)
      BY DEF New
    <3> QED
      BY <3>1, <3>2 DEF Passed
  <2>3. \A m \in Messages : sent'[m] = IF m \in packet' THEN sent[m] + 1 ELSE sent[m]
    BY <2>1
  <2>4. ASSUME NEW m \in Messages
        PROVE  sent'[m] <= crashes + (IF Passed(m) \/ m \in packet' THEN 1 ELSE 0)
    <3>1. sent[m] <= crashes + (IF Passed(m) THEN 1 ELSE 0)
      BY <2>1 DEF IntakeInv
    <3>2. CASE m \in packet'
      BY <2>1, <2>2, <2>3, <3>1, <3>2
    <3>3. CASE m \notin packet'
      BY <2>3, <3>1, <3>3
    <3> QED
      BY <3>2, <3>3
  <2>5. ASSUME NEW m \in packet'
        PROVE  sent'[m] > 0
    <3>1. m \in Messages /\ sent[m] \in Nat
      BY <2>1, <2>2
    <3>2. sent'[m] = sent[m] + 1
      BY <2>3, <3>1
    <3> QED
      BY <3>1, <3>2
  <2> QED
    BY <2>1, <2>4, <2>5 DEF IntakeInv, Passed, New
<1>3. CASE SaveWatermark
  <2>1. /\ UNCHANGED <<recorded, created, crashes, sent>> /\ tpc = "watermark"
        /\ packet' = {} /\ tpc' = "wait"
    BY <1>3 DEF SaveWatermark, worldVars
  <2>2. PICK last \in packet : /\ \A m \in packet : created[m] <= created[last]
                               /\ watermark' = created[last]
    BY <1>3 DEF SaveWatermark
  <2>3. \A m \in packet : created[m] \in Nat
    BY DEF IntakeInv
  <2>4. watermark # Never => watermark < created[last]
    BY <2>1, <2>2, <2>3 DEF IntakeInv, New
  <2>5. \A m \in Messages : Passed(m) \/ m \in packet => Passed(m)'
    BY <2>1, <2>2, <2>3, <2>4 DEF Passed
  <2>6. ASSUME NEW m \in Messages
        PROVE  sent[m] <= crashes + (IF Passed(m)' THEN 1 ELSE 0)
    BY <2>5 DEF IntakeInv
  <2> QED
    BY <2>1, <2>6 DEF IntakeInv
<1>4. CASE CrashAndRestart
  <2>1. /\ UNCHANGED <<recorded, created, sent, watermark>> /\ crashes' = crashes + 1
        /\ packet' = {} /\ tpc' = "wait"
    BY <1>4 DEF CrashAndRestart, TickerStarts
  <2>2. \A m \in Messages : sent[m] <= crashes + 1
    BY DEF IntakeInv
  <2>3. \A m \in Messages : sent'[m] <= crashes' + (IF Passed(m)' THEN 1 ELSE 0)
    BY <2>1, <2>2
  <2> QED
    BY <2>1, <2>3 DEF IntakeInv
<1>5. ASSUME NEW p \in Messages, Post(p)
      PROVE  IntakeInv'
  <2>1. /\ UNCHANGED <<recorded, sent, crashes, packet, watermark, tpc>>
        /\ created[p] = Never /\ created' = [created EXCEPT ![p] = now]
    BY <1>5 DEF Post, tickVars, intakeVars
  <2>2. \A m \in Messages \ {p} : created'[m] = created[m]
    BY <2>1 DEF TypeOK
  <2>3. p \notin recorded /\ \A m \in recorded : created'[m] = created[m]
    BY <2>1, <2>2 DEF IntakeInv
  <2>4. \A m \in Messages : Passed(m) => Passed(m)'
    BY <2>1, <2>2 DEF Passed
  <2>5. \A m \in Messages :
          sent[m] <= crashes + (IF Passed(m)' \/ m \in packet THEN 1 ELSE 0)
    BY <2>4 DEF IntakeInv
  <2>6. New' = New
    BY <2>1, <2>3 DEF New
  <2> QED
    BY <2>1, <2>3, <2>5, <2>6 DEF IntakeInv
<1>6. ASSUME NEW s \in Scopes, CollectScope(s)
      PROVE  IntakeInv'
  BY <1>1, <1>6, ThreadFacts DEF CollectScope, worldVars
<1>7. ASSUME NEW s \in Scopes, CollectNext(s)
      PROVE  IntakeInv'
  BY <1>1, <1>7, ThreadFacts DEF CollectNext, worldVars, tickVars
<1> QED
  BY <1>2, <1>3, <1>4, <1>5, <1>6, <1>7, QuietIntake, IntakeUnchanged

\* Outside of a collection no record is younger than the end of the last one.
LEMMA RecordsAreOld ==
  ASSUME ProactiveInv, crashes = 0, ~byHand, NEW m \in recorded
  PROVE  created[m] \in Nat /\ created[m] <= now
         /\ (tpc = "collection" => created[m] <= window)
<1> USE IdFacts, TimeFacts DEF ProactiveInv
<1>1. created[m] \in Nat /\ now \in Nat /\ window \in Nat /\ window <= now
  BY DEF IntakeInv, WindowInv
<1>2. CASE tpc = "collection"
  <2>1. created[m] <= window
    BY <1>2 DEF WindowInv
  <2> QED
    BY <1>1, <2>1
<1>3. CASE tpc # "collection"
  <2>1. lastCollect \in Nat /\ created[m] <= lastCollect /\ lastCollect <= now
    BY <1>3 DEF WindowInv
  <2> QED
    BY <1>1, <1>3, <2>1
<1> QED
  BY <1>2, <1>3

LEMMA SentGrows ==
  ASSUME TypeOK, NEW P,
         sent' = [m \in Messages |-> IF m \in P THEN sent[m] + 1 ELSE sent[m]],
         NEW m \in Messages, sent[m] > 0
  PROVE  sent'[m] > 0
<1>1. sent[m] \in Nat /\ (sent'[m] = sent[m] + 1 \/ sent'[m] = sent[m])
  BY TimeFacts
<1> QED
  BY <1>1

LEMMA WindowUnchanged ==
  ASSUME TypeOK, WindowInv,
         UNCHANGED <<window, lastCollect, crashes, recorded, late, created, watermark,
                     packet, sent>>,
         byHand => byHand',
         now' \in Nat, now <= now',
         tpc' = "collection" <=> tpc = "collection",
         tpc' = "watermark" => tpc = "watermark"
  PROVE  WindowInv'
<1>1. window' <= now' /\ (lastCollect' # Never => lastCollect' <= now')
  BY IdFacts, TimeFacts DEF WindowInv
<1>2. New' = New
  BY DEF New
<1>3. /\ watermark' # Never => \E n \in recorded' : created'[n] = watermark' /\ sent'[n] > 0
      /\ tpc' = "watermark" =>
           \A m \in packet', n \in New' \ packet' : n \notin late' => created'[m] <= created'[n]
  BY <1>2 DEF WindowInv
<1>4. ~byHand' => ~byHand
  OBVIOUS
<1> QED
  BY <1>1, <1>3, <1>4 DEF WindowInv

\* The collection begins when it is due: its window reaches back to the end of
\* the last one, or not so far.
LEMMA WindowOpens ==
  ASSUME ProactiveInv, EnterCollection, tpc \notin {"collection", "watermark"},
         UNCHANGED <<lastCollect, crashes, recorded, late, byHand, created, watermark,
                     packet, sent, now>>
  PROVE  WindowInv'
<1> USE IdFacts, TimeFacts DEF ProactiveInv
<1>1. CASE ~Due(lastCollect, CollectInterval)
  BY <1>1, WindowUnchanged DEF EnterCollection
<1>2. CASE Due(lastCollect, CollectInterval)
  <2>1. tpc' = "collection" /\ window' = now
    BY <1>2 DEF EnterCollection
  <2>2. lastCollect # Never => lastCollect <= now - CollectInterval
    BY <1>2 DEF Due
  <2>3. crashes = 0 /\ ~byHand => \A m \in recorded : created[m] <= now
    BY RecordsAreOld
  <2>4. watermark # Never => \E n \in recorded : created[n] = watermark /\ sent[n] > 0
    BY DEF WindowInv
  <2>5. crashes = 0 /\ ~byHand =>
          /\ late = {}
          /\ watermark # Never => lastCollect # Never /\ watermark <= lastCollect
    BY DEF WindowInv
  <2>6. window' <= now' /\ (lastCollect' # Never => lastCollect' <= now')
    BY <2>1 DEF WindowInv
  <2> QED
    BY <2>1, <2>2, <2>3, <2>4, <2>5, <2>6 DEF WindowInv
<1> QED
  BY <1>1, <1>2

\* The actions WindowInv may notice are those of the intake, and these.
LEMMA QuietWindow ==
  ASSUME ProactiveInv, Next
  PROVE  \/ /\ UNCHANGED <<window, lastCollect, crashes, recorded, late, created, watermark,
                           packet, sent>>
            /\ byHand => byHand'
            /\ now' \in Nat /\ now <= now'
            /\ tpc' = "collection" <=> tpc = "collection"
            /\ tpc' = "watermark" => tpc = "watermark"
         \/ /\ EnterCollection /\ tpc \notin {"collection", "watermark"}
            /\ UNCHANGED <<lastCollect, crashes, recorded, late, byHand, created, watermark,
                           packet, sent, now>>
         \/ EndCollection
         \/ \E s \in Scopes : CollectScope(s) \/ CollectNext(s)
         \/ EnqueuePacket \/ SaveWatermark \/ CrashAndRestart
         \/ \E m \in Messages : Post(m)
<1> USE DEF ProactiveInv, lastTimes, tickVars, intakeVars, worldVars
<1>1. now \in Nat /\ now <= now
  BY IdFacts, TimeFacts
<1>2. CASE BeginTick \/ EndDiscovery \/ EndRequests
  BY <1>1, <1>2 DEF BeginTick, EndDiscovery, EndRequests, EnterRequests
<1>3. CASE TickerWrites \/ NothingNew \/ EnqueueRefused \/ IntakeRaises
  BY <1>1, <1>3 DEF TickerWrites, NothingNew, EnqueueRefused, IntakeRaises
<1>4. ASSUME NEW s \in Scopes,
             DiscoverGroup(s) \/ SkipRequest(s) \/ RequestEnable(s) \/ RequestRaises(s)
             \/ MarkRaises(s) \/ MarkRequested(s)
      PROVE  /\ UNCHANGED <<window, lastCollect, crashes, recorded, late, byHand, created,
                            watermark, packet, sent, now>>
             /\ tpc' \notin {"collection", "watermark"} /\ tpc # "collection"
  BY <1>4 DEF DiscoverGroup, SkipRequest, RequestEnable, RequestRaises, MarkRaises,
              MarkRequested, Asking
<1>5. CASE OwnerThread
  <2>1. UNCHANGED <<tickVars, packet, watermark, sent, worldVars>>
    BY <1>5, OwnerLeavesTicker
  <2>2. \/ UNCHANGED <<recorded, late>> /\ (byHand => byHand')
        \/ \E s \in Scopes : CollectNext(s)
    BY <1>5 DEF OwnerThread, OwnerAsks, OwnerWrites, CollectAtConsole
  <2> QED
    BY <1>1, <2>1, <2>2
<1>6. CASE TimePasses
  BY <1>1, <1>6, IdFacts DEF TimePasses
<1> QED
  BY <1>1, <1>2, <1>3, <1>4, <1>5, <1>6 DEF Next, TickerThread

\* What is recorded while a packet is open comes after it, or is late.
LEMMA CollectedNew ==
  ASSUME TypeOK, IntakeInv, WindowInv, PhaseInv, NEW th \in Threads, NEW s \in Scopes,
         NEW from, NEW to, Collect(th, s, from, to),
         UNCHANGED <<created, packet, watermark, sent, tpc>>
  PROVE  /\ watermark # Never =>
              \E n \in recorded' : created[n] = watermark /\ sent[n] > 0
         /\ tpc = "watermark" =>
              \A m \in packet, n \in New' \ packet : n \notin late' => created[m] <= created[n]
<1>1. watermark # Never => \E n \in recorded' : created[n] = watermark /\ sent[n] > 0
  BY Collected DEF WindowInv
<1>2. ASSUME tpc = "watermark", NEW m \in packet, NEW n \in New' \ packet, n \notin late'
      PROVE  created[m] <= created[n]
  <2>1. n \in recorded' /\ (watermark = Never \/ created[n] > watermark)
    BY <1>2 DEF New
  <2>2. CASE n \in recorded
    <3>1. n \in New \ packet /\ n \notin late
      BY <1>2, <2>1, <2>2, Collected DEF New
    <3> QED
      BY <1>2, <3>1 DEF WindowInv
  <2>3. CASE n \notin recorded
    <3>1. ~Behind(n) /\ created[n] \in Nat
      BY <1>2, <2>1, <2>3, Collected
    <3>2. ~(created[n] < created[m])
      BY <1>2, <3>1 DEF Behind
    <3>3. created[m] \in Nat
      <4>1. m \in Messages /\ created[m] # Never
        BY <1>2, TimeFacts DEF IntakeInv
      <4> QED
        BY <4>1, TimeFacts
    <3> QED
      BY <3>1, <3>2, <3>3
  <2> QED
    BY <2>2, <2>3
<1> QED
  BY <1>1, <1>2

LEMMA WindowStep ==
  ASSUME ProactiveInv, Next
  PROVE  WindowInv'
<1> USE IdFacts, TimeFacts DEF ProactiveInv
<1>1. CASE EndCollection
  <2>1. /\ UNCHANGED <<crashes, byHand, recorded, late, created, watermark, sent, now>>
        /\ tpc = "collection" /\ tpc' = "intake" /\ window' = 0 /\ lastCollect' = now
    BY <1>1 DEF EndCollection, intakeVars, worldVars
  <2>2. watermark # Never => \E n \in recorded : created[n] = watermark /\ sent[n] > 0
    BY DEF WindowInv
  <2>3. ASSUME crashes = 0, ~byHand
        PROVE  /\ late = {}
               /\ \A m \in recorded : created[m] <= now
               /\ watermark # Never => watermark <= now
    <3>1. \A m \in recorded : created[m] <= now
      BY <2>3, RecordsAreOld
    <3> QED
      BY <2>2, <2>3, <3>1 DEF WindowInv
  <2> QED
    BY <2>1, <2>2, <2>3 DEF WindowInv
<1>2. ASSUME NEW s \in Scopes, CollectScope(s)
      PROVE  WindowInv'
  <2>1. /\ UNCHANGED <<window, lastCollect, crashes, byHand, created, packet, watermark, sent,
                       now, tpc>>
        /\ tpc = "collection"
        /\ Collect(Ticker, s, window - CollectInterval, window)
    BY <1>2 DEF CollectScope, lastTimes, worldVars
  <2>2. watermark # Never => \E n \in recorded' : created[n] = watermark /\ sent[n] > 0
    BY <2>1, CollectedNew, ThreadFacts
  <2>3. ASSUME NEW m \in recorded' \ recorded
        PROVE  /\ created[m] \in Nat
               /\ window - CollectInterval <= created[m] /\ created[m] <= window
               /\ m \in late' <=> Behind(m)
    BY <2>1, <2>3, Collected, ThreadFacts
  <2>4. ASSUME crashes = 0, ~byHand
        PROVE  /\ late' = {}
               /\ lastCollect # Never => lastCollect <= window - CollectInterval
               /\ \A m \in recorded' : created[m] <= window
               /\ watermark # Never => lastCollect # Never /\ watermark <= lastCollect
    <3>1. /\ late = {}
          /\ lastCollect # Never => lastCollect <= window - CollectInterval
          /\ \A m \in recorded : created[m] <= window
          /\ watermark # Never => lastCollect # Never /\ watermark <= lastCollect
      BY <2>1, <2>4 DEF WindowInv
    <3>2. packet = {}
      BY <2>1 DEF PhaseInv
    <3>3. \A m \in recorded' \ recorded : ~Behind(m)
      <4> SUFFICES ASSUME NEW m \in recorded' \ recorded, watermark # Never
                   PROVE  ~(created[m] < watermark)
        BY <3>2 DEF Behind
      <4>1. watermark <= lastCollect /\ lastCollect <= window - CollectInterval
        BY <3>1
      <4>2. watermark \in Nat /\ lastCollect \in Nat /\ window \in Nat /\ CollectInterval \in Nat
        BY <3>1
      <4>3. window - CollectInterval <= created[m] /\ created[m] \in Nat
        BY <2>3
      <4> QED
        BY <4>1, <4>2, <4>3
    <3>4. late' = {}
      <4>1. \A m \in late' : m \in late \/ m \in recorded' \ recorded
        BY <2>1, Collected, ThreadFacts
      <4> QED
        BY <2>3, <3>1, <3>3, <4>1
    <3> QED
      BY <2>3, <3>1, <3>4
  <2>5. window' <= now' /\ (lastCollect' # Never => lastCollect' <= now')
    BY <2>1 DEF WindowInv
  <2> QED
    BY <2>1, <2>2, <2>4, <2>5 DEF WindowInv
<1>7. ASSUME NEW s \in Scopes, CollectNext(s)
      PROVE  WindowInv'
  <2>1. /\ UNCHANGED <<window, lastCollect, crashes, byHand, created, packet, watermark, sent,
                       now, tpc>>
        /\ loop.op = "collect"
        /\ Collect(Console, s, loop.from, loop.to)
    BY <1>7 DEF CollectNext, lastTimes, worldVars, tickVars
  <2>2. /\ watermark # Never => \E n \in recorded' : created[n] = watermark /\ sent[n] > 0
        /\ tpc = "watermark" =>
             \A m \in packet, n \in New' \ packet : n \notin late' => created[m] <= created[n]
    BY <2>1, CollectedNew, ThreadFacts
  <2>3. byHand
    BY <2>1 DEF PhaseInv
  <2>4. window' <= now' /\ (lastCollect' # Never => lastCollect' <= now')
    BY <2>1 DEF WindowInv
  <2> QED
    BY <2>1, <2>2, <2>3, <2>4 DEF WindowInv
<1>3. CASE EnqueuePacket
  <2>1. /\ UNCHANGED <<window, lastCollect, crashes, byHand, recorded, late, created,
                       watermark, now>>
        /\ tpc = "intake" /\ tpc' = "watermark" /\ packet' \in Scans
        /\ sent' = [m \in Messages |-> IF m \in packet' THEN sent[m] + 1 ELSE sent[m]]
    BY <1>3 DEF EnqueuePacket, lastTimes, worldVars
  <2>2. \A m \in recorded : sent[m] > 0 => sent'[m] > 0
    BY <2>1, SentGrows
  <2>3. ASSUME NEW m \in packet', NEW n \in New \ packet'
        PROVE  created[m] <= created[n]
    <3>1. Before(m, n) /\ m \in New /\ n \in New
      BY <2>1 DEF Scans
    <3>2. created[m] \in Nat /\ created[n] \in Nat
      BY <3>1 DEF New, IntakeInv
    <3> QED
      BY <3>1, <3>2 DEF Before
  <2>4. New' = New
    BY <2>1 DEF New
  <2>5. watermark' # Never => \E n \in recorded' : created'[n] = watermark' /\ sent'[n] > 0
    BY <2>1, <2>2 DEF WindowInv
  <2>6. window' <= now' /\ (lastCollect' # Never => lastCollect' <= now')
    BY <2>1 DEF WindowInv
  <2>7. crashes = 0 /\ ~byHand =>
          /\ late = {}
          /\ \A m \in recorded : lastCollect # Never /\ created[m] <= lastCollect
          /\ watermark # Never => lastCollect # Never /\ watermark <= lastCollect
    BY <2>1 DEF WindowInv
  <2> QED
    BY <2>1, <2>3, <2>4, <2>5, <2>6, <2>7 DEF WindowInv
<1>4. CASE SaveWatermark
  <2>1. /\ UNCHANGED <<window, lastCollect, crashes, byHand, recorded, late, created, sent, now>>
        /\ tpc = "watermark" /\ tpc' = "wait" /\ packet' = {}
    BY <1>4 DEF SaveWatermark, lastTimes, worldVars
  <2>2. PICK last \in packet : watermark' = created[last]
    BY <1>4 DEF SaveWatermark
  <2>3. last \in recorded /\ sent[last] > 0
    BY DEF IntakeInv
  <2>4. window' <= now' /\ (lastCollect' # Never => lastCollect' <= now')
    BY <2>1 DEF WindowInv
  <2>5. ASSUME crashes = 0, ~byHand
        PROVE  /\ late = {}
               /\ \A m \in recorded : lastCollect # Never /\ created[m] <= lastCollect
               /\ lastCollect # Never /\ watermark' <= lastCollect
    BY <2>1, <2>2, <2>3, <2>5 DEF WindowInv
  <2>6. \E n \in recorded : created[n] = watermark' /\ sent[n] > 0
    BY <2>2, <2>3
  <2> QED
    BY <2>1, <2>4, <2>5, <2>6 DEF WindowInv
<1>5. CASE CrashAndRestart
  <2>1. /\ crashes' # 0 /\ window' = 0 /\ lastCollect' = Never /\ now' = now
        /\ UNCHANGED <<recorded, created, watermark, sent>> /\ tpc' = "wait"
    BY <1>5 DEF CrashAndRestart, TickerStarts
  <2> QED
    BY <2>1 DEF WindowInv
<1>6. ASSUME NEW p \in Messages, Post(p)
      PROVE  WindowInv'
  <2>1. /\ UNCHANGED <<window, lastCollect, crashes, byHand, recorded, late, sent, packet,
                       watermark, tpc, now>>
        /\ created[p] = Never /\ created' = [created EXCEPT ![p] = now]
    BY <1>6 DEF Post, lastTimes, tickVars, intakeVars
  <2>2. \A m \in recorded : created'[m] = created[m]
    BY <2>1 DEF IntakeInv, TypeOK
  <2>3. New' = New /\ New \subseteq recorded
    BY <2>1, <2>2 DEF New
  <2> QED
    BY <2>1, <2>2, <2>3 DEF WindowInv
<1> QED
  BY <1>1, <1>2, <1>3, <1>4, <1>5, <1>6, <1>7, QuietWindow, WindowOpens, WindowUnchanged

\* A record is old when it is written, or it becomes old: what then stands for
\* it is a message of the same second that was handed over.
LEMMA OvertakenStep ==
  ASSUME ProactiveInv, WindowInv', NothingOvertaken, Next
  PROVE  NothingOvertaken'
<1> USE IdFacts, TimeFacts DEF ProactiveInv
<1> DEFINE Kept == watermark # Never =>
                     \A m \in recorded \ late : created[m] <= watermark =>
                       \E n \in recorded : created[n] = created[m] /\ sent[n] > 0
<1>0. SUFFICES Kept'
  BY DEF NothingOvertaken, WindowInv
<1>k. Kept
  BY DEF NothingOvertaken
<1>1. ASSUME NEW s \in Scopes, NEW th \in Threads, NEW from, NEW to,
             Collect(th, s, from, to),
             UNCHANGED <<created, packet, watermark, sent>>
      PROVE  Kept'
  <2>1. ASSUME watermark # Never, NEW m \in recorded' \ late', created[m] <= watermark
        PROVE  \E n \in recorded' : created[n] = created[m] /\ sent[n] > 0
    <3>1. recorded \subseteq recorded' /\ late \subseteq late'
      BY <1>1, Collected
    <3>2. CASE m \in recorded
      BY <1>k, <2>1, <3>1, <3>2
    <3>3. CASE m \notin recorded
      <4>1. created[m] \in Nat /\ ~Behind(m)
        BY <1>1, <2>1, <3>3, Collected
      <4>2. created[m] = watermark
        BY <2>1, <4>1 DEF Behind
      <4>3. \E n \in recorded : created[n] = watermark /\ sent[n] > 0
        BY <2>1 DEF WindowInv
      <4> QED
        BY <3>1, <4>2, <4>3
    <3> QED
      BY <3>2, <3>3
  <2> QED
    BY <1>1, <2>1
<1>2. ASSUME NEW s \in Scopes, CollectScope(s)
      PROVE  Kept'
  <2>1. /\ Collect(Ticker, s, window - CollectInterval, window)
        /\ UNCHANGED <<created, packet, watermark, sent>>
    BY <1>2 DEF CollectScope, worldVars
  <2> HIDE DEF Kept
  <2> QED
    BY <1>1, <2>1, ThreadFacts
<1>3. ASSUME NEW s \in Scopes, CollectNext(s)
      PROVE  Kept'
  <2>1. /\ Collect(Console, s, loop.from, loop.to)
        /\ UNCHANGED <<created, packet, watermark, sent>>
    BY <1>3 DEF CollectNext, worldVars
  <2> HIDE DEF Kept
  <2> QED
    BY <1>1, <2>1, ThreadFacts
<1>4. CASE EnqueuePacket
  <2>1. /\ UNCHANGED <<recorded, late, created, watermark>>
        /\ sent' = [m \in Messages |-> IF m \in packet' THEN sent[m] + 1 ELSE sent[m]]
    BY <1>4 DEF EnqueuePacket, worldVars
  <2>2. \A m \in recorded : sent[m] > 0 => sent'[m] > 0
    BY <2>1, SentGrows
  <2> QED
    BY <1>k, <2>1, <2>2
<1>5. CASE SaveWatermark
  <2>1. UNCHANGED <<recorded, late, created, sent>> /\ tpc = "watermark"
    BY <1>5 DEF SaveWatermark, worldVars
  <2>2. PICK last \in packet : /\ \A m \in packet : created[m] <= created[last]
                               /\ watermark' = created[last]
    BY <1>5 DEF SaveWatermark
  <2>3. ASSUME NEW m \in recorded \ late, created[m] <= created[last]
        PROVE  \E n \in recorded : created[n] = created[m] /\ sent[n] > 0
    <3>1. CASE watermark # Never /\ created[m] <= watermark
      BY <1>k, <2>3, <3>1
    <3>2. CASE m \in packet
      BY <3>2 DEF IntakeInv
    <3>3. CASE m \in New \ packet
      <4>1. created[last] <= created[m]
        BY <2>1, <2>3, <3>3 DEF WindowInv
      <4>2. created[last] \in Nat /\ created[m] \in Nat
        BY DEF IntakeInv
      <4>3. created[last] = created[m] /\ last \in recorded /\ sent[last] > 0
        BY <2>3, <4>1, <4>2 DEF IntakeInv
      <4> QED
        BY <4>3
    <3>4. created[m] \in Nat
      BY DEF IntakeInv
    <3> QED
      BY <3>1, <3>2, <3>3, <3>4 DEF New
  <2> QED
    BY <2>1, <2>2, <2>3
<1>6. CASE CrashAndRestart
  BY <1>k, <1>6 DEF CrashAndRestart
<1>7. ASSUME NEW p \in Messages, Post(p)
      PROVE  Kept'
  <2>1. /\ UNCHANGED <<recorded, late, sent, watermark>>
        /\ created[p] = Never /\ created' = [created EXCEPT ![p] = now]
    BY <1>7 DEF Post, intakeVars
  <2>2. \A m \in recorded : created'[m] = created[m]
    BY <2>1 DEF IntakeInv, TypeOK
  <2> QED
    BY <1>k, <2>1, <2>2
<1>8. CASE UNCHANGED <<recorded, late, created, sent, crashes, packet, watermark>>
  BY <1>k, <1>8
<1> QED
  <2> HIDE DEF Kept
  <2> QED
    BY <1>2, <1>3, <1>4, <1>5, <1>6, <1>7, <1>8, QuietIntake

LEMMA StepInv ==
  ASSUME ProactiveInv, NothingOvertaken, ConsentFirst, [Next]_vars
  PROVE  ProactiveInv' /\ NothingOvertaken' /\ ConsentFirst'
<1>1. CASE Next
  <2>1. TypeOK' /\ PhaseInv' /\ KnownInv' /\ ConsentInv' /\ MarkInv' /\ IntakeInv' /\ WindowInv'
    BY <1>1, TypeStep, PhaseStep, KnownStep, ConsentStep, MarkStep, IntakeStep, WindowStep
  <2> QED
    BY <1>1, <2>1, OvertakenStep, ConsentFirstStep DEF ProactiveInv
<1>2. CASE UNCHANGED vars
  <2> USE <1>2 DEF vars, registryVars, lastTimes, tickVars, intakeVars, requestVars, worldVars
  <2>1. TypeOK' /\ PhaseInv'
    BY DEF ProactiveInv, TypeOK, PhaseInv
  <2>2. KnownInv' /\ ConsentInv'
    BY DEF ProactiveInv, KnownInv, Known, ConsentInv
  <2>3. MarkInv'
    BY DEF ProactiveInv, MarkInv, Marked, First
  <2>4. IntakeInv' /\ WindowInv'
    BY DEF ProactiveInv, IntakeInv, WindowInv, Passed, New
  <2>5. NothingOvertaken' /\ ConsentFirst'
    BY DEF NothingOvertaken, ConsentFirst
  <2> QED
    BY <2>1, <2>2, <2>3, <2>4, <2>5 DEF ProactiveInv
<1> QED
  BY <1>1, <1>2

LEMMA Invariants == Spec => [](ProactiveInv /\ NothingOvertaken /\ ConsentFirst)
  BY InitInv, StepInv, PTL DEF Spec

\* For every number of scopes, messages, jobs, faults and crashes, and all
\* intervals and limits: the types, and what the threads rely on about the
\* records that others rewrite, about windows and about the watermark.
THEOREM ProactiveInvariant == Spec => []ProactiveInv
  BY Invariants, PTL

\* No message of a scope reaches the disk before the owner's yes to it, in
\* whatever order ticker, listener and console write their records.
THEOREM ConsentBeforeCollection == Spec => []ConsentFirst
  BY Invariants, PTL

\* The ticker does not ask for a scope again within the cooldown, unless the last
\* mark was lost in a failure or a crash, or the console asked without a mark or
\* wrote an older record over it.
THEOREM RequestsRespectCooldown == Spec => CooldownKept
<1>1. ProactiveInv /\ [Next]_vars
      => [tpc = "requests" /\ tpc' = "mark" =>
            \A s \in First(todo) :
              asked[s] = Never \/ s \in unmarked \/ now - asked[s] >= Cooldown]_vars
  BY CooldownStep
<1> QED
  BY <1>1, ProactiveInvariant, PTL DEF Spec, CooldownKept

\* A message is handed over at most once for each start of the process.
THEOREM AtMostOncePerStart == Spec => []AnalysedOnce
<1>1. ProactiveInv => AnalysedOnce
  <2> SUFFICES ASSUME ProactiveInv, NEW m \in Messages
               PROVE  sent[m] <= 1 + crashes
    BY DEF AnalysedOnce
  <2>1. sent[m] \in Nat /\ crashes \in Nat
    BY TimeFacts DEF ProactiveInv
  <2>2. sent[m] <= crashes + 1 \/ sent[m] <= crashes + 0
    BY DEF ProactiveInv, IntakeInv
  <2> QED
    BY <2>1, <2>2
<1> QED
  BY <1>1, ProactiveInvariant, PTL

\* The watermark passes a record that was on disk in time only if another one of its
\* second was handed over, and before a restart or a collection by hand all are in
\* time.
THEOREM WatermarkPassesNothing == Spec => []NothingOvertaken
  BY Invariants, PTL
=============================================================================
