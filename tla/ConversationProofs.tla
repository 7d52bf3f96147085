-------------------------- MODULE ConversationProofs --------------------------
(***************************************************************************)
(* A run of the agent loop, and the conversation of the /chat console that *)
(* runs continue.                                                          *)
(*                                                                         *)
(* AgentLoop, for any turn limits, recovery limits and number of runs:     *)
(* calls that were cut off never run, results are shown before they become *)
(* receipts, the recovery of a run is settled at its end, and the loop     *)
(* raises only after truncated answers.                                    *)
(*                                                                         *)
(* ChatContext, for any tasks, results, commands, faults and limits: with  *)
(* two threads in one session, a key is summarized once, and every receipt *)
(* and every summary of the loop is named in the journal.                  *)
(***************************************************************************)
EXTENDS AgentLoop, ChatContext, FiniteSetTheorems, SequenceTheorems, TLAPS

----------------------------------------------------------------------------
(* The operators on agent states *)

\* A new scope is the last one, and nothing else changes.
LEMMA ScopeAppended ==
  ASSUME NEW s \in AgentState, NEW kind \in ModelFailures \cup {"tool"},
         NEW status \in ScopeStatuses, NEW w, w = WithScope(s, kind, status)
  PROVE  /\ w \in AgentState
         /\ w.turn = s.turn /\ w.ceiling = s.ceiling /\ w.pending = s.pending
         /\ w.results = s.results /\ w.raw = s.raw /\ w.fresh = s.fresh
         /\ Len(s.scopes) \in Nat /\ DOMAIN s.scopes = 1..Len(s.scopes)
         /\ Len(w.scopes) = Len(s.scopes) + 1
         /\ DOMAIN w.scopes = 1..(Len(s.scopes) + 1)
         /\ \A i \in 1..Len(s.scopes) : w.scopes[i] = s.scopes[i]
         /\ w.scopes[Len(s.scopes) + 1] = [turn |-> s.turn, kind |-> kind, status |-> status]
<1> DEFINE new == [turn |-> s.turn, kind |-> kind, status |-> status]
<1>1. new \in Scopes /\ s.scopes \in Seq(Scopes)
  BY DEF AgentState, Scopes
<1>2. w = [s EXCEPT !.scopes = Append(s.scopes, new)]
  BY DEF WithScope
<1> HIDE DEF new
<1>3. Append(s.scopes, new) \in Seq(Scopes)
      /\ Len(Append(s.scopes, new)) = Len(s.scopes) + 1
      /\ \A i \in 1..Len(s.scopes) : Append(s.scopes, new)[i] = s.scopes[i]
      /\ Append(s.scopes, new)[Len(s.scopes) + 1] = new
  BY <1>1
<1>4. w.scopes = Append(s.scopes, new)
  BY <1>2 DEF AgentState
<1>5. w \in AgentState
      /\ w.turn = s.turn /\ w.ceiling = s.ceiling /\ w.pending = s.pending
      /\ w.results = s.results /\ w.raw = s.raw /\ w.fresh = s.fresh
  BY <1>2, <1>3 DEF AgentState
<1> QED
  BY <1>1, <1>3, <1>4, <1>5 DEF new

\* The scopes stay within the turns.
LEMMA ScopeTurns ==
  ASSUME NEW s \in AgentState, NEW kind \in ModelFailures \cup {"tool"},
         NEW status \in ScopeStatuses, NEW w, w = WithScope(s, kind, status),
         \A i \in DOMAIN s.scopes : s.scopes[i].turn <= s.turn
  PROVE  \A i \in DOMAIN w.scopes : w.scopes[i].turn <= w.turn
<1> DEFINE n == Len(s.scopes)
<1>1. /\ w.turn = s.turn /\ n \in Nat /\ DOMAIN s.scopes = 1..n /\ DOMAIN w.scopes = 1..(n + 1)
      /\ \A i \in 1..n : w.scopes[i] = s.scopes[i]
      /\ w.scopes[n + 1] = [turn |-> s.turn, kind |-> kind, status |-> status]
  BY ScopeAppended
<1>2. s.turn \in Nat
  BY DEF AgentState
<1> HIDE DEF n
<1>3. ASSUME NEW i \in 1..n PROVE w.scopes[i].turn <= w.turn
  BY <1>1
<1>4. w.scopes[n + 1].turn <= w.turn
  BY <1>1, <1>2
<1> QED
  BY <1>1, <1>3, <1>4

\* Finalizing resolves the active scopes and keeps the rest.
LEMMA ScopesFinalized ==
  ASSUME NEW s \in AgentState, NEW f, f = FinalizeRecoveryIds(s)
  PROVE  /\ f \in AgentState
         /\ f.turn = s.turn /\ f.ceiling = s.ceiling /\ f.pending = s.pending
         /\ f.results = s.results /\ f.raw = s.raw /\ f.fresh = s.fresh
         /\ Len(f.scopes) = Len(s.scopes) /\ DOMAIN f.scopes = DOMAIN s.scopes
         /\ \A i \in DOMAIN s.scopes :
              /\ f.scopes[i].turn = s.scopes[i].turn /\ f.scopes[i].kind = s.scopes[i].kind
              /\ f.scopes[i].status = IF i \in active THEN "resolved" ELSE s.scopes[i].status
<1> DEFINE g == [i \in DOMAIN s.scopes |->
                   IF i \in active THEN [s.scopes[i] EXCEPT !.status = "resolved"]
                   ELSE s.scopes[i]]
<1>1. s.scopes \in Seq(Scopes) /\ DOMAIN s.scopes = 1..Len(s.scopes) /\ Len(s.scopes) \in Nat
  BY DEF AgentState
<1>2. \A i \in DOMAIN s.scopes : s.scopes[i] \in Scopes
  BY <1>1
<1>3. \A i \in DOMAIN s.scopes : g[i] \in Scopes
  BY <1>2 DEF Scopes, ScopeStatuses
<1>4. \A i \in DOMAIN s.scopes :
        /\ g[i].turn = s.scopes[i].turn /\ g[i].kind = s.scopes[i].kind
        /\ g[i].status = IF i \in active THEN "resolved" ELSE s.scopes[i].status
  BY <1>2 DEF Scopes
<1>5. DOMAIN g = 1..Len(s.scopes)
  BY <1>1
<1> HIDE DEF g
<1>6. g \in [1..Len(s.scopes) -> Scopes]
  <2>1. g = [i \in 1..Len(s.scopes) |-> g[i]]
    BY <1>5 DEF g
  <2> QED
    BY <1>1, <1>3, <2>1
<1>7. g \in Seq(Scopes) /\ Len(g) = Len(s.scopes)
  BY <1>1, <1>6, SeqDef
<1>8. f = [s EXCEPT !.scopes = g]
  BY DEF FinalizeRecoveryIds, g
<1>9. f.scopes = g
  BY <1>8 DEF AgentState
<1>10. f \in AgentState
       /\ f.turn = s.turn /\ f.ceiling = s.ceiling /\ f.pending = s.pending
       /\ f.results = s.results /\ f.raw = s.raw /\ f.fresh = s.fresh
  BY <1>7, <1>8 DEF AgentState
<1> QED
  BY <1>1, <1>4, <1>5, <1>7, <1>9, <1>10

\* Results close the calls they belong to.
LEMMA ResultsAppended ==
  ASSUME NEW s \in AgentState, NEW ids \in SUBSET Calls, NEW w, w = AppendToolResults(s, ids)
  PROVE  /\ w \in AgentState
         /\ w.turn = s.turn /\ w.ceiling = s.ceiling /\ w.scopes = s.scopes
         /\ w.pending = s.pending \ ids /\ w.results = s.results \cup ids
         /\ w.raw = s.raw \cup ids /\ w.fresh = ids
BY DEF AppendToolResults, AgentState

\* The strategy and the status of a scope.
LEMMA ScopeStatus ==
  ASSUME NEW kind \in ModelFailures, NEW n \in Nat
  PROVE  /\ Strategy(kind, n) \in {"retry_now", "retry_later", "degrade"}
         /\ StatusFor[Strategy(kind, n)] \in ScopeStatuses
         /\ kind = "model_max_tokens" => StatusFor[Strategy(kind, n)] = "active"
         /\ kind = "context_overflow" => StatusFor[Strategy(kind, n)] = "waiting"
         /\ kind = "model_transport_error" =>
              /\ Strategy(kind, n) = IF n >= MaxRecovery THEN "retry_later" ELSE "retry_now"
              /\ StatusFor[Strategy(kind, n)] = IF n >= MaxRecovery THEN "scheduled" ELSE "active"
<1>1. CASE kind = "model_max_tokens"
  BY <1>1 DEF Strategy, StatusFor, ScopeStatuses
<1>2. CASE kind = "context_overflow"
  BY <1>2 DEF Strategy, StatusFor, ScopeStatuses
<1>3. CASE kind = "model_transport_error"
  BY <1>3 DEF Strategy, StatusFor, ScopeStatuses
<1> QED
  BY <1>1, <1>2, <1>3 DEF ModelFailures

----------------------------------------------------------------------------
(* What every answer and every turn does *)

\* The ids of an answer are new.
LEMMA IdsAreNew ==
  ASSUME LoopInv, NEW calls \in SUBSET Calls, ModelAnswers(calls)
  PROVE  /\ issued \in Nat /\ issued' \in 0..MaxCalls /\ issued' = issued + Cardinality(calls)
         /\ calls \subseteq 1..issued' /\ calls \cap 1..issued = {}
         /\ 1..issued \subseteq 1..issued' /\ 1..issued' \subseteq Calls
         /\ IsFiniteSet(calls)
<1>1. IsFiniteSet(calls) /\ Cardinality(calls) \in Nat
  <2>1. IsFiniteSet(Calls)
    BY FS_Interval, LoopAssumption DEF Calls
  <2> QED
    BY <2>1, FS_Subset, FS_CardinalityType
<1>2. issued \in 0..MaxCalls
  BY DEF LoopInv, TypeOK
<1> QED
  BY <1>1, <1>2, LoopAssumption DEF ModelAnswers, Calls

\* An answer settles the recovery before it and shows the newest results.
LEMMA AnswerFacts ==
  ASSUME LoopInv, NEW calls \in SUBSET Calls, ModelAnswers(calls), NEW a, a = Answered(calls)
  PROVE  /\ a \in AgentState
         /\ a.turn = state.turn /\ a.ceiling = state.ceiling
         /\ a.pending = state.pending \cup calls
         /\ a.results = state.results /\ a.raw = state.raw /\ a.fresh = {}
         /\ Len(a.scopes) = Len(state.scopes) /\ DOMAIN a.scopes = 1..Len(state.scopes)
         /\ \A i \in DOMAIN a.scopes :
              /\ a.scopes[i].turn = state.scopes[i].turn /\ a.scopes[i].turn <= state.turn
              /\ a.scopes[i].turn \in Nat
              /\ a.scopes[i].turn + MaxTurns >= state.ceiling /\ a.scopes[i].kind # "tool"
                   => a.scopes[i].status # "active"
         /\ seen' = seen \cup Visible(state) /\ seen \subseteq seen' /\ seen' \subseteq executed
         /\ a.raw \subseteq seen' \cup stranded
<1> DEFINE f == FinalizeRecoveryIds(state)
<1>1. phase = "model" /\ seen' = seen \cup Visible(state) /\ state \in AgentState
  BY DEF ModelAnswers, LoopInv, TypeOK
<1>2. /\ f \in AgentState
      /\ f.turn = state.turn /\ f.ceiling = state.ceiling /\ f.pending = state.pending
      /\ f.results = state.results /\ f.raw = state.raw /\ f.fresh = state.fresh
      /\ Len(f.scopes) = Len(state.scopes) /\ DOMAIN f.scopes = DOMAIN state.scopes
      /\ \A i \in DOMAIN state.scopes :
           /\ f.scopes[i].turn = state.scopes[i].turn /\ f.scopes[i].kind = state.scopes[i].kind
           /\ f.scopes[i].status = IF i \in active THEN "resolved" ELSE state.scopes[i].status
  BY <1>1, ScopesFinalized
<1> HIDE DEF f
<1>3. a = [f EXCEPT !.pending = f.pending \cup calls, !.fresh = {}]
  BY DEF Answered, AppendAssistantMessage, f
<1>4. a \in AgentState /\ a.turn = f.turn /\ a.ceiling = f.ceiling
      /\ a.pending = f.pending \cup calls /\ a.results = f.results /\ a.raw = f.raw
      /\ a.fresh = {} /\ a.scopes = f.scopes
  BY <1>2, <1>3 DEF AgentState
<1>5. DOMAIN state.scopes = 1..Len(state.scopes)
      /\ \A i \in DOMAIN state.scopes : state.scopes[i].turn \in Nat
  <2>1. state.scopes \in Seq(Scopes)
    BY <1>1 DEF AgentState
  <2>2. \A i \in DOMAIN state.scopes : state.scopes[i] \in Scopes
    BY <2>1
  <2> QED
    BY <2>1, <2>2 DEF Scopes
<1>6. \A i \in DOMAIN state.scopes : state.scopes[i].turn <= state.turn
  BY DEF LoopInv, IdsIssued
<1>7. ASSUME NEW i \in DOMAIN state.scopes, state.scopes[i].turn + MaxTurns >= state.ceiling,
             state.scopes[i].kind # "tool", i \notin active
      PROVE  state.scopes[i].status # "active"
  BY <1>1, <1>7 DEF LoopInv, RecoverySettled, OwnActive, OwnScopes
<1>8. \A i \in DOMAIN a.scopes :
        /\ a.scopes[i].turn = state.scopes[i].turn /\ a.scopes[i].turn <= state.turn
        /\ a.scopes[i].turn \in Nat
        /\ a.scopes[i].turn + MaxTurns >= state.ceiling /\ a.scopes[i].kind # "tool"
             => a.scopes[i].status # "active"
  BY <1>2, <1>4, <1>5, <1>6, <1>7
<1>9. seen' \subseteq executed
  BY <1>1 DEF Visible, LoopInv, IdsIssued
<1>10. state.raw \subseteq seen' \cup stranded
  BY <1>1 DEF Visible, LoopInv, IdsIssued, SeenBeforeReceipt
<1> QED
  BY <1>1, <1>2, <1>4, <1>5, <1>8, <1>9, <1>10

\* increment_turn, for a state of the right type.
LEMMA NextTurnFacts ==
  ASSUME NEW s \in AgentState, NextTurn(s)
  PROVE  \/ s.turn + 1 > s.ceiling /\ Raise
         \/ /\ s.turn + 1 <= s.ceiling
            /\ phase' = "model" /\ UNCHANGED <<session, outcome>>
            /\ state' \in AgentState
            /\ state'.turn = s.turn + 1 /\ state'.ceiling = s.ceiling
            /\ state'.pending = s.pending /\ state'.results = s.results
            /\ state'.raw = s.raw /\ state'.fresh = s.fresh /\ state'.scopes = s.scopes
<1>1. s.turn \in Nat /\ s.ceiling \in Nat
  BY DEF AgentState
<1>2. CASE s.turn + 1 > s.ceiling
  BY <1>2 DEF NextTurn
<1>3. CASE s.turn + 1 <= s.ceiling
  <2>1. /\ state' = [s EXCEPT !.turn = s.turn + 1] /\ phase' = "model"
        /\ UNCHANGED <<session, outcome>>
    BY <1>1, <1>3 DEF NextTurn
  <2> QED
    BY <1>1, <1>3, <2>1 DEF AgentState
<1> QED
  BY <1>1, <1>2, <1>3

\* What holds of the history and the counters, whatever becomes of the state.
HistoryKept ==
  /\ runs' \in Nat /\ local' \in Nat /\ attempts' \in Nat /\ compacts' \in Nat /\ cuts' \in Nat
  /\ active' \subseteq Nat /\ batch' \subseteq Calls
  /\ issued' \in 0..MaxCalls /\ 1..issued \subseteq 1..issued'
  /\ cut' \subseteq 1..issued' /\ dropped' \subseteq 1..issued' /\ executed' \subseteq 1..issued'
  /\ cut \subseteq cut' /\ dropped \subseteq dropped' /\ executed \subseteq executed'
  /\ seen \subseteq seen' /\ stranded \subseteq stranded'
  /\ seen' \cup stranded' \subseteq executed'
  /\ executed' \cap (cut' \cup dropped') = {}
  /\ attempts' < MaxRecovery /\ Cardinality(active') <= attempts' + 1 /\ compacts' <= MaxCompacts

\* The executor is given what the last answer asked for, and nothing of it is
\* in the session.
LEMMA SessionFacts ==
  ASSUME LoopInv, HistoryKept
  PROVE  /\ session.pending \subseteq 1..issued' /\ session.results \subseteq executed'
         /\ session.raw \subseteq session.results /\ session.fresh \subseteq session.results
         /\ \A i \in DOMAIN session.scopes : session.scopes[i].turn <= session.turn
         /\ session.pending \subseteq cut' \cup dropped'
         /\ session.pending \cap session.results = {}
         /\ session.raw \subseteq seen' \cup stranded'
         /\ executed' \subseteq Calls
<1>1. 1..issued' \subseteq Calls
  BY LoopAssumption DEF HistoryKept, Calls
<1> QED
  BY <1>1 DEF LoopInv, IdsIssued, SessionExplained, HistoryKept

LEMMA RaiseStep ==
  ASSUME LoopInv, HistoryKept, Raise, cuts' >= 2, cuts' + local' > MaxTurns
  PROVE  LoopInv'
<1>1. /\ state' = session /\ session' = session /\ phase' = "idle" /\ outcome' = "raised"
  BY DEF Raise
<1>2. TypeOK'
  BY <1>1, SessionFacts DEF LoopInv, TypeOK, HistoryKept, Outcomes
<1>3. SessionKept' /\ ToolsPhase' /\ TurnBudget' /\ RaisesOnlyAfterCuts' /\ RecoverySettled'
  BY <1>1 DEF SessionKept, ToolsPhase, TurnBudget, RaisesOnlyAfterCuts, RecoverySettled
<1>4. IdsIssued' /\ SessionExplained' /\ OpenCallsExplained' /\ SeenBeforeReceipt'
  BY <1>1, SessionFacts
     DEF IdsIssued, SessionExplained, OpenCallsExplained, SeenBeforeReceipt, HistoryKept
<1>5. CutNeverRuns' /\ RetriesBounded'
  BY <1>1 DEF CutNeverRuns, RetriesBounded, HistoryKept
<1> QED
  BY <1>2, <1>3, <1>4, <1>5 DEF LoopInv

\* A run that stops hands its state over: the state explains its open calls
\* and has shown or stranded its results.
LEMMA StopStep ==
  ASSUME LoopInv, HistoryKept, NEW s \in AgentState, NEW why \in Outcomes \ {"raised"},
         Stop(s, why),
         s.pending \subseteq 1..issued', s.results \subseteq executed',
         s.raw \subseteq s.results, s.fresh \subseteq s.results,
         \A i \in DOMAIN s.scopes : s.scopes[i].turn <= s.turn,
         s.pending \subseteq cut' \cup dropped', s.pending \cap s.results = {},
         s.raw \subseteq seen' \cup stranded',
         RecoverySettled'
  PROVE  LoopInv'
<1>1. /\ state' = s /\ session' = s /\ phase' = "idle" /\ outcome' = why
  BY DEF Stop
<1>2. TypeOK'
  BY <1>1, SessionFacts DEF LoopInv, TypeOK, HistoryKept, Outcomes
<1>3. SessionKept' /\ ToolsPhase' /\ TurnBudget' /\ RaisesOnlyAfterCuts'
  BY <1>1 DEF SessionKept, ToolsPhase, TurnBudget, RaisesOnlyAfterCuts
<1>4. IdsIssued' /\ SessionExplained' /\ OpenCallsExplained' /\ SeenBeforeReceipt'
  BY <1>1
     DEF IdsIssued, SessionExplained, OpenCallsExplained, SeenBeforeReceipt, HistoryKept
<1>5. CutNeverRuns' /\ RetriesBounded'
  BY <1>1 DEF CutNeverRuns, RetriesBounded, HistoryKept
<1> QED
  BY <1>2, <1>3, <1>4, <1>5 DEF LoopInv

\* A run that goes on leaves the session alone.
LEMMA GoOnStep ==
  ASSUME LoopInv, HistoryKept, state' \in AgentState, phase' \in {"model", "tools"},
         session' = session, outcome' = outcome, active' \subseteq DOMAIN state'.scopes,
         state'.pending \subseteq 1..issued', state'.results \subseteq executed',
         state'.raw \subseteq state'.results, state'.fresh \subseteq state'.results,
         \A i \in DOMAIN state'.scopes : state'.scopes[i].turn <= state'.turn,
         state'.pending
           \subseteq cut' \cup dropped' \cup (IF phase' = "tools" THEN batch' ELSE {}),
         state'.pending \cap state'.results = {},
         state'.raw \subseteq state'.fresh \cup seen' \cup stranded',
         local' < MaxTurns, state'.turn <= state'.ceiling,
         ToolsPhase', TurnBudget', OwnActive' = active'
  PROVE  LoopInv'
<1>1. TypeOK'
  BY SessionFacts DEF LoopInv, TypeOK, HistoryKept
<1>2. SessionKept' /\ RaisesOnlyAfterCuts' /\ RecoverySettled'
  BY DEF SessionKept, RaisesOnlyAfterCuts, RecoverySettled
<1>3. IdsIssued' /\ SessionExplained'
  BY SessionFacts DEF IdsIssued, SessionExplained, HistoryKept
<1>4. OpenCallsExplained' /\ SeenBeforeReceipt'
  BY DEF OpenCallsExplained, SeenBeforeReceipt
<1>5. CutNeverRuns' /\ RetriesBounded'
  BY DEF CutNeverRuns, RetriesBounded, HistoryKept
<1> QED
  BY <1>1, <1>2, <1>3, <1>4, <1>5 DEF LoopInv

\* The state of a run, taken apart.
LEMMA StateFacts ==
  ASSUME LoopInv
  PROVE  /\ state \in AgentState
         /\ state.turn \in Nat /\ state.ceiling \in Nat
         /\ Len(state.scopes) \in Nat /\ DOMAIN state.scopes = 1..Len(state.scopes)
         /\ \A i \in DOMAIN state.scopes :
              state.scopes[i] \in Scopes /\ state.scopes[i].turn \in Nat
                /\ state.scopes[i].turn <= state.turn
         /\ state.pending \subseteq 1..issued /\ state.results \subseteq executed
         /\ state.raw \subseteq state.results /\ state.fresh \subseteq state.results
         /\ state.pending \cap state.results = {}
         /\ state.raw \subseteq state.fresh \cup seen \cup stranded
         /\ issued \in Nat /\ 1..issued \subseteq Calls
         /\ runs \in Nat /\ local \in Nat /\ attempts \in Nat /\ compacts \in Nat /\ cuts \in Nat
<1>1. /\ state \in AgentState /\ issued \in 0..MaxCalls
      /\ runs \in Nat /\ local \in Nat /\ attempts \in Nat /\ compacts \in Nat /\ cuts \in Nat
  BY DEF LoopInv, TypeOK
<1>2. /\ state.turn \in Nat /\ state.ceiling \in Nat /\ state.scopes \in Seq(Scopes)
  BY <1>1 DEF AgentState
<1>3. \A i \in DOMAIN state.scopes : state.scopes[i] \in Scopes
  BY <1>2
<1>4. Len(state.scopes) \in Nat /\ DOMAIN state.scopes = 1..Len(state.scopes)
  BY <1>2
<1>5. \A i \in DOMAIN state.scopes : state.scopes[i].turn \in Nat
  BY <1>3 DEF Scopes
<1>6. /\ \A i \in DOMAIN state.scopes : state.scopes[i].turn <= state.turn
      /\ state.pending \subseteq 1..issued /\ state.results \subseteq executed
      /\ state.raw \subseteq state.results /\ state.fresh \subseteq state.results
  BY DEF LoopInv, IdsIssued
<1>7. state.pending \cap state.results = {}
  BY DEF LoopInv, OpenCallsExplained
<1>8. state.raw \subseteq state.fresh \cup seen \cup stranded
  BY <1>6 DEF LoopInv, SeenBeforeReceipt
<1>9. issued \in Nat /\ 1..issued \subseteq Calls
  BY <1>1, LoopAssumption DEF Calls
<1> QED
  BY <1>1, <1>2, <1>3, <1>4, <1>5, <1>6, <1>7, <1>8, <1>9

\* Its numbers alone.
LEMMA StateNumbers ==
  ASSUME LoopInv
  PROVE  /\ state \in AgentState /\ state.turn \in Nat /\ state.ceiling \in Nat
         /\ Len(state.scopes) \in Nat
         /\ local \in Nat /\ cuts \in Nat /\ MaxTurns \in Nat /\ MaxTurns >= 1
BY StateFacts, LoopAssumption

\* A turn of its own restores the balance that one more truncated answer, or
\* the executor's turn, has shifted.
LEMMA TurnTaken ==
  ASSUME LoopInv, phase' = "model", state'.turn = state.turn + 1,
         state'.ceiling = state.ceiling, state.turn >= 1,
         \/ /\ state.turn + MaxTurns + 1 = state.ceiling + cuts + local
            /\ local' = local /\ cuts' = cuts
         \/ /\ state.turn + MaxTurns = state.ceiling + cuts + local
            /\ local' = local /\ cuts' = cuts + 1
  PROVE  TurnBudget'
<1>1. /\ state.turn \in Nat /\ state.ceiling \in Nat
      /\ local \in Nat /\ cuts \in Nat /\ MaxTurns \in Nat
  BY StateNumbers
<1>2. state'.turn >= 1 /\ state'.turn + MaxTurns + 0 = state'.ceiling + cuts' + local'
  <2>1. CASE /\ state.turn + MaxTurns + 1 = state.ceiling + cuts + local
             /\ local' = local /\ cuts' = cuts
    BY <1>1, <2>1
  <2>2. CASE /\ state.turn + MaxTurns = state.ceiling + cuts + local
             /\ local' = local /\ cuts' = cuts + 1
    BY <1>1, <2>2
  <2> QED
    BY <2>1, <2>2
<1> QED
  BY <1>2 DEF TurnBudget

----------------------------------------------------------------------------
(* One lemma for each action *)

\* An answer adds its calls to the history, as cut, as dropped or as neither.
LEMMA AnswerHistory ==
  ASSUME LoopInv, NEW calls \in SUBSET Calls, ModelAnswers(calls),
         cut' \in {cut, cut \cup calls}, dropped' \in {dropped, dropped \cup calls},
         local' \in Nat, cuts' \in Nat, active' \subseteq Nat, Cardinality(active') <= 1,
         batch' \subseteq Calls
  PROVE  HistoryKept
<1>1. /\ runs' = runs /\ compacts' = compacts /\ executed' = executed
      /\ stranded' = stranded /\ attempts' = 0
  BY DEF ModelAnswers
<1>2. /\ cut \subseteq 1..issued /\ dropped \subseteq 1..issued /\ executed \subseteq 1..issued
      /\ runs \in Nat /\ compacts \in Nat /\ compacts <= MaxCompacts
      /\ seen \cup stranded \subseteq executed /\ executed \cap (cut \cup dropped) = {}
  BY DEF LoopInv, TypeOK, IdsIssued, RetriesBounded, CutNeverRuns
<1>3. /\ issued' \in 0..MaxCalls /\ calls \subseteq 1..issued' /\ calls \cap 1..issued = {}
      /\ 1..issued \subseteq 1..issued'
  BY IdsAreNew
<1>4. seen \subseteq seen' /\ seen' \subseteq executed
  BY AnswerFacts
<1>5. /\ cut' \subseteq 1..issued' /\ dropped' \subseteq 1..issued'
      /\ executed' \cap (cut' \cup dropped') = {}
  BY <1>1, <1>2, <1>3
<1>6. attempts' < MaxRecovery /\ Cardinality(active') <= attempts' + 1 /\ attempts' \in Nat
  BY <1>1, LoopAssumption
<1> QED
  BY <1>1, <1>2, <1>3, <1>4, <1>5, <1>6 DEF HistoryKept

LEMMA NoActive == Cardinality({}) = 0
BY FS_EmptySet

LEMMA PrepareStep ==
  ASSUME LoopInv, PrepareState
  PROVE  LoopInv'
<1>1. /\ phase = "idle" /\ phase' = "model" /\ session' = session /\ outcome' = outcome
      /\ runs' = runs + 1 /\ local' = 0 /\ attempts' = 0 /\ compacts' = 0 /\ cuts' = 0
      /\ active' = {} /\ batch' = {} /\ issued' = issued /\ cut' = cut /\ dropped' = dropped
      /\ executed' = executed /\ seen' = seen /\ stranded' = stranded
  BY DEF PrepareState
<1>2. state' = [state EXCEPT !.turn = state.turn + 1, !.ceiling = state.turn + 1 + MaxTurns,
                             !.fresh = {}]
  BY DEF PrepareState, Ceiling
<1>3. /\ state' \in AgentState
      /\ state'.turn = state.turn + 1 /\ state'.ceiling = state.turn + 1 + MaxTurns
      /\ state'.fresh = {} /\ state'.pending = state.pending
      /\ state'.results = state.results /\ state'.raw = state.raw
      /\ state'.scopes = state.scopes
  <2>1. state \in AgentState /\ state.turn + 1 \in Nat /\ state.turn + 1 + MaxTurns \in Nat
    BY StateNumbers
  <2> DEFINE n == state.turn + 1
             c == state.turn + 1 + MaxTurns
  <2>2. state' = [state EXCEPT !.turn = n, !.ceiling = c, !.fresh = {}] /\ n \in Nat /\ c \in Nat
    BY <1>2, <2>1
  <2> HIDE DEF n, c
  <2>3. /\ state' \in AgentState
        /\ state'.turn = n /\ state'.ceiling = c
        /\ state'.fresh = {} /\ state'.pending = state.pending
        /\ state'.results = state.results /\ state'.raw = state.raw
        /\ state'.scopes = state.scopes
    BY <2>1, <2>2 DEF AgentState
  <2> QED
    BY <2>3 DEF n, c
<1>4. HistoryKept
  BY <1>1, StateFacts, NoActive, LoopAssumption
     DEF HistoryKept, LoopInv, TypeOK, IdsIssued, CutNeverRuns
<1>5. state.pending \subseteq cut \cup dropped /\ state.raw \subseteq seen \cup stranded
  BY <1>1 DEF LoopInv, SessionKept, SessionExplained
<1>6. OwnActive' = active'
  <2>1. ASSUME NEW i \in DOMAIN state.scopes PROVE state.scopes[i].turn + MaxTurns < state'.ceiling
    <3>1. state.scopes[i].turn \in Nat /\ state.scopes[i].turn <= state.turn
      BY StateFacts
    <3> QED
      BY <1>3, <3>1, StateNumbers
  <2>2. ASSUME NEW i \in DOMAIN state.scopes
        PROVE  ~(state.scopes[i].turn + MaxTurns >= state'.ceiling)
    <3>1. state.scopes[i].turn \in Nat
      BY StateFacts
    <3>2. state'.ceiling \in Nat /\ MaxTurns \in Nat
      BY <1>3, StateNumbers
    <3>3. state.scopes[i].turn + MaxTurns < state'.ceiling
      BY <2>1
    <3> QED
      BY <3>1, <3>2, <3>3
  <2> QED
    BY <1>1, <1>3, <2>2 DEF OwnActive, OwnScopes
<1>7. ToolsPhase' /\ TurnBudget'
  BY <1>1, <1>3, StateNumbers DEF ToolsPhase, TurnBudget
<1>8. \A i \in DOMAIN state'.scopes : state'.scopes[i].turn <= state'.turn
  BY <1>3, StateFacts
<1>9. local' < MaxTurns /\ state'.turn <= state'.ceiling
  BY <1>1, <1>3, StateNumbers
<1>10. /\ state'.pending \subseteq 1..issued' /\ state'.results \subseteq executed'
       /\ state'.raw \subseteq state'.results /\ state'.fresh \subseteq state'.results
       /\ state'.pending \subseteq cut' \cup dropped'
       /\ state'.pending \cap state'.results = {}
       /\ state'.raw \subseteq state'.fresh \cup seen' \cup stranded'
  BY <1>1, <1>3, <1>5, StateFacts
<1> QED
  BY <1>1, <1>3, <1>4, <1>6, <1>7, <1>8, <1>9, <1>10, GoOnStep

\* An answer that ends the run: no recovery of the run is left open.
LEMMA AnswerStops ==
  ASSUME LoopInv, HistoryKept, NEW calls \in SUBSET Calls, ModelAnswers(calls),
         NEW why \in {"finished", "max_turns_reached"}, Stop(Answered(calls), why),
         calls \subseteq dropped'
  PROVE  LoopInv'
<1> DEFINE a == Answered(calls)
<1>1. /\ a \in AgentState
      /\ a.turn = state.turn /\ a.ceiling = state.ceiling
      /\ a.pending = state.pending \cup calls
      /\ a.results = state.results /\ a.raw = state.raw /\ a.fresh = {}
      /\ DOMAIN a.scopes = 1..Len(state.scopes)
      /\ \A i \in DOMAIN a.scopes :
           /\ a.scopes[i].turn = state.scopes[i].turn /\ a.scopes[i].turn <= state.turn
           /\ a.scopes[i].turn + MaxTurns >= state.ceiling /\ a.scopes[i].kind # "tool"
                => a.scopes[i].status # "active"
      /\ a.raw \subseteq seen' \cup stranded
  BY AnswerFacts
<1>2. Stop(a, why)
  OBVIOUS
<1> HIDE DEF a
<1>3. /\ phase = "model" /\ executed' = executed /\ stranded' = stranded
  BY DEF ModelAnswers
<1>4. state' = a /\ phase' = "idle" /\ outcome' = why
  BY <1>2 DEF Stop
<1>5. OwnActive' = {}
  BY <1>1, <1>4 DEF OwnActive, OwnScopes
<1>6. RecoverySettled'
  BY <1>4, <1>5 DEF RecoverySettled
<1>7. calls \subseteq 1..issued' /\ calls \cap 1..issued = {} /\ 1..issued \subseteq 1..issued'
  BY IdsAreNew
<1>8. state.pending \subseteq cut \cup dropped
  BY <1>3 DEF LoopInv, OpenCallsExplained
<1>9. executed \subseteq 1..issued
  BY DEF LoopInv, TypeOK
<1>10. /\ a.pending \subseteq 1..issued' /\ a.pending \subseteq cut' \cup dropped'
       /\ a.pending \cap a.results = {} /\ a.results \subseteq executed'
       /\ a.raw \subseteq a.results /\ a.fresh \subseteq a.results
       /\ a.raw \subseteq seen' \cup stranded'
  BY <1>1, <1>3, <1>7, <1>8, <1>9, StateFacts DEF HistoryKept
<1>11. \A i \in DOMAIN a.scopes : a.scopes[i].turn <= a.turn
  BY <1>1
<1>12. why \in Outcomes \ {"raised"}
  BY DEF Outcomes
<1> QED
  BY <1>1, <1>2, <1>6, <1>10, <1>11, <1>12, StopStep

LEMMA FinishStep ==
  ASSUME LoopInv, Finish
  PROVE  LoopInv'
<1>1. /\ ModelAnswers({}) /\ Stop(Answered({}), "finished") /\ active' = {}
      /\ local' = local /\ batch' = batch /\ cut' = cut /\ dropped' = dropped /\ cuts' = cuts
  BY DEF Finish
<1>2. HistoryKept
  <2>1. batch' \subseteq Calls /\ Cardinality(active') <= 1 /\ active' \subseteq Nat
        /\ local' \in Nat /\ cuts' \in Nat
    BY <1>1, NoActive DEF LoopInv, TypeOK
  <2>2. /\ {} \in SUBSET Calls
        /\ cut' \in {cut, cut \cup {}} /\ dropped' \in {dropped, dropped \cup {}}
    BY <1>1
  <2> QED
    BY <1>1, <2>1, <2>2, AnswerHistory
<1> QED
  BY <1>1, <1>2, AnswerStops

LEMMA MaxTurnsStep ==
  ASSUME LoopInv, NEW calls \in SUBSET Calls, MaxTurnsReached(calls)
  PROVE  LoopInv'
<1>1. /\ ModelAnswers(calls) /\ Stop(Answered(calls), "max_turns_reached") /\ active' = {}
      /\ local' = local + 1 /\ batch' = batch /\ cut' = cut /\ dropped' = dropped \cup calls
      /\ cuts' = cuts
  BY DEF MaxTurnsReached
<1>2. HistoryKept
  <2>1. batch' \subseteq Calls /\ Cardinality(active') <= 1 /\ active' \subseteq Nat
        /\ local' \in Nat /\ cuts' \in Nat
    BY <1>1, NoActive DEF LoopInv, TypeOK
  <2> QED
    BY <1>1, <2>1, AnswerHistory
<1> QED
  BY <1>1, <1>2, AnswerStops

LEMMA AskToolsStep ==
  ASSUME LoopInv, NEW calls \in SUBSET Calls, AskTools(calls)
  PROVE  LoopInv'
<1> DEFINE a == Answered(calls)
<1>1. /\ ModelAnswers(calls) /\ active' = {} /\ phase' = "tools" /\ state' = a
      /\ session' = session /\ outcome' = outcome
      /\ local' = local + 1 /\ local + 1 < MaxTurns
      /\ batch' = calls /\ cut' = cut /\ dropped' = dropped /\ cuts' = cuts
  BY DEF AskTools, ExtractToolCalls
<1>2. HistoryKept
  <2>1. batch' \subseteq Calls /\ Cardinality(active') <= 1 /\ active' \subseteq Nat
        /\ local' \in Nat /\ cuts' \in Nat
    BY <1>1, NoActive DEF LoopInv, TypeOK
  <2> QED
    BY <1>1, <2>1, AnswerHistory
<1>3. /\ a \in AgentState
      /\ a.turn = state.turn /\ a.ceiling = state.ceiling
      /\ a.pending = state.pending \cup calls
      /\ a.results = state.results /\ a.raw = state.raw /\ a.fresh = {}
      /\ DOMAIN a.scopes = 1..Len(state.scopes)
      /\ \A i \in DOMAIN a.scopes :
           /\ a.scopes[i].turn = state.scopes[i].turn /\ a.scopes[i].turn <= state.turn
           /\ a.scopes[i].turn + MaxTurns >= state.ceiling /\ a.scopes[i].kind # "tool"
                => a.scopes[i].status # "active"
      /\ a.raw \subseteq seen' \cup stranded
  BY <1>1, AnswerFacts
<1> HIDE DEF a
<1>4. /\ phase = "model" /\ executed' = executed /\ stranded' = stranded
  BY <1>1 DEF ModelAnswers
<1>5. OwnActive' = active'
  BY <1>1, <1>3 DEF OwnActive, OwnScopes
<1>6. calls \subseteq 1..issued' /\ calls \cap 1..issued = {} /\ 1..issued \subseteq 1..issued'
  BY <1>1, IdsAreNew
<1>7. state.pending \subseteq cut \cup dropped
  BY <1>4 DEF LoopInv, OpenCallsExplained
<1>8. executed \subseteq 1..issued /\ cut \subseteq 1..issued /\ dropped \subseteq 1..issued
  BY DEF LoopInv, TypeOK
<1>9. /\ state'.pending \subseteq 1..issued' /\ state'.results \subseteq executed'
      /\ state'.raw \subseteq state'.results /\ state'.fresh \subseteq state'.results
      /\ state'.pending \subseteq cut' \cup dropped' \cup batch'
      /\ state'.pending \cap state'.results = {}
      /\ state'.raw \subseteq state'.fresh \cup seen' \cup stranded'
  BY <1>1, <1>3, <1>4, <1>6, <1>7, <1>8, StateFacts
<1>10. ToolsPhase'
  BY <1>1, <1>3, <1>4, <1>6, <1>8, StateFacts DEF ToolsPhase
<1>11. TurnBudget' /\ local' < MaxTurns /\ state'.turn <= state'.ceiling
  <2>1. /\ state.turn + MaxTurns = state.ceiling + cuts + local
        /\ state.turn <= state.ceiling /\ state.turn >= 1
    BY <1>4, StateNumbers DEF LoopInv, TurnBudget, RetriesBounded
  <2>2. state'.turn = state.turn /\ state'.ceiling = state.ceiling
    BY <1>1, <1>3
  <2>3. phase' = "tools" /\ local' = local + 1 /\ cuts' = cuts /\ local + 1 < MaxTurns
    BY <1>1
  <2>4. /\ state.turn \in Nat /\ state.ceiling \in Nat
        /\ local \in Nat /\ cuts \in Nat /\ MaxTurns \in Nat
    BY StateNumbers
  <2>5. state'.turn + MaxTurns + 1 = state'.ceiling + cuts' + local'
    BY <2>1, <2>2, <2>3, <2>4
  <2> QED
    BY <2>1, <2>2, <2>3, <2>5 DEF TurnBudget
<1>12. \A i \in DOMAIN state'.scopes : state'.scopes[i].turn <= state'.turn
  BY <1>1, <1>3
<1>13. /\ state' \in AgentState /\ active' \subseteq DOMAIN state'.scopes
       /\ phase' \in {"model", "tools"}
  BY <1>1, <1>3
<1> QED
  BY <1>1, <1>2, <1>5, <1>9, <1>10, <1>11, <1>12, <1>13, GoOnStep

LEMMA MaxTokensStep ==
  ASSUME LoopInv, NEW calls \in SUBSET Calls, MaxTokens(calls)
  PROVE  LoopInv'
<1> DEFINE a == Answered(calls)
           s == RegisterModelRecovery(a, "model_max_tokens", 1)
           n == Len(state.scopes)
<1>1. /\ ModelAnswers(calls) /\ NextTurn(s) /\ active' = {n + 1}
      /\ cut' = cut \cup calls /\ cuts' = cuts + 1
      /\ local' = local /\ batch' = batch /\ dropped' = dropped
  BY DEF MaxTokens
<1>2. HistoryKept
  <2>1. n \in Nat /\ batch \subseteq Calls /\ local \in Nat /\ cuts \in Nat
    BY StateFacts DEF LoopInv, TypeOK
  <2>2. Cardinality(active') <= 1 /\ active' \subseteq Nat
    <3>1. Cardinality({n + 1}) = 1
      BY FS_Singleton
    <3> HIDE DEF n
    <3> QED
      BY <1>1, <2>1, <3>1
  <2>3. local' \in Nat /\ cuts' \in Nat /\ batch' \subseteq Calls
    BY <1>1, <2>1
  <2>4. cut' \in {cut, cut \cup calls} /\ dropped' \in {dropped, dropped \cup calls}
    BY <1>1
  <2> HIDE DEF a, s, n
  <2> QED
    BY <1>1, <2>2, <2>3, <2>4, AnswerHistory
<1>3. /\ a \in AgentState
      /\ a.turn = state.turn /\ a.ceiling = state.ceiling
      /\ a.pending = state.pending \cup calls
      /\ a.results = state.results /\ a.raw = state.raw /\ a.fresh = {}
      /\ Len(a.scopes) = n /\ DOMAIN a.scopes = 1..n
      /\ \A i \in DOMAIN a.scopes :
           /\ a.scopes[i].turn = state.scopes[i].turn /\ a.scopes[i].turn <= state.turn
           /\ a.scopes[i].turn + MaxTurns >= state.ceiling /\ a.scopes[i].kind # "tool"
                => a.scopes[i].status # "active"
      /\ a.raw \subseteq seen' \cup stranded
  BY <1>1, AnswerFacts
<1>4. s = WithScope(a, "model_max_tokens", "active")
  BY ScopeStatus DEF RegisterModelRecovery, ModelFailures
<1> HIDE DEF a, s, n
<1>n. n \in Nat
  BY StateNumbers DEF n
<1>5. /\ s \in AgentState
      /\ s.turn = a.turn /\ s.ceiling = a.ceiling /\ s.pending = a.pending
      /\ s.results = a.results /\ s.raw = a.raw /\ s.fresh = a.fresh
      /\ DOMAIN s.scopes = 1..(n + 1) /\ \A i \in 1..n : s.scopes[i] = a.scopes[i]
      /\ s.scopes[n + 1] = [turn |-> a.turn, kind |-> "model_max_tokens", status |-> "active"]
  <2>1. "model_max_tokens" \in ModelFailures \cup {"tool"} /\ "active" \in ScopeStatuses
    BY DEF ModelFailures, ScopeStatuses
  <2>2. /\ s \in AgentState
        /\ s.turn = a.turn /\ s.ceiling = a.ceiling /\ s.pending = a.pending
        /\ s.results = a.results /\ s.raw = a.raw /\ s.fresh = a.fresh
        /\ DOMAIN s.scopes = 1..(Len(a.scopes) + 1)
        /\ \A i \in 1..Len(a.scopes) : s.scopes[i] = a.scopes[i]
        /\ s.scopes[Len(a.scopes) + 1]
             = [turn |-> a.turn, kind |-> "model_max_tokens", status |-> "active"]
    BY <1>3, <1>4, <2>1, ScopeAppended
  <2> QED
    BY <1>3, <2>2
<1>6. /\ phase = "model" /\ executed' = executed /\ stranded' = stranded
  BY <1>1 DEF ModelAnswers
<1>7. /\ state.turn + MaxTurns = state.ceiling + cuts + local
      /\ local < MaxTurns /\ state.turn <= state.ceiling /\ state.turn >= 1
  BY <1>6, StateNumbers DEF LoopInv, TurnBudget, RetriesBounded
<1>8. CASE s.turn + 1 > s.ceiling /\ Raise
  <2>1. cuts' >= 2 /\ cuts' + local' > MaxTurns
    <3>1. s.turn = state.turn /\ s.ceiling = state.ceiling
      BY <1>3, <1>5
    <3>2. cuts' = cuts + 1 /\ local' = local
      BY <1>1
    <3>3. state.turn + 1 > state.ceiling
      BY <1>8, <3>1
    <3>4. /\ state.turn \in Nat /\ state.ceiling \in Nat
          /\ local \in Nat /\ cuts \in Nat /\ MaxTurns \in Nat
      BY StateNumbers
    <3> QED
      BY <1>7, <3>2, <3>3, <3>4
  <2> QED
    BY <1>2, <1>8, <2>1, RaiseStep
<1>9. CASE /\ s.turn + 1 <= s.ceiling
           /\ phase' = "model" /\ UNCHANGED <<session, outcome>>
           /\ state' \in AgentState
           /\ state'.turn = s.turn + 1 /\ state'.ceiling = s.ceiling
           /\ state'.pending = s.pending /\ state'.results = s.results
           /\ state'.raw = s.raw /\ state'.fresh = s.fresh /\ state'.scopes = s.scopes
  <2>1. calls \subseteq 1..issued' /\ calls \cap 1..issued = {} /\ 1..issued \subseteq 1..issued'
    BY <1>1, IdsAreNew
  <2>2. state.pending \subseteq cut \cup dropped
    BY <1>6 DEF LoopInv, OpenCallsExplained
  <2>3. executed \subseteq 1..issued
    BY DEF LoopInv, TypeOK
  <2>4. /\ state'.pending \subseteq 1..issued' /\ state'.results \subseteq executed'
        /\ state'.raw \subseteq state'.results /\ state'.fresh \subseteq state'.results
        /\ state'.pending \subseteq cut' \cup dropped'
        /\ state'.pending \cap state'.results = {}
        /\ state'.raw \subseteq state'.fresh \cup seen' \cup stranded'
    <3>1. /\ state'.pending = state.pending \cup calls /\ state'.results = state.results
          /\ state'.raw = state.raw /\ state'.fresh = {}
      BY <1>3, <1>5, <1>9
    <3>2. /\ state.pending \subseteq 1..issued /\ state.results \subseteq executed
          /\ state.raw \subseteq state.results /\ state.pending \cap state.results = {}
      BY StateFacts
    <3>3. /\ executed' = executed /\ stranded' = stranded
          /\ cut' = cut \cup calls /\ dropped' = dropped
      BY <1>1, <1>6
    <3>4. state.raw \subseteq seen' \cup stranded
      BY <1>3
    <3> QED
      BY <2>1, <2>2, <2>3, <3>1, <3>2, <3>3, <3>4
  <2>5. n \in Nat /\ state.turn \in Nat /\ state.ceiling \in Nat
        /\ \A i \in 1..n : state.scopes[i].turn \in Nat
    BY StateFacts DEF n
  <2>t. state'.turn = state.turn + 1 /\ state'.ceiling = state.ceiling
    BY <1>3, <1>5, <1>9
  <2>6. \A i \in DOMAIN state'.scopes : state'.scopes[i].turn <= state'.turn
    <3>1. ASSUME NEW i \in 1..n PROVE state'.scopes[i].turn <= state'.turn
      <4>1. /\ state'.scopes[i].turn = state.scopes[i].turn /\ state.scopes[i].turn <= state.turn
        BY <1>3, <1>5, <1>9
      <4> QED
        BY <2>5, <2>t, <4>1
    <3>2. state'.scopes[n + 1].turn <= state'.turn
      BY <1>3, <1>5, <1>9, <2>5, <2>t
    <3>3. DOMAIN state'.scopes = 1..(n + 1) /\ n \in Nat
      BY <1>5, <1>9, <2>5
    <3>4. \A i \in 1..(n + 1) : i \in 1..n \/ i = n + 1
      BY <3>3
    <3> QED
      BY <3>1, <3>2, <3>3, <3>4
  <2>7. OwnActive' = active'
    <3>1. ASSUME NEW i \in 1..n PROVE i \notin OwnActive'
      <4> DEFINE old == a.scopes[i]
      <4>1. old.turn + MaxTurns >= state.ceiling /\ old.kind # "tool" => old.status # "active"
        BY <1>3
      <4>2. state'.scopes[i] = old /\ state'.ceiling = state.ceiling
        BY <1>3, <1>5, <1>9
      <4> QED
        BY <4>1, <4>2 DEF OwnActive, OwnScopes
    <3>2. n + 1 \in OwnActive'
      <4>1. /\ n + 1 \in DOMAIN state'.scopes /\ state'.scopes[n + 1].turn = state.turn
            /\ state'.scopes[n + 1].kind # "tool" /\ state'.scopes[n + 1].status = "active"
        BY <1>3, <1>5, <1>9, <2>5
      <4>2. state.turn + MaxTurns >= state'.ceiling
        BY <1>7, <2>5, <2>t, StateNumbers
      <4> QED
        BY <4>1, <4>2 DEF OwnActive, OwnScopes
    <3>3. OwnActive' \subseteq 1..(n + 1)
      BY <1>5, <1>9 DEF OwnActive, OwnScopes
    <3>4. ASSUME NEW i \in 1..(n + 1), i \notin 1..n PROVE i = n + 1
      BY <2>5, <3>4
    <3>5. OwnActive' = {n + 1}
      BY <3>1, <3>2, <3>3, <3>4
    <3>6. active' = {n + 1}
      BY <1>1
    <3> QED
      BY <3>5, <3>6
  <2>8. ToolsPhase' /\ TurnBudget' /\ local' < MaxTurns /\ state'.turn <= state'.ceiling
    <3>1. phase' = "model" /\ local' = local /\ cuts' = cuts + 1
      BY <1>1, <1>9
    <3>2. s.turn = state.turn /\ s.ceiling = state.ceiling
      BY <1>3, <1>5
    <3>3. state'.turn <= state'.ceiling
      BY <1>9, <2>t, <3>2
    <3>4. TurnBudget'
      BY <1>7, <2>t, <3>1, TurnTaken
    <3> QED
      BY <1>7, <3>1, <3>3, <3>4 DEF ToolsPhase
  <2>9. active' \subseteq DOMAIN state'.scopes
    BY <1>1, <1>5, <1>9, <2>5
  <2> QED
    BY <1>2, <1>9, <2>4, <2>6, <2>7, <2>8, <2>9, GoOnStep
<1> QED
  BY <1>1, <1>5, <1>8, <1>9, NextTurnFacts

LEMMA ExecuteStep ==
  ASSUME LoopInv, ExecuteToolCalls
  PROVE  LoopInv'
<1>1. /\ phase = "tools" /\ executed' = executed \cup batch
      /\ runs' = runs /\ local' = local /\ attempts' = attempts /\ compacts' = compacts
      /\ active' = active /\ batch' = batch /\ issued' = issued /\ cut' = cut
      /\ dropped' = dropped /\ seen' = seen /\ stranded' = stranded /\ cuts' = cuts
  BY DEF ExecuteToolCalls
<1>2. /\ state.fresh = {} /\ active = {} /\ local >= 1 /\ batch \subseteq state.pending
      /\ batch \cap (cut \cup dropped \cup executed) = {} /\ batch \subseteq Calls
  BY <1>1 DEF LoopInv, TypeOK, ToolsPhase
<1>3. /\ state.turn + MaxTurns + 1 = state.ceiling + cuts + local
      /\ local < MaxTurns /\ state.turn <= state.ceiling /\ state.turn >= 1
  BY <1>1, StateNumbers DEF LoopInv, TurnBudget, RetriesBounded
<1>4. HistoryKept
  BY <1>1, <1>2, StateFacts, NoActive, LoopAssumption
     DEF HistoryKept, LoopInv, TypeOK, IdsIssued, CutNeverRuns, RetriesBounded
<1>5. PICK s \in {state, WithScope(state, "tool", "waiting"),
                  WithScope(state, "tool", "scheduled")} :
        IF ResultsMatchCalls(s, batch)
        THEN NextTurn(AppendToolResults(s, batch))
        ELSE Raise
  BY DEF ExecuteToolCalls
<1> DEFINE n == Len(state.scopes)
<1>6. n \in Nat /\ DOMAIN state.scopes = 1..n
      /\ \A i \in 1..n : state.scopes[i].turn <= state.turn /\ state.scopes[i].turn \in Nat
  BY StateFacts
<1> HIDE DEF n
\* A scope the tools left is no scope of the model's.
<1>7. /\ s \in AgentState
      /\ s.turn = state.turn /\ s.ceiling = state.ceiling /\ s.pending = state.pending
      /\ s.results = state.results /\ s.raw = state.raw
      /\ DOMAIN s.scopes \in {1..n, 1..(n + 1)}
      /\ \A i \in 1..n : s.scopes[i] = state.scopes[i]
      /\ n + 1 \in DOMAIN s.scopes =>
           s.scopes[n + 1].turn = state.turn /\ s.scopes[n + 1].kind = "tool"
  <2>1. CASE s = state
    BY <1>6, <2>1, StateNumbers
  <2>2. ASSUME NEW status \in {"waiting", "scheduled"}, s = WithScope(state, "tool", status)
        PROVE  <1>7!:
    <3>1. "tool" \in ModelFailures \cup {"tool"} /\ status \in ScopeStatuses
          /\ state \in AgentState
      BY StateNumbers DEF ScopeStatuses
    <3>2. /\ s \in AgentState
          /\ s.turn = state.turn /\ s.ceiling = state.ceiling /\ s.pending = state.pending
          /\ s.results = state.results /\ s.raw = state.raw
          /\ DOMAIN s.scopes = 1..(n + 1)
          /\ \A i \in 1..n : s.scopes[i] = state.scopes[i]
          /\ s.scopes[n + 1] = [turn |-> state.turn, kind |-> "tool", status |-> status]
      BY <2>2, <3>1, ScopeAppended DEF n
    <3> QED
      BY <3>2
  <2> QED
    BY <1>5, <2>1, <2>2
<1>8. ResultsMatchCalls(s, batch)
  BY <1>2, <1>3, <1>7 DEF ResultsMatchCalls
<1> DEFINE r == AppendToolResults(s, batch)
<1>9. NextTurn(r)
  BY <1>5, <1>8
<1>10. /\ r \in AgentState
       /\ r.turn = s.turn /\ r.ceiling = s.ceiling /\ r.scopes = s.scopes
       /\ r.pending = s.pending \ batch /\ r.results = s.results \cup batch
       /\ r.raw = s.raw \cup batch /\ r.fresh = batch
  BY <1>2, <1>7, ResultsAppended
<1> HIDE DEF r
<1>11. CASE r.turn + 1 > r.ceiling /\ Raise
  <2>1. state.turn + 1 > state.ceiling
    BY <1>7, <1>10, <1>11
  <2>2. cuts >= 2 /\ cuts + local > MaxTurns
    <3>1. /\ state.turn \in Nat /\ state.ceiling \in Nat
          /\ local \in Nat /\ cuts \in Nat /\ MaxTurns \in Nat
      BY StateNumbers
    <3> QED
      BY <1>3, <2>1, <3>1
  <2> QED
    BY <1>1, <1>4, <1>11, <2>2, RaiseStep
<1>12. CASE /\ r.turn + 1 <= r.ceiling
            /\ phase' = "model" /\ UNCHANGED <<session, outcome>>
            /\ state' \in AgentState
            /\ state'.turn = r.turn + 1 /\ state'.ceiling = r.ceiling
            /\ state'.pending = r.pending /\ state'.results = r.results
            /\ state'.raw = r.raw /\ state'.fresh = r.fresh /\ state'.scopes = r.scopes
  <2>1. state'.turn = state.turn + 1 /\ state'.ceiling = state.ceiling /\ state'.scopes = s.scopes
    BY <1>7, <1>10, <1>12
  <2>2. \A i \in DOMAIN state'.scopes : state'.scopes[i].turn <= state'.turn
    <3>1. ASSUME NEW i \in 1..n PROVE s.scopes[i].turn <= state.turn + 1
      <4>1. s.scopes[i] = state.scopes[i] /\ state.scopes[i].turn <= state.turn
            /\ state.scopes[i].turn \in Nat
        BY <1>6, <1>7
      <4> QED
        BY <4>1, StateNumbers
    <3>2. n + 1 \in DOMAIN s.scopes => s.scopes[n + 1].turn <= state.turn + 1
      BY <1>7, StateNumbers
    <3>3. \A i \in DOMAIN s.scopes : i \in 1..n \/ i = n + 1
      BY <1>6, <1>7
    <3> QED
      BY <2>1, <3>1, <3>2, <3>3
  <2>3. OwnActive' = active'
    <3>1. OwnActive = {}
      BY <1>1, <1>2 DEF LoopInv, RecoverySettled
    <3>2. ASSUME NEW i \in OwnActive' PROVE i \in OwnActive
      <4>1. /\ i \in DOMAIN s.scopes /\ s.scopes[i].turn + MaxTurns >= state.ceiling
            /\ s.scopes[i].kind # "tool" /\ s.scopes[i].status = "active"
        BY <2>1, <3>2 DEF OwnActive, OwnScopes
      <4>2. i \in 1..n
        BY <1>6, <1>7, <4>1
      <4>3. i \in DOMAIN state.scopes /\ s.scopes[i] = state.scopes[i]
        BY <1>6, <1>7, <4>2
      <4> QED
        BY <4>1, <4>3 DEF OwnActive, OwnScopes
    <3> QED
      BY <1>1, <1>2, <3>1, <3>2
  <2>4. state.pending \subseteq cut \cup dropped \cup batch
    BY <1>1 DEF LoopInv, OpenCallsExplained
  <2>5. /\ state'.pending \subseteq 1..issued' /\ state'.results \subseteq executed'
        /\ state'.raw \subseteq state'.results /\ state'.fresh \subseteq state'.results
        /\ state'.pending \subseteq cut' \cup dropped'
        /\ state'.pending \cap state'.results = {}
        /\ state'.raw \subseteq state'.fresh \cup seen' \cup stranded'
    BY <1>1, <1>2, <1>7, <1>10, <1>12, <2>4, StateFacts
  <2>6. /\ local' < MaxTurns /\ state'.turn <= state'.ceiling
    BY <1>1, <1>3, <1>7, <1>10, <1>12, <2>1
  <2>7. ToolsPhase' /\ TurnBudget'
    <3>1. phase' = "model" /\ local' = local /\ cuts' = cuts
      BY <1>1, <1>12
    <3>2. /\ state'.turn = state.turn + 1 /\ state'.ceiling = state.ceiling
      BY <2>1
    <3> QED
      BY <1>3, <3>1, <3>2, StateNumbers, TurnTaken DEF ToolsPhase
  <2> QED
    BY <1>1, <1>2, <1>4, <1>12, <2>2, <2>3, <2>5, <2>6, <2>7, GoOnStep
<1> QED
  BY <1>9, <1>10, <1>11, <1>12, NextTurnFacts

\* The scopes a run will finalize are finitely many.
LEMMA ActiveFinite ==
  ASSUME LoopInv, phase = "model"
  PROVE  /\ active \subseteq 1..Len(state.scopes) /\ OwnActive = active
         /\ IsFiniteSet(active) /\ Cardinality(active) \in Nat
<1>1. active \subseteq 1..Len(state.scopes) /\ Len(state.scopes) \in Nat
  BY StateFacts DEF LoopInv, TypeOK
<1>2. IsFiniteSet(1..Len(state.scopes))
  BY <1>1, FS_Interval
<1> QED
  BY <1>1, <1>2, FS_Subset, FS_CardinalityType DEF LoopInv, RecoverySettled

\* A failed call changes no history but the results it strands.
LEMMA FailureHistory ==
  ASSUME LoopInv, phase = "model", runs' = runs, local' = local, batch' = batch,
         issued' = issued, cut' = cut, dropped' = dropped, executed' = executed, seen' = seen,
         cuts' = cuts, stranded' \in {stranded, stranded \cup Visible(state)},
         attempts' \in Nat, attempts' < MaxRecovery,
         compacts' \in Nat, compacts' <= MaxCompacts,
         active' \subseteq Nat, Cardinality(active') <= attempts' + 1
  PROVE  HistoryKept
<1>1. /\ runs \in Nat /\ local \in Nat /\ cuts \in Nat /\ batch \subseteq Calls
      /\ issued \in 0..MaxCalls /\ cut \subseteq 1..issued /\ dropped \subseteq 1..issued
      /\ executed \subseteq 1..issued
  BY DEF LoopInv, TypeOK
<1>2. executed \cap (cut \cup dropped) = {} /\ seen \cup stranded \subseteq executed
  BY DEF LoopInv, CutNeverRuns, IdsIssued
<1>3. Visible(state) \subseteq executed
  BY StateFacts DEF Visible
<1> QED
  BY <1>1, <1>2, <1>3 DEF HistoryKept

\* A failed call is retried with a scope to finalize, or leaves one for the
\* restart.
LEMMA TransportStep ==
  ASSUME LoopInv, TransportFails
  PROVE  LoopInv'
<1> DEFINE kind == "model_transport_error"
           s == RegisterModelRecovery(state, kind, attempts + 1)
           n == Len(state.scopes)
<1>1. /\ phase = "model" /\ runs' = runs /\ local' = local /\ compacts' = compacts
      /\ batch' = batch /\ issued' = issued /\ cut' = cut /\ dropped' = dropped
      /\ executed' = executed /\ seen' = seen /\ cuts' = cuts
  BY DEF TransportFails
<1>2. \/ /\ Strategy(kind, attempts + 1) = "retry_now"
         /\ state' = s /\ attempts' = attempts + 1
         /\ active' = active \cup {Len(s.scopes)}
         /\ UNCHANGED <<session, phase, outcome, stranded>>
      \/ /\ Strategy(kind, attempts + 1) = "retry_later"
         /\ Stop(s, kind) /\ active' = {}
         /\ stranded' = stranded \cup Visible(state) /\ attempts' = attempts
  BY DEF TransportFails
<1>3. n \in Nat /\ DOMAIN state.scopes = 1..n /\ state \in AgentState
      /\ \A i \in 1..n : state.scopes[i].turn <= state.turn /\ state.scopes[i].turn \in Nat
  BY StateFacts
<1> HIDE DEF n
<1>4. /\ attempts \in Nat /\ attempts + 1 \in Nat /\ MaxRecovery \in Nat \ {0}
      /\ kind \in ModelFailures /\ kind \in ModelFailures \cup {"tool"}
  BY StateFacts, LoopAssumption DEF ModelFailures
<1> DEFINE status == StatusFor[Strategy(kind, attempts + 1)]
<1>5. /\ Strategy(kind, attempts + 1)
           = IF attempts + 1 >= MaxRecovery THEN "retry_later" ELSE "retry_now"
      /\ status = IF attempts + 1 >= MaxRecovery THEN "scheduled" ELSE "active"
      /\ status \in ScopeStatuses
  BY <1>4, ScopeStatus
<1>6. s = WithScope(state, kind, status)
  BY DEF RegisterModelRecovery
<1> HIDE DEF s, status
<1>7. /\ s \in AgentState
      /\ s.turn = state.turn /\ s.ceiling = state.ceiling /\ s.pending = state.pending
      /\ s.results = state.results /\ s.raw = state.raw /\ s.fresh = state.fresh
      /\ Len(s.scopes) = n + 1 /\ DOMAIN s.scopes = 1..(n + 1)
      /\ \A i \in 1..n : s.scopes[i] = state.scopes[i]
      /\ s.scopes[n + 1] = [turn |-> state.turn, kind |-> kind, status |-> status]
  BY <1>3, <1>4, <1>5, <1>6, ScopeAppended DEF n
<1>8. /\ state.turn + MaxTurns = state.ceiling + cuts + local
      /\ local < MaxTurns /\ state.turn <= state.ceiling /\ state.turn >= 1
      /\ state.turn + MaxTurns >= state.ceiling
  BY <1>1, StateNumbers DEF LoopInv, TurnBudget, RetriesBounded
<1>9. state.pending \subseteq cut \cup dropped
  BY <1>1 DEF LoopInv, OpenCallsExplained
<1>10. /\ active \subseteq 1..n /\ OwnActive = active /\ IsFiniteSet(active)
       /\ Cardinality(active) \in Nat /\ Cardinality(active) <= attempts + 1
       /\ compacts <= MaxCompacts /\ attempts < MaxRecovery
       /\ executed \cap (cut \cup dropped) = {} /\ seen \cup stranded \subseteq executed
  BY <1>1, ActiveFinite DEF n, LoopInv, RetriesBounded, CutNeverRuns, IdsIssued
<1>11. \A i \in DOMAIN s.scopes : s.scopes[i].turn <= s.turn
  BY <1>3, <1>4, <1>5, <1>6, StateFacts, ScopeTurns
<1>12. /\ s.pending \subseteq 1..issued' /\ s.results \subseteq executed'
       /\ s.raw \subseteq s.results /\ s.fresh \subseteq s.results
       /\ s.pending \subseteq cut' \cup dropped' /\ s.pending \cap s.results = {}
       /\ s.raw \subseteq s.fresh \cup seen' \cup stranded
  BY <1>1, <1>7, <1>9, StateFacts
<1>13. CASE /\ Strategy(kind, attempts + 1) = "retry_now"
            /\ state' = s /\ attempts' = attempts + 1
            /\ active' = active \cup {Len(s.scopes)}
            /\ UNCHANGED <<session, phase, outcome, stranded>>
  <2>1. attempts + 1 < MaxRecovery /\ status = "active"
    BY <1>4, <1>5, <1>13
  <2>2. active' = active \cup {n + 1} /\ active' \subseteq 1..(n + 1)
    BY <1>3, <1>7, <1>10, <1>13
  <2>3. Cardinality(active') <= attempts' + 1
    <3>1. Cardinality(active \cup {n + 1}) = Cardinality(active) + 1
      <4>1. IsFiniteSet(active) /\ n + 1 \notin active
        BY <1>3, <1>10
      <4> QED
        BY <4>1, FS_AddElement
    <3> QED
      <4>1. /\ attempts \in Nat /\ Cardinality(active) \in Nat
            /\ Cardinality(active) <= attempts + 1 /\ attempts' = attempts + 1
        BY <1>4, <1>10, <1>13
      <4>2. Cardinality(active') = Cardinality(active) + 1
        BY <2>2, <3>1
      <4> QED
        BY <4>1, <4>2
  <2>4. HistoryKept
    <3>1. active' \subseteq Nat /\ attempts' \in Nat /\ attempts' < MaxRecovery
          /\ compacts' \in Nat /\ compacts' <= MaxCompacts
      BY <1>1, <1>3, <1>4, <1>10, <1>13, <2>1, <2>2 DEF LoopInv, TypeOK
    <3> QED
      BY <1>1, <1>13, <2>3, <3>1, FailureHistory
  <2>5. OwnActive' = active'
    <3>1. ASSUME NEW i \in 1..n PROVE i \in OwnActive' <=> i \in OwnActive
      <4>1. /\ state'.scopes[i] = state.scopes[i] /\ state'.ceiling = state.ceiling
            /\ i \in DOMAIN state.scopes /\ i \in DOMAIN state'.scopes
        BY <1>3, <1>7, <1>13
      <4> QED
        BY <4>1 DEF OwnActive, OwnScopes
    <3>2. n + 1 \in OwnActive'
      BY <1>3, <1>7, <1>8, <1>13, <2>1 DEF OwnActive, OwnScopes
    <3>3. OwnActive' \subseteq 1..(n + 1)
      BY <1>7, <1>13 DEF OwnActive, OwnScopes
    <3> QED
      <4>1. active \subseteq 1..n /\ OwnActive = active /\ n \in Nat
        BY <1>3, <1>10
      <4>2. active' = active \cup {n + 1}
        BY <2>2
      <4>3. \A i \in 1..(n + 1) : i \in 1..n \/ i = n + 1
        BY <4>1
      <4>4. OwnActive' \subseteq active \cup {n + 1}
        BY <3>1, <3>3, <4>1, <4>3
      <4>5. active \cup {n + 1} \subseteq OwnActive'
        BY <3>1, <3>2, <4>1
      <4> QED
        BY <4>2, <4>4, <4>5
  <2>6. ToolsPhase' /\ TurnBudget'
    BY <1>1, <1>7, <1>8, <1>13, StateNumbers DEF ToolsPhase, TurnBudget
  <2>7. /\ local' < MaxTurns /\ state'.turn <= state'.ceiling
        /\ active' \subseteq DOMAIN state'.scopes /\ phase' = "model"
    BY <1>1, <1>7, <1>8, <1>13, <2>2
  <2>8. stranded' = stranded /\ session' = session /\ outcome' = outcome
    BY <1>13
  <2> QED
    BY <1>7, <1>11, <1>12, <1>13, <2>4, <2>5, <2>6, <2>7, <2>8, GoOnStep
<1>14. CASE /\ Strategy(kind, attempts + 1) = "retry_later"
            /\ Stop(s, kind) /\ active' = {}
            /\ stranded' = stranded \cup Visible(state) /\ attempts' = attempts
  <2>1. status = "scheduled"
    BY <1>5, <1>14
  <2>2. s.raw \subseteq seen' \cup stranded' /\ stranded' \subseteq executed'
    BY <1>1, <1>7, <1>10, <1>14, StateFacts DEF Visible
  <2>3. HistoryKept
    <3>1. active' \subseteq Nat /\ attempts' \in Nat /\ attempts' < MaxRecovery
          /\ compacts' \in Nat /\ compacts' <= MaxCompacts /\ Cardinality(active') <= attempts' + 1
      BY <1>1, <1>4, <1>10, <1>14, NoActive DEF LoopInv, TypeOK
    <3> QED
      BY <1>1, <1>14, <3>1, FailureHistory
  <2>4. RecoverySettled'
    <3>1. phase' = "idle" /\ outcome' = kind /\ state' = s
      BY <1>14 DEF Stop
    <3>2. n + 1 \in OwnScopes' /\ state'.scopes[n + 1].status = "scheduled"
      BY <1>3, <1>7, <1>8, <2>1, <3>1 DEF OwnScopes
    <3> QED
      BY <3>1, <3>2 DEF RecoverySettled
  <2>5. kind \in Outcomes \ {"raised"}
    BY DEF Outcomes
  <2> QED
    BY <1>7, <1>11, <1>12, <1>14, <2>2, <2>3, <2>4, <2>5, StopStep
<1> QED
  BY <1>2, <1>13, <1>14

\* An overflow compacts once more or ends the run.
LEMMA OverflowStep ==
  ASSUME LoopInv, OverflowFails
  PROVE  LoopInv'
<1> DEFINE kind == "context_overflow"
           s == RegisterModelRecovery(state, kind, attempts + 1)
           n == Len(state.scopes)
<1>1. /\ phase = "model" /\ runs' = runs /\ local' = local /\ attempts' = attempts
      /\ batch' = batch /\ issued' = issued /\ cut' = cut /\ dropped' = dropped
      /\ executed' = executed /\ seen' = seen /\ cuts' = cuts
  BY DEF OverflowFails
<1>2. \/ /\ compacts < MaxCompacts /\ compacts' = compacts + 1
         /\ state' = [state EXCEPT !.raw = {}]
         /\ UNCHANGED <<session, phase, outcome, active, stranded>>
      \/ /\ compacts >= MaxCompacts /\ Stop(s, kind) /\ active' = {}
         /\ stranded' = stranded \cup Visible(state) /\ compacts' = compacts
  BY DEF OverflowFails
<1>3. n \in Nat /\ DOMAIN state.scopes = 1..n /\ state \in AgentState
      /\ \A i \in 1..n : state.scopes[i].turn <= state.turn /\ state.scopes[i].turn \in Nat
  BY StateFacts
<1> HIDE DEF n
<1>4. /\ state.turn + MaxTurns = state.ceiling + cuts + local
      /\ local < MaxTurns /\ state.turn <= state.ceiling /\ state.turn >= 1
      /\ state.turn + MaxTurns >= state.ceiling
  BY <1>1, StateNumbers DEF LoopInv, TurnBudget, RetriesBounded
<1>5. state.pending \subseteq cut \cup dropped
  BY <1>1 DEF LoopInv, OpenCallsExplained
<1>6. /\ active \subseteq 1..n /\ OwnActive = active /\ IsFiniteSet(active)
      /\ Cardinality(active) \in Nat /\ Cardinality(active) <= attempts + 1
      /\ compacts <= MaxCompacts /\ attempts < MaxRecovery
      /\ executed \cap (cut \cup dropped) = {} /\ seen \cup stranded \subseteq executed
      /\ attempts \in Nat /\ compacts \in Nat /\ MaxCompacts \in Nat
  BY <1>1, ActiveFinite, LoopAssumption
     DEF n, LoopInv, TypeOK, RetriesBounded, CutNeverRuns, IdsIssued
<1>7. CASE /\ compacts < MaxCompacts /\ compacts' = compacts + 1
           /\ state' = [state EXCEPT !.raw = {}]
           /\ UNCHANGED <<session, phase, outcome, active, stranded>>
  <2>1. /\ state' \in AgentState
        /\ state'.turn = state.turn /\ state'.ceiling = state.ceiling
        /\ state'.pending = state.pending /\ state'.results = state.results
        /\ state'.raw = {} /\ state'.fresh = state.fresh /\ state'.scopes = state.scopes
    BY <1>3, <1>7 DEF AgentState
  <2>2. HistoryKept
    <3>1. active' \subseteq Nat /\ attempts' \in Nat /\ attempts' < MaxRecovery
          /\ compacts' \in Nat /\ compacts' <= MaxCompacts /\ Cardinality(active') <= attempts' + 1
      BY <1>1, <1>3, <1>6, <1>7
    <3> QED
      BY <1>1, <1>7, <3>1, FailureHistory
  <2>3. OwnActive' = active'
    BY <1>6, <1>7, <2>1 DEF OwnActive, OwnScopes
  <2>4. ToolsPhase' /\ TurnBudget'
    BY <1>1, <1>4, <1>7, <2>1, StateNumbers DEF ToolsPhase, TurnBudget
  <2>5. /\ state'.pending \subseteq 1..issued' /\ state'.results \subseteq executed'
        /\ state'.raw \subseteq state'.results /\ state'.fresh \subseteq state'.results
        /\ state'.pending \subseteq cut' \cup dropped'
        /\ state'.pending \cap state'.results = {}
        /\ state'.raw \subseteq state'.fresh \cup seen' \cup stranded'
    BY <1>1, <1>5, <1>7, <2>1, StateFacts
  <2>6. /\ local' < MaxTurns /\ state'.turn <= state'.ceiling
        /\ active' \subseteq DOMAIN state'.scopes /\ phase' = "model"
        /\ \A i \in DOMAIN state'.scopes : state'.scopes[i].turn <= state'.turn
    BY <1>1, <1>3, <1>4, <1>6, <1>7, <2>1
  <2> QED
    BY <1>7, <2>1, <2>2, <2>3, <2>4, <2>5, <2>6, GoOnStep
<1>8. CASE /\ compacts >= MaxCompacts /\ Stop(s, kind) /\ active' = {}
           /\ stranded' = stranded \cup Visible(state) /\ compacts' = compacts
  <2>1. s = WithScope(state, kind, "waiting")
        /\ kind \in ModelFailures \cup {"tool"} /\ "waiting" \in ScopeStatuses
    BY <1>6, ScopeStatus DEF RegisterModelRecovery, ModelFailures, ScopeStatuses
  <2> HIDE DEF s
  <2>2. /\ s \in AgentState
        /\ s.turn = state.turn /\ s.ceiling = state.ceiling /\ s.pending = state.pending
        /\ s.results = state.results /\ s.raw = state.raw /\ s.fresh = state.fresh
        /\ DOMAIN s.scopes = 1..(n + 1)
        /\ \A i \in 1..n : s.scopes[i] = state.scopes[i]
        /\ s.scopes[n + 1] = [turn |-> state.turn, kind |-> kind, status |-> "waiting"]
    BY <1>3, <2>1, ScopeAppended DEF n
  <2>3. \A i \in DOMAIN s.scopes : s.scopes[i].turn <= s.turn
    BY <1>3, <2>1, StateFacts, ScopeTurns
  <2>4. /\ s.raw \subseteq seen' \cup stranded' /\ stranded' \subseteq executed'
        /\ s.pending \subseteq 1..issued' /\ s.results \subseteq executed'
        /\ s.raw \subseteq s.results /\ s.fresh \subseteq s.results
        /\ s.pending \subseteq cut' \cup dropped' /\ s.pending \cap s.results = {}
    BY <1>1, <1>5, <1>6, <1>8, <2>2, StateFacts DEF Visible
  <2>5. HistoryKept
    <3>1. active' \subseteq Nat /\ attempts' \in Nat /\ attempts' < MaxRecovery
          /\ compacts' \in Nat /\ compacts' <= MaxCompacts /\ Cardinality(active') <= attempts' + 1
      BY <1>1, <1>6, <1>8, NoActive
    <3> QED
      BY <1>1, <1>8, <3>1, FailureHistory
  <2>6. RecoverySettled'
    <3>1. phase' = "idle" /\ outcome' = kind /\ state' = s
      BY <1>8 DEF Stop
    <3>2. n + 1 \in OwnScopes' /\ state'.scopes[n + 1].status = "waiting"
      BY <1>3, <1>4, <2>2, <3>1 DEF OwnScopes
    <3> QED
      BY <3>1, <3>2 DEF RecoverySettled
  <2>7. kind \in Outcomes \ {"raised"}
    BY DEF Outcomes
  <2> QED
    BY <1>8, <2>2, <2>3, <2>4, <2>5, <2>6, <2>7, StopStep
<1> QED
  BY <1>2, <1>7, <1>8

----------------------------------------------------------------------------
(* The theorems *)

LEMMA LoopInit == Init => LoopInv
<1> SUFFICES ASSUME Init PROVE LoopInv
  OBVIOUS
<1>1. NoState \in AgentState /\ NoState.pending = {} /\ NoState.results = {}
      /\ NoState.raw = {} /\ NoState.fresh = {} /\ NoState.scopes = << >>
      /\ DOMAIN NoState.scopes = {}
  BY DEF NoState, AgentState
<1>2. TypeOK
  BY <1>1, LoopAssumption DEF Init, TypeOK, Outcomes
<1>3. SessionKept /\ IdsIssued /\ SessionExplained /\ ToolsPhase /\ TurnBudget
  BY <1>1 DEF Init, SessionKept, IdsIssued, SessionExplained, ToolsPhase, TurnBudget
<1>4. OpenCallsExplained /\ CutNeverRuns /\ SeenBeforeReceipt /\ RecoverySettled
  BY <1>1 DEF Init, OpenCallsExplained, CutNeverRuns, SeenBeforeReceipt, RecoverySettled
<1>5. RetriesBounded /\ RaisesOnlyAfterCuts
  BY NoActive, LoopAssumption DEF Init, RetriesBounded, RaisesOnlyAfterCuts
<1> QED
  BY <1>2, <1>3, <1>4, <1>5 DEF LoopInv

LEMMA LoopStutters ==
  ASSUME LoopInv, UNCHANGED vars
  PROVE  LoopInv'
BY DEF vars, agentVars, history, LoopInv, TypeOK, SessionKept, IdsIssued,
       SessionExplained,
       ToolsPhase, TurnBudget, OpenCallsExplained, CutNeverRuns, SeenBeforeReceipt,
       RecoverySettled, RetriesBounded, RaisesOnlyAfterCuts, OwnActive, OwnScopes

\* In every reachable state of the loop: open calls are explained, calls that
\* were cut off never run, results are seen before they become receipts, the
\* recovery of a run is settled when it ends, and only truncated answers make
\* it raise (core_loop.py run_until_stop).
THEOREM LoopCorrect == Spec => []LoopInv
<1>1. LoopInv /\ [Next]_vars => LoopInv'
  <2> SUFFICES ASSUME LoopInv, [Next]_vars PROVE LoopInv'
    OBVIOUS
  <2>1. CASE PrepareState
    BY <2>1, PrepareStep
  <2>2. CASE LoopStep
    BY <2>2, FinishStep, MaxTokensStep, MaxTurnsStep, AskToolsStep, ExecuteStep,
       TransportStep, OverflowStep DEF LoopStep
  <2>3. CASE UNCHANGED vars
    BY <2>3, LoopStutters
  <2> QED
    BY <2>1, <2>2, <2>3 DEF Next
<1> QED
  BY <1>1, LoopInit, PTL DEF Spec

----------------------------------------------------------------------------
(* Results leave the caller only by an exception *)

\* The calls without a result are the same ones after the step.
LostFor(s) == executed' \ s.results = executed \ state.results

LEMMA AnswerKeepsResults ==
  ASSUME LoopInv, NEW calls \in SUBSET Calls, ModelAnswers(calls)
  PROVE  LostFor(Answered(calls))
BY AnswerFacts DEF ModelAnswers, LostFor

LEMMA NextTurnKeepsResults ==
  ASSUME NEW s \in AgentState, NextTurn(s), LostFor(s)
  PROVE  LostFor(state') \/ (phase' = "idle" /\ outcome' = "raised")
BY NextTurnFacts DEF Raise, LostFor

LEMMA ResultsUnderScope ==
  ASSUME NEW s \in AgentState, NEW kind \in ModelFailures \cup {"tool"},
         NEW status \in ScopeStatuses, NEW w, w = WithScope(s, kind, status)
  PROVE  /\ w \in AgentState /\ w.results = s.results
         /\ w.turn = s.turn /\ w.ceiling = s.ceiling
<1> DEFINE grown == Append(s.scopes, [turn |-> s.turn, kind |-> kind, status |-> status])
<1>1. grown \in Seq(Scopes)
  BY DEF AgentState, Scopes
<1>2. w = [s EXCEPT !.scopes = grown]
  BY DEF WithScope
<1> HIDE DEF grown
<1> QED
  BY <1>1, <1>2 DEF AgentState

LEMMA RecoveryKeepsResults ==
  ASSUME NEW s \in AgentState, NEW kind \in ModelFailures, NEW n \in Nat, LostFor(s)
  PROVE  RegisterModelRecovery(s, kind, n) \in AgentState
         /\ LostFor(RegisterModelRecovery(s, kind, n))
<1> DEFINE status == StatusFor[Strategy(kind, n)]
           w == RegisterModelRecovery(s, kind, n)
<1>1. status \in ScopeStatuses /\ kind \in ModelFailures \cup {"tool"}
  BY ScopeStatus
<1>2. w = WithScope(s, kind, status)
  BY DEF RegisterModelRecovery
<1> HIDE DEF w, status
<1>3. w \in AgentState /\ w.results = s.results
  BY <1>1, <1>2, ResultsUnderScope
<1>4. LostFor(w)
  BY <1>3 DEF LostFor
<1> QED
  BY <1>3, <1>4 DEF w

\* A step in which an executed call loses its result ends the run with an
\* exception (core_loop.py run_turn, runtime_loop.py _run_loop_and_store_result).
THEOREM ResultsSurvive == Spec => ResultsKept
<1>1. ASSUME LoopInv, [Next]_vars
      PROVE  [LostFor(state') \/ (phase' = "idle" /\ outcome' = "raised")]_vars
  <2>1. CASE PrepareState
    <3>1. state' = [state EXCEPT !.turn = state.turn + 1, !.ceiling = state.turn + 1 + MaxTurns,
                                 !.fresh = {}]
      BY <2>1 DEF PrepareState, Ceiling
    <3>2. state \in AgentState /\ state.turn + 1 \in Nat /\ state.turn + 1 + MaxTurns \in Nat
      BY <1>1, StateNumbers
    <3>3. state'.results = state.results
      BY <3>1, <3>2 DEF AgentState
    <3> QED
      BY <2>1, <3>3 DEF PrepareState, LostFor
  <2>2. CASE Finish
    BY <1>1, <2>2, AnswerKeepsResults DEF Finish, Stop
  <2>3. ASSUME NEW calls \in SUBSET Calls, MaxTokens(calls)
        PROVE  LostFor(state') \/ (phase' = "idle" /\ outcome' = "raised")
    <3> DEFINE a == Answered(calls)
               s == RegisterModelRecovery(a, "model_max_tokens", 1)
    <3>1. ModelAnswers(calls) /\ NextTurn(s)
      BY <2>3 DEF MaxTokens
    <3>2. a \in AgentState /\ LostFor(a)
      BY <1>1, <3>1, AnswerKeepsResults, AnswerFacts
    <3> HIDE DEF a
    <3>3. s \in AgentState /\ LostFor(s)
      BY <3>2, RecoveryKeepsResults DEF ModelFailures
    <3> HIDE DEF s
    <3> QED
      BY <3>1, <3>3, NextTurnKeepsResults
  <2>4. ASSUME NEW calls \in SUBSET Calls, MaxTurnsReached(calls) \/ AskTools(calls)
        PROVE  LostFor(state')
    BY <1>1, <2>4, AnswerKeepsResults DEF MaxTurnsReached, AskTools, Stop
  <2>5. CASE ExecuteToolCalls
    <3>1. PICK s \in {state, WithScope(state, "tool", "waiting"),
                      WithScope(state, "tool", "scheduled")} :
            IF ResultsMatchCalls(s, batch)
            THEN NextTurn(AppendToolResults(s, batch))
            ELSE Raise
      BY <2>5 DEF ExecuteToolCalls
    <3>2. s \in AgentState /\ s.results = state.results
      <4>1. state \in AgentState /\ "tool" \in ModelFailures \cup {"tool"}
            /\ "waiting" \in ScopeStatuses /\ "scheduled" \in ScopeStatuses
        BY <1>1, StateNumbers DEF ScopeStatuses
      <4>2. CASE s = state
        BY <4>1, <4>2
      <4>3. ASSUME NEW status \in ScopeStatuses, s = WithScope(state, "tool", status)
            PROVE  s \in AgentState /\ s.results = state.results
        BY <4>1, <4>3, ResultsUnderScope
      <4> QED
        BY <3>1, <4>1, <4>2, <4>3
    <3>3. executed' = executed \cup batch /\ batch \in SUBSET Calls
          /\ batch \cap executed = {}
      BY <1>1, <2>5 DEF ExecuteToolCalls, LoopInv, TypeOK, ToolsPhase
    <3>4. AppendToolResults(s, batch) \in AgentState
          /\ LostFor(AppendToolResults(s, batch))
      BY <3>2, <3>3, ResultsAppended DEF LostFor
    <3>5. CASE NextTurn(AppendToolResults(s, batch))
      BY <3>4, <3>5, NextTurnKeepsResults
    <3>6. CASE Raise
      BY <3>6 DEF Raise
    <3> QED
      BY <3>1, <3>5, <3>6
  <2>6. CASE TransportFails
    <3>1. state' = RegisterModelRecovery(state, "model_transport_error", attempts + 1)
          /\ executed' = executed
      BY <2>6 DEF TransportFails, Stop
    <3>2. state \in AgentState /\ attempts + 1 \in Nat /\ LostFor(state)
      BY <1>1, <3>1, StateFacts DEF LostFor
    <3> QED
      BY <3>1, <3>2, RecoveryKeepsResults DEF ModelFailures
  <2>7. CASE OverflowFails
    <3>1. /\ executed' = executed
          /\ \/ state' = [state EXCEPT !.raw = {}]
             \/ state' = RegisterModelRecovery(state, "context_overflow", attempts + 1)
      BY <2>7 DEF OverflowFails, Stop
    <3>2. state \in AgentState /\ attempts + 1 \in Nat /\ LostFor(state)
      BY <1>1, <3>1, StateFacts DEF LostFor
    <3>3. CASE state' = [state EXCEPT !.raw = {}]
      BY <3>1, <3>2, <3>3 DEF AgentState, LostFor
    <3> QED
      BY <3>1, <3>2, <3>3, RecoveryKeepsResults DEF ModelFailures
  <2> QED
    BY <1>1, <2>1, <2>2, <2>3, <2>4, <2>5, <2>6, <2>7 DEF Next, LoopStep
<1>2. [LostFor(state') \/ (phase' = "idle" /\ outcome' = "raised")]_vars
        => [executed' \ state'.results # executed \ state.results
              => phase' = "idle" /\ outcome' = "raised"]_vars
  BY DEF LostFor
<1> QED
  BY <1>1, <1>2, LoopCorrect, PTL DEF Spec, ResultsKept

----------------------------------------------------------------------------
(* Progress of a run *)

LEMMA NextTurnAdvances ==
  ASSUME NEW s \in AgentState, NextTurn(s), phase' # "idle",
         s.turn = state.turn, s.ceiling = state.ceiling
  PROVE  RunAdvances
BY NextTurnFacts DEF Raise, RunAdvances

LEMMA TurnsUnderRecovery ==
  ASSUME NEW s \in AgentState, NEW kind \in ModelFailures, NEW n \in Nat,
         NEW w, w = RegisterModelRecovery(s, kind, n)
  PROVE  w \in AgentState /\ w.turn = s.turn /\ w.ceiling = s.ceiling
<1> DEFINE status == StatusFor[Strategy(kind, n)]
<1>1. status \in ScopeStatuses /\ kind \in ModelFailures \cup {"tool"}
  BY ScopeStatus
<1>2. w = WithScope(s, kind, status)
  BY DEF RegisterModelRecovery
<1> HIDE DEF status
<1> QED
  BY <1>1, <1>2, ResultsUnderScope

LEMMA MaxTokensAdvances ==
  ASSUME LoopInv, NEW calls \in SUBSET Calls, MaxTokens(calls), phase' # "idle"
  PROVE  RunAdvances
<1>1. PICK a : a = Answered(calls)
  OBVIOUS
<1>2. PICK s : s = RegisterModelRecovery(a, "model_max_tokens", 1)
  OBVIOUS
<1>3. ModelAnswers(calls) /\ NextTurn(s)
  BY <1>1, <1>2 DEF MaxTokens
<1>4. a \in AgentState /\ a.turn = state.turn /\ a.ceiling = state.ceiling
  BY <1>1, <1>3, AnswerFacts
<1>5. s \in AgentState /\ s.turn = state.turn /\ s.ceiling = state.ceiling
  BY <1>2, <1>4, TurnsUnderRecovery DEF ModelFailures
<1> QED
  BY <1>3, <1>5, NextTurnAdvances

LEMMA AskToolsAdvances ==
  ASSUME LoopInv, NEW calls \in SUBSET Calls, AskTools(calls)
  PROVE  RunAdvances
<1>1. ModelAnswers(calls) /\ state' = Answered(calls) /\ phase' = "tools"
  BY DEF AskTools
<1>2. phase = "model"
  BY <1>1 DEF ModelAnswers
<1>3. state'.turn = state.turn /\ state'.ceiling = state.ceiling
  BY <1>1, AnswerFacts
<1> QED
  BY <1>1, <1>2, <1>3 DEF RunAdvances

LEMMA ExecuteAdvances ==
  ASSUME LoopInv, ExecuteToolCalls, phase' # "idle"
  PROVE  RunAdvances
<1>1. PICK s \in {state, WithScope(state, "tool", "waiting"),
                  WithScope(state, "tool", "scheduled")} :
        IF ResultsMatchCalls(s, batch)
        THEN NextTurn(AppendToolResults(s, batch))
        ELSE Raise
  BY DEF ExecuteToolCalls
<1>2. s \in AgentState /\ s.turn = state.turn /\ s.ceiling = state.ceiling
  <2>1. state \in AgentState /\ "tool" \in ModelFailures \cup {"tool"}
        /\ "waiting" \in ScopeStatuses /\ "scheduled" \in ScopeStatuses
    BY StateNumbers DEF ScopeStatuses
  <2>2. ASSUME NEW status \in ScopeStatuses, s = WithScope(state, "tool", status)
        PROVE  s \in AgentState /\ s.turn = state.turn /\ s.ceiling = state.ceiling
    BY <2>1, <2>2, ResultsUnderScope
  <2> QED
    BY <1>1, <2>1, <2>2
<1>3. NextTurn(AppendToolResults(s, batch))
  BY <1>1 DEF Raise
<1>4. PICK w : w = AppendToolResults(s, batch)
  OBVIOUS
<1>5. w \in AgentState /\ w.turn = state.turn /\ w.ceiling = state.ceiling
  <2>1. batch \in SUBSET Calls
    BY DEF LoopInv, TypeOK
  <2> QED
    BY <1>2, <1>4, <2>1, ResultsAppended
<1> QED
  BY <1>3, <1>4, <1>5, NextTurnAdvances

LEMMA TransportAdvances ==
  ASSUME LoopInv, TransportFails, phase' # "idle"
  PROVE  RunAdvances
<1>1. /\ phase = "model" /\ phase' = "model" /\ compacts' = compacts
      /\ Strategy("model_transport_error", attempts + 1) = "retry_now"
      /\ attempts' = attempts + 1
      /\ state' = RegisterModelRecovery(state, "model_transport_error", attempts + 1)
  BY DEF TransportFails, Stop
<1>2. state \in AgentState /\ attempts + 1 \in Nat /\ MaxRecovery \in Nat
  BY StateFacts, LoopAssumption
<1>3. attempts + 1 < MaxRecovery
  BY <1>1, <1>2 DEF Strategy
<1>4. state'.turn = state.turn /\ state'.ceiling = state.ceiling
  <2>1. PICK w : w = RegisterModelRecovery(state, "model_transport_error", attempts + 1)
    OBVIOUS
  <2>2. PICK n \in Nat : n = attempts + 1
    BY <1>2
  <2>3. "model_transport_error" \in ModelFailures
    BY DEF ModelFailures
  <2>4. w.turn = state.turn /\ w.ceiling = state.ceiling
    BY <1>2, <2>1, <2>2, <2>3, TurnsUnderRecovery
  <2> QED
    BY <1>1, <2>1, <2>4
<1> QED
  BY <1>1, <1>3, <1>4 DEF RunAdvances

LEMMA OverflowAdvances ==
  ASSUME LoopInv, OverflowFails, phase' # "idle"
  PROVE  RunAdvances
<1>1. /\ phase = "model" /\ phase' = "model" /\ compacts < MaxCompacts
      /\ compacts' = compacts + 1 /\ state' = [state EXCEPT !.raw = {}]
  BY DEF OverflowFails, Stop
<1>2. state \in AgentState /\ compacts \in Nat /\ MaxCompacts \in Nat
  BY StateFacts, LoopAssumption
<1>3. state'.turn = state.turn /\ state'.ceiling = state.ceiling
  BY <1>1, <1>2 DEF AgentState
<1>4. compacts' <= MaxCompacts
  BY <1>1, <1>2
<1> QED
  BY <1>1, <1>3, <1>4 DEF RunAdvances

\* A run has only so many steps: each takes a turn below the ceiling, the
\* tools of the turn, a compaction or an attempt (core_loop.py run_until_stop).
THEOREM RunsOnlyAdvance == Spec => RunsAdvance
<1>1. ASSUME LoopInv, Next, phase # "idle", phase' # "idle"
      PROVE  RunAdvances
  <2>1. ~PrepareState /\ ~Finish /\ \A calls \in SUBSET Calls : ~MaxTurnsReached(calls)
    BY <1>1 DEF PrepareState, Finish, MaxTurnsReached, Stop
  <2> QED
    BY <1>1, <2>1, MaxTokensAdvances, AskToolsAdvances, ExecuteAdvances, TransportAdvances,
       OverflowAdvances DEF Next, LoopStep
<1>2. LoopInv /\ [Next]_vars => [phase # "idle" /\ phase' # "idle" => RunAdvances]_vars
  BY <1>1
<1> QED
  BY <1>2, LoopCorrect, PTL DEF Spec, RunsAdvance

----------------------------------------------------------------------------
(* The chat: its invariant *)

\* What the /chat sessions and the loop must keep, together.
ChatInv ==
  /\ ContextInv
  /\ SummarizedOnce
  /\ ReceiptsJournaled
  /\ SummariesJournaled

----------------------------------------------------------------------------
(* The chat: numbers, conversations and keys *)

LEMMA ChatNumbers ==
  /\ MaxTasks \in Nat /\ MaxResults \in Nat /\ MaxFaults \in Nat /\ MaxCommands \in Nat
  /\ MaxModelRecovery \in Nat /\ MaxModelRecovery >= 1 /\ ResultTokens \in Nat
  /\ None \notin Nat /\ None \notin Sessions
BY ContextAssumption DEF Sessions

LEMMA RawFacts ==
  ASSUME NEW c \in Conversations
  PROVE  /\ c.raw \in SUBSET Results /\ KeptRaw(c) \in SUBSET c.raw
         /\ CompactedIds(c) \in SUBSET c.raw /\ CompactedIds(c) \in SUBSET Results
         /\ EstimateTokens(c) \in Nat
<1>1. c.raw \in SUBSET Results /\ c.len \in Nat
  BY DEF Conversations
<1>2. KeptRaw(c) \in SUBSET c.raw /\ CompactedIds(c) \in SUBSET c.raw
  BY DEF KeptRaw, CompactedIds
<1>3. IsFiniteSet(Results) /\ KeptRaw(c) \in SUBSET Results
  BY <1>1, <1>2, FS_Interval, ChatNumbers DEF Results
<1>4. Cardinality(KeptRaw(c)) \in Nat
  BY <1>3, FS_Subset, FS_CardinalityType
<1>5. \A m, n \in Nat : m * n \in Nat
  OBVIOUS
<1>6. EstimateTokens(c) \in Nat
  BY <1>1, <1>4, <1>5, ChatNumbers DEF EstimateTokens
<1> QED
  BY <1>1, <1>2, <1>6

\* A new task continues the conversation, or begins one.
LEMMA PreparedFacts ==
  ASSUME NEW c \in Conversations \cup {None}, NEW user \in Nat
  PROVE  /\ PrepareConversation(c, user) \in Conversations
         /\ c = None => PrepareConversation(c, user).results = 0
         /\ c # None => /\ PrepareConversation(c, user).results = c.results
                        /\ PrepareConversation(c, user).raw = c.raw
<1>1. CASE c = None
  BY <1>1 DEF PrepareConversation, FirstMessages, Conversations, Transitions
<1>2. CASE c # None
  <2>1. /\ c.turn + 1 \in Nat /\ c.len + 1 \in Nat /\ {} \in SUBSET Results
        /\ "user_continuation" \in Transitions
    BY <1>2 DEF Conversations, Transitions
  <2>2. PrepareConversation(c, user) =
        [c EXCEPT !.turn = c.turn + 1, !.len = c.len + 1, !.user = user, !.fresh = {},
                  !.transition = "user_continuation"]
    BY <1>2 DEF PrepareConversation
  <2> QED
    BY <1>2, <2>1, <2>2 DEF Conversations
<1> QED
  BY <1>1, <1>2

LEMMA PublishedFacts ==
  ASSUME NEW c \in Conversations, NEW before \in WorkingSets \cup {None}
  PROVE  WorkingSet(c) \in WorkingSets /\ StateDelta(before, WorkingSet(c)) \in Deltas
<1>1. WorkingSet(c) \in WorkingSets
  BY DEF WorkingSet, WorkingSets, Conversations, ToolsUsed
<1>2. \A now : StateDelta(before, now) \in Deltas
  BY DEF StateDelta, Changed, Deltas
<1> QED
  BY <1>1, <1>2

\* The invariant at one thread.
LEMMA AtThread ==
  ASSUME ContextInv, NEW t \in Threads
  PROVE  /\ pc[t] \in Places /\ look[t] \in Looks
         /\ pc[t] \in Idle => sess[t] = None /\ st[t] = None
         /\ pc[t] \notin Idle => /\ sess[t] \in Sessions /\ st[t] \in Conversations
                                 /\ mgr[sess[t]] \in Managers /\ persistent \in Sessions
         /\ pc[t] = "use" => persistent \in Sessions
         /\ pc[t] # "audit" => look[t].summary = None
         /\ conv \in [Sessions -> Conversations \cup {None}]
BY DEF ContextInv, ChatTypeOK, PlacesAgree

\* What PhaseSummaryPolicy decides.
LEMMA TriggerFacts ==
  ASSUME ContextInv, NEW t \in Threads, pc[t] = "evaluate"
  PROVE  /\ TriggerKey(t) \in Keys
         /\ TriggerKey(t).session = sess[t]
         /\ TriggerKey(t).reason = "manual_compress" <=> t = "console"
<1> DEFINE s == sess[t]
           c == IF t = "chat" THEN st[t] ELSE conv[s]
           force == IF t = "console" THEN "manual_compress"
                    ELSE IF forced THEN "context_overflow" ELSE ""
           ph == PhaseOf(look[t].ws, mgr[s].delta)
           why == ReasonOf(force, ph, mgr[s].tokens)
<1>1. s \in Sessions /\ c \in Conversations /\ mgr[s].tokens \in Nat
  BY AtThread DEF ContextInv, PlacesAgree, Idle, Managers, Threads
<1>2. ph \in Phases
  BY DEF PhaseOf, Phases
<1>3. why \in Reasons /\ (why = "manual_compress" <=> t = "console")
  BY DEF ReasonOf, Reasons, Threads
<1>4. TriggerKey(t) =
        [session |-> s, turn |-> c.turn, len |-> c.len, reason |-> why,
         phase |-> IF why = "none" THEN "none" ELSE ph, tokens |-> mgr[s].tokens]
  BY DEF TriggerKey
<1>5. c.turn \in Nat /\ c.len \in Nat /\ "none" \in Phases
  BY <1>1 DEF Conversations, Phases
<1> HIDE DEF c, force, ph, why
<1> QED
  BY <1>1, <1>2, <1>3, <1>4, <1>5 DEF Keys

----------------------------------------------------------------------------
(* The chat: what a step that leaves a part of the state alone preserves *)

ServiceType ==
  /\ accepted \in 0..MaxTasks /\ processed \in 0..accepted
  /\ persistent \in Sessions \cup {None} /\ created \in 0..2
  /\ conv \in [Sessions -> Conversations \cup {None}]

FileType ==
  /\ mgr \in [Sessions -> Managers]
  /\ completed \in [Sessions -> SUBSET Keys] /\ audited \in [Sessions -> SUBSET Keys]
  /\ summaries \subseteq [id : Nat, key : Keys]

ThreadType ==
  /\ pc \in [Threads -> Places] /\ pc["console"] \notin {"audit", "call", "compact"}
  /\ sess \in [Threads -> Sessions \cup {None}]
  /\ st \in [Threads -> Conversations \cup {None}]
  /\ look \in [Threads -> Looks]

CountType ==
  /\ forced \in BOOLEAN /\ raced \in BOOLEAN
  /\ transportAttempts \in 0..(MaxModelRecovery - 1) /\ emergencyCompacts \in 0..1
  /\ faults \in 0..MaxFaults /\ commands \in 0..MaxCommands

LEMMA TypeParts == ChatTypeOK <=> ServiceType /\ FileType /\ ThreadType /\ CountType
BY DEF ChatTypeOK, ServiceType, FileType, ThreadType, CountType

LEMMA TypesNow ==
  ASSUME ContextInv
  PROVE  ServiceType /\ FileType /\ ThreadType /\ CountType
BY TypeParts DEF ContextInv

\* A step of thread t: where it stands afterwards.
ThreadMove(t, p, s, c, l) ==
  /\ pc' = [pc EXCEPT ![t] = p] /\ sess' = [sess EXCEPT ![t] = s]
  /\ st' = [st EXCEPT ![t] = c] /\ look' = [look EXCEPT ![t] = l]

Standing(t, p, s, c, l) ==
  /\ p \in Places /\ l \in Looks
  /\ IF p \in Idle THEN s = None /\ c = None ELSE s \in Sessions /\ c \in Conversations
  /\ p \notin Idle \/ p = "use" => persistent' \in Sessions
  /\ p # "audit" => l.summary = None
  /\ p \in {"summarize", "audit"} =>
       l.key \in Keys /\ l.key.session = s /\ (l.key.reason = "manual_compress" <=> t = "console")
  /\ t = "console" => /\ p \notin {"audit", "call", "compact"}
                      /\ p \notin Idle => conv'[s] \in Conversations

LEMMA Moved ==
  ASSUME ContextInv, NEW t \in Threads, NEW p, NEW s, NEW c, NEW l, ThreadMove(t, p, s, c, l)
  PROVE  /\ pc'[t] = p /\ sess'[t] = s /\ st'[t] = c /\ look'[t] = l
         /\ \A u \in Threads : u # t => /\ pc'[u] = pc[u] /\ sess'[u] = sess[u]
                                       /\ st'[u] = st[u] /\ look'[u] = look[u]
BY TypesNow DEF ThreadMove, ThreadType

LEMMA StandingAgrees ==
  ASSUME ContextInv, NEW t \in Threads, NEW p, NEW s, NEW c, NEW l,
         ThreadMove(t, p, s, c, l), Standing(t, p, s, c, l),
         persistent \in Sessions => persistent' \in Sessions,
         \A x \in Sessions : conv[x] \in Conversations => conv'[x] \in Conversations,
         pc'[Chat] # "idle" => processed' < accepted'
  PROVE  ThreadType' /\ PlacesAgree'
<1>1. ThreadType'
  <2>1. p \in Places /\ l \in Looks /\ s \in Sessions \cup {None} /\ c \in Conversations \cup {None}
    BY DEF Standing
  <2>2. /\ pc' \in [Threads -> Places] /\ sess' \in [Threads -> Sessions \cup {None}]
        /\ st' \in [Threads -> Conversations \cup {None}] /\ look' \in [Threads -> Looks]
    BY <2>1, TypesNow DEF ThreadType, ThreadMove
  <2>3. pc'["console"] \notin {"audit", "call", "compact"}
    BY Moved, TypesNow DEF ThreadType, Standing, Threads
  <2> QED
    BY <2>2, <2>3 DEF ThreadType
<1>2. ASSUME NEW u \in Threads
      PROVE  /\ pc'[u] \in Idle => sess'[u] = None /\ st'[u] = None
             /\ pc'[u] \notin Idle => sess'[u] \in Sessions /\ st'[u] \in Conversations
             /\ pc'[u] \notin Idle \/ pc'[u] = "use" => persistent' \in Sessions
             /\ pc'[u] # "audit" => look'[u].summary = None
             /\ pc'[u] \in {"summarize", "audit"} =>
                  /\ look'[u].key \in Keys /\ look'[u].key.session = sess'[u]
                  /\ look'[u].key.reason = "manual_compress" <=> u = "console"
  <2>1. CASE u = t
    BY <2>1, Moved DEF Standing
  <2>2. CASE u # t
    BY <2>2, Moved DEF ContextInv, PlacesAgree
  <2> QED
    BY <2>1, <2>2
<1>3. pc'["console"] \notin Idle => conv'[sess'["console"]] \in Conversations
  <2>1. CASE t = "console"
    BY <2>1, Moved DEF Standing
  <2>2. CASE t # "console"
    BY <2>2, Moved DEF ContextInv, PlacesAgree, Threads
  <2> QED
    BY <2>1, <2>2
<1> QED
  BY <1>1, <1>2, <1>3 DEF PlacesAgree

LEMMA RaceKept ==
  ASSUME ContextInv, NEW t \in Threads, NEW p, NEW s, NEW c, NEW l, ThreadMove(t, p, s, c, l),
         UNCHANGED <<persistent, raced>>, p # "create", s \in {None, sess[t]},
         \A x \in Sessions : conv'[x] # None => conv[x] # None \/ (x = sess[t] /\ x # None)
  PROVE  ReplacedOnlyByRace'
<1> SUFFICES ASSUME ~raced'
             PROVE  /\ \A x \in Sessions : conv'[x] # None => persistent' = x
                    /\ \A u \in Threads : sess'[u] # None => persistent' = sess'[u]
                    /\ \A u, v \in Threads : pc'[u] = "create" =>
                         persistent' = None /\ (pc'[v] = "create" => u = v)
  BY DEF ReplacedOnlyByRace
<1>1. /\ \A x \in Sessions : conv[x] # None => persistent = x
      /\ \A u \in Threads : sess[u] # None => persistent = sess[u]
      /\ \A u, v \in Threads : pc[u] = "create" =>
           persistent = None /\ (pc[v] = "create" => u = v)
  BY DEF ContextInv, ReplacedOnlyByRace
<1> QED
  BY <1>1, Moved

\* Nothing is summarized or audited, and the thread is not about to.
LEMMA AuditsKept ==
  ASSUME ChatInv, NEW t \in Threads, NEW p, NEW s, NEW c, NEW l, ThreadMove(t, p, s, c, l),
         UNCHANGED <<summaries, completed, audited>>,
         journal \subseteq journal', unwritten \subseteq unwritten',
         \A j \in journal' : j \in journal \/ j.kind # "phase_summary",
         p # "audit", pc[t] # "audit"
  PROVE  KeysAudited' /\ SummarizedOnce' /\ SummariesJournaled'
<1>1. \A x, k : Unaudited(x, k) => Unaudited(x, k)'
  BY Moved DEF ChatInv, Unaudited, Threads, Chat
<1>2. KeysAudited'
  <2>1. \A x \in Sessions :
         /\ \A k \in audited'[x] : RequiresLlm(k) => k \in completed'[x]
         /\ \A k \in completed'[x] :
              \/ k.reason = "manual_compress"
              \/ k \in audited'[x] \cup unwritten'
              \/ Unaudited(x, k)'
    BY <1>1 DEF ChatInv, ContextInv, KeysAudited
  <2>2. pc'[Chat] = "audit" =>
          pc[Chat] = "audit" /\ look'[Chat] = look[Chat] /\ sess'[Chat] = sess[Chat]
    BY Moved DEF ChatInv, Threads, Chat
  <2> QED
    BY <2>1, <2>2 DEF ChatInv, ContextInv, KeysAudited
<1>3. SummarizedOnce'
  BY DEF ChatInv, SummarizedOnce
<1>4. SummariesJournaled'
  <2>1. \A x : pc[Chat] = "audit" /\ look[Chat].summary = x =>
              pc'[Chat] = "audit" /\ look'[Chat].summary = x
    BY Moved DEF ChatInv, Threads, Chat
  <2> QED
    BY <2>1 DEF ChatInv, SummariesJournaled
<1> QED
  BY <1>2, <1>3, <1>4

LEMMA CompletedKept ==
  ASSUME ChatInv, NEW t \in Threads, NEW p, NEW s, NEW c, NEW l, ThreadMove(t, p, s, c, l),
         UNCHANGED <<summaries, completed>>,
         p = "summarize" => RequiresLlm(l.key) /\ l.key \notin completed[s]
  PROVE  KeysCompleted'
<1>1. \A u \in Threads : pc'[u] = "summarize" =>
        RequiresLlm(look'[u].key) /\ look'[u].key \notin completed'[sess'[u]]
  BY Moved DEF ChatInv, ContextInv, KeysCompleted
<1> QED
  BY <1>1 DEF ChatInv, ContextInv, KeysCompleted

LEMMA ExplainedForGood ==
  ASSUME journal \subseteq journal', unwritten \subseteq unwritten'
  PROVE  /\ \A s, r : Explained(s, r) => Explained(s, r)'
         /\ \A s, c : ReceiptsExplained(s, c) => ReceiptsExplained(s, c)'
<1>1. \A s, r : Explained(s, r) => Explained(s, r)'
  BY DEF Explained
<1> QED
  BY <1>1 DEF ReceiptsExplained

Named == {"working", "evaluate", "summarize", "audit", "call", "compact"}

\* Receipts: what the thread has and what it leaves are explained.
ReceiptsStand(t, p, s, c) ==
  /\ p \notin Idle => ReceiptsExplained(s, c)'
  /\ p = "remember" => MicroEntry(s, CompactedIds(c)) \in journal'
  /\ t = Chat /\ p \in Named => \A r \in CompactedIds(c) : Explained(s, r)'

LEMMA ReceiptsKept ==
  ASSUME ChatInv, NEW t \in Threads, NEW p, NEW s, NEW c, NEW l, ThreadMove(t, p, s, c, l),
         ReceiptsStand(t, p, s, c),
         journal \subseteq journal', unwritten \subseteq unwritten',
         \A x \in Sessions : conv'[x] # conv[x] => \A b : b = conv'[x] => ReceiptsExplained(x, b)',
         \A x \in Sessions, ids \in SUBSET Results :
           ids \in mgr'[x].keys => ids \in mgr[x].keys \/ MicroEntry(x, ids) \in journal,
         \A x \in Sessions : mgr'[x].keys \subseteq SUBSET Results
  PROVE  ReceiptsNamed'
<1>1. ASSUME NEW x \in Sessions
      PROVE  /\ conv'[x] # None => ReceiptsExplained(x, conv[x])'
             /\ \A ids \in mgr'[x].keys : MicroEntry(x, ids) \in journal'
  <2>1. PICK b : b = conv'[x]
    OBVIOUS
  <2>2. b # None => ReceiptsExplained(x, b)'
    BY <2>1, ExplainedForGood DEF ChatInv, ContextInv, ReceiptsNamed
  <2>3. \A ids \in mgr'[x].keys : MicroEntry(x, ids) \in journal'
    BY DEF ChatInv, ContextInv, ReceiptsNamed
  <2> QED
    BY <2>1, <2>2, <2>3
<1>2. ASSUME NEW u \in Threads
      PROVE  /\ pc'[u] \notin Idle => ReceiptsExplained(sess[u], st[u])'
             /\ pc'[u] = "remember" => MicroEntry(sess'[u], CompactedIds(st'[u])) \in journal'
             /\ u = Chat /\ pc'[u] \in Named =>
                  \A r \in CompactedIds(st'[u]) : Explained(sess[u], r)'
  <2>1. PICK q, x, b : q = pc'[u] /\ x = sess'[u] /\ b = st'[u]
    OBVIOUS
  <2>2. ReceiptsStand(u, q, x, b)
    <3>1. CASE u = t
      <4>1. q = p /\ x = s /\ b = c
        BY <2>1, <3>1, Moved DEF ChatInv
      <4> QED
        BY <3>1, <4>1
    <3>2. CASE u # t
      <4>1. q = pc[u] /\ x = sess[u] /\ b = st[u]
        BY <2>1, <3>2, Moved DEF ChatInv
      <4> QED
        BY <4>1, ExplainedForGood
           DEF ReceiptsStand, ChatInv, ContextInv, ReceiptsNamed, Named
    <3> QED
      BY <3>1, <3>2
  <2> QED
    BY <2>1, <2>2 DEF ReceiptsStand
<1> QED
  BY <1>1, <1>2 DEF ReceiptsNamed, Named, Threads, Chat

\* What the model was shown is explained, and stays so.
LEMMA ShownKept ==
  ASSUME ReceiptsJournaled, journal \subseteq journal', unwritten \subseteq unwritten', NEW s,
         \A q \in shown' : q \in shown \/ \E r : q = Result(s, r) /\ Explained(s, r)
  PROVE  ReceiptsJournaled'
<1> SUFFICES ASSUME NEW q \in shown'
             PROVE  \/ q \in unwritten'
                    \/ \E j \in journal' :
                         /\ j.session = q.session
                         /\ j.kind \in {"micro_compact", "emergency_compact"}
                         /\ q.result \in j.ids
  BY DEF ReceiptsJournaled
<1>1. CASE q \in shown
  BY <1>1 DEF ReceiptsJournaled
<1>2. CASE \E r : q = Result(s, r) /\ Explained(s, r)
  <2>1. PICK r : q = Result(s, r) /\ Explained(s, r)
    BY <1>2
  <2>2. q.session = s /\ q.result = r
    BY <2>1 DEF Result
  <2> QED
    BY <2>1, <2>2 DEF Explained
<1> QED
  BY <1>1, <1>2

\* A step that neither summarizes nor audits.
LEMMA SteadyStep ==
  ASSUME ChatInv, NEW t \in Threads, NEW p, NEW s, NEW c, NEW l,
         ThreadMove(t, p, s, c, l), Standing(t, p, s, c, l), ReceiptsStand(t, p, s, c),
         p \notin {"summarize", "audit"}, pc[t] # "audit",
         ServiceType', FileType', CountType', ReplacedOnlyByRace',
         UNCHANGED <<summaries, completed, audited>>,
         persistent \in Sessions => persistent' \in Sessions,
         pc'[Chat] # "idle" => processed' < accepted',
         \A x \in Sessions : conv'[x] # conv[x] =>
           /\ conv'[x] \in Conversations
           /\ \A b : b = conv'[x] => ReceiptsExplained(x, b)',
         journal \subseteq journal', unwritten \subseteq unwritten',
         \A j \in journal' : j \in journal \/ j.kind # "phase_summary",
         \A x \in Sessions, ids \in SUBSET Results :
           ids \in mgr'[x].keys => ids \in mgr[x].keys \/ MicroEntry(x, ids) \in journal,
         \A q \in shown' : q \in shown \/ \E r : q = Result(sess[t], r) /\ Explained(sess[t], r)
  PROVE  ChatInv'
<1>1. ContextInv /\ ReceiptsJournaled
  BY DEF ChatInv
<1>2. \A x \in Sessions : conv[x] \in Conversations => conv'[x] \in Conversations
  OBVIOUS
<1>3. ThreadType' /\ PlacesAgree'
  BY <1>1, <1>2, StandingAgrees
<1>4. KeysCompleted' /\ KeysAudited' /\ SummarizedOnce' /\ SummariesJournaled'
  BY AuditsKept, CompletedKept
<1>5. \A x \in Sessions : mgr'[x].keys \subseteq SUBSET Results
  BY DEF FileType, Managers
<1>6. ReceiptsNamed'
  BY <1>5, ReceiptsKept
<1>7. PICK x : x = sess[t]
  OBVIOUS
<1>8. ReceiptsJournaled'
  BY <1>1, <1>7, ShownKept
<1>9. ChatTypeOK'
  BY <1>3 DEF ChatTypeOK, ServiceType, FileType, ThreadType, CountType
<1> QED
  BY <1>3, <1>4, <1>6, <1>8, <1>9 DEF ChatInv, ContextInv

\* A step within a session.
LEMMA OrdinaryStep ==
  ASSUME ChatInv, NEW t \in Threads, NEW p, NEW s, NEW c, NEW l,
         ThreadMove(t, p, s, c, l), Standing(t, p, s, c, l), ReceiptsStand(t, p, s, c),
         p \notin {"create", "summarize", "audit"}, pc[t] # "audit", s \in {None, sess[t]},
         ServiceType', FileType', CountType',
         UNCHANGED <<persistent, raced, summaries, completed, audited>>,
         pc'[Chat] # "idle" => processed' < accepted',
         \A x \in Sessions : conv'[x] # conv[x] =>
           /\ x = sess[t] /\ conv'[x] \in Conversations
           /\ \A b : b = conv'[x] => ReceiptsExplained(x, b)',
         journal \subseteq journal', unwritten \subseteq unwritten',
         \A j \in journal' : j \in journal \/ j.kind # "phase_summary",
         \A x \in Sessions, ids \in SUBSET Results :
           ids \in mgr'[x].keys => ids \in mgr[x].keys \/ MicroEntry(x, ids) \in journal,
         \A q \in shown' : q \in shown \/ \E r : q = Result(sess[t], r) /\ Explained(sess[t], r)
  PROVE  ChatInv'
<1>1. ContextInv /\ \A x \in Sessions : None # x
  BY ChatNumbers DEF ChatInv
<1>2. ReplacedOnlyByRace'
  BY <1>1, RaceKept
<1> QED
  BY <1>2, SteadyStep

LEMMA Stay ==
  ASSUME ContextInv, NEW t \in Threads
  PROVE  /\ pc = [pc EXCEPT ![t] = pc[t]] /\ sess = [sess EXCEPT ![t] = sess[t]]
         /\ st = [st EXCEPT ![t] = st[t]] /\ look = [look EXCEPT ![t] = look[t]]
         /\ look[t] \in Looks /\ NoLook \in Looks /\ NoLook.summary = None
BY TypesNow DEF ThreadType, NoLook, Looks

----------------------------------------------------------------------------
(* The chat: sessions *)

LEMMA NothingShown ==
  ASSUME ChatInv, UNCHANGED <<shown, journal, unwritten>>, NEW t \in Threads
  PROVE  /\ journal \subseteq journal' /\ unwritten \subseteq unwritten'
         /\ \A j \in journal' : j \in journal \/ j.kind # "phase_summary"
         /\ \A q \in shown' : q \in shown \/ \E r : q = Result(sess[t], r) /\ Explained(sess[t], r)
OBVIOUS

\* Waiting for a command or a task, nothing is at stake.
LEMMA AtRest ==
  ASSUME ContextInv, NEW t \in Threads, NEW p \in {"idle", "get"}, NEW l \in Looks, l.summary = None
  PROVE  Standing(t, p, None, None, l) /\ ReceiptsStand(t, p, None, None)
BY DEF Standing, ReceiptsStand, Named, Idle, Places

LEMMA WaitStep ==
  ASSUME ChatInv, NEW t \in Threads, NEW p \in {"idle", "get"},
         pc[t] \in {"idle", "get"}, At(t, p), UNCHANGED <<sess, st, look>>,
         ServiceType', FileType', CountType',
         UNCHANGED <<persistent, raced, summaries, completed, audited, conv, journal>>,
         UNCHANGED <<unwritten, shown>>,
         pc'[Chat] # "idle" => processed' < accepted',
         \A x \in Sessions, ids \in SUBSET Results : ids \in mgr'[x].keys => ids \in mgr[x].keys
  PROVE  ChatInv'
<1>1. PICK l : l = look[t]
  OBVIOUS
<1>2. /\ ContextInv /\ sess[t] = None /\ st[t] = None /\ l \in Looks /\ l.summary = None
  BY <1>1, AtThread DEF ChatInv, Idle
<1>3. ThreadMove(t, p, None, None, l)
  BY <1>1, <1>2, Stay DEF ThreadMove, At
<1>4. Standing(t, p, None, None, l) /\ ReceiptsStand(t, p, None, None)
  BY <1>2, AtRest
<1> QED
  BY <1>2, <1>3, <1>4, NothingShown, OrdinaryStep

LEMMA SubmitStep ==
  ASSUME ChatInv, Submit
  PROVE  ChatInv'
<1>1. ServiceType /\ FileType /\ ThreadType /\ CountType /\ ContextInv /\ "console" \in Threads
  BY TypesNow DEF ChatInv, Threads
<1>2. FileType' /\ CountType'
  BY <1>1
     DEF Submit, FileType, CountType, serviceVars, sessionVars, fileVars, keyVars,
         runVars
<1>3. ServiceType'
  BY <1>1, ChatNumbers DEF Submit, ServiceType, sessionVars
<1>4. At("console", "idle")
  BY <1>1, Stay DEF Submit, At
<1>5. pc'[Chat] # "idle" => processed' < accepted'
  BY <1>1, ChatNumbers DEF Submit, ServiceType, ContextInv, PlacesAgree, Chat
<1> QED
  BY <1>1, <1>2, <1>3, <1>4, <1>5, WaitStep DEF Submit, sessionVars, fileVars, keyVars

LEMMA TakeTaskStep ==
  ASSUME ChatInv, TakeTask
  PROVE  ChatInv'
<1>1. ServiceType /\ FileType /\ ThreadType /\ CountType /\ ContextInv /\ Chat \in Threads
  BY TypesNow DEF ChatInv, Threads, Chat
<1>2. ServiceType' /\ FileType' /\ CountType'
  BY <1>1
     DEF TakeTask, ServiceType, FileType, CountType, serviceVars, sessionVars, fileVars,

     keyVars, runVars
<1> QED
  BY <1>1, <1>2, WaitStep
     DEF TakeTask, serviceVars, sessionVars, fileVars, keyVars, Chat

LEMMA CompressStep ==
  ASSUME ChatInv, CompressCommand
  PROVE  ChatInv'
<1>1. ServiceType /\ FileType /\ ThreadType /\ CountType /\ ContextInv /\ "console" \in Threads
  BY TypesNow DEF ChatInv, Threads
<1>2. ServiceType' /\ FileType'
  BY <1>1
     DEF CompressCommand, ServiceType, FileType, serviceVars, sessionVars, fileVars,
         keyVars
<1>3. CountType'
  BY <1>1, ChatNumbers DEF CompressCommand, CountType, runVars, sessionVars
<1>4. pc'[Chat] # "idle" => processed' < accepted'
  BY <1>1
     DEF CompressCommand, At, ThreadType, ContextInv, PlacesAgree, Chat, Threads,
         serviceVars
<1> QED
  BY <1>1, <1>2, <1>3, <1>4, WaitStep
     DEF CompressCommand, sessionVars, fileVars, keyVars

\* A clear forgets keys of projections, never an entry.
LEMMA ClearStep ==
  ASSUME ChatInv, ClearCommand
  PROVE  ChatInv'
<1>1. ServiceType /\ FileType /\ ThreadType /\ CountType /\ ContextInv /\ "console" \in Threads
  BY TypesNow DEF ChatInv, Threads
<1>2. ServiceType'
  BY <1>1 DEF ClearCommand, ServiceType, serviceVars, sessionVars
<1>3. CountType'
  BY <1>1, ChatNumbers DEF ClearCommand, CountType, runVars, sessionVars
<1>4. NoManager \in Managers /\ NoManager.keys = {}
  BY DEF NoManager, Managers
<1>5. FileType'
  BY <1>1, <1>4 DEF ClearCommand, FileType, fileVars, keyVars
<1>6. \A x \in Sessions, ids \in SUBSET Results : ids \in mgr'[x].keys => ids \in mgr[x].keys
  BY <1>1, <1>4 DEF ClearCommand, FileType
<1>7. At("console", "idle")
  BY <1>1, Stay DEF ClearCommand, At
<1>8. pc'[Chat] # "idle" => processed' < accepted'
  BY <1>1 DEF ClearCommand, ContextInv, PlacesAgree, Chat, serviceVars
<1> QED
  BY <1>1, <1>2, <1>3, <1>5, <1>6, <1>7, <1>8, WaitStep
     DEF ClearCommand, sessionVars, fileVars, keyVars

\* Before a session is in use, a thread moves without anything else.
LEMMA SessionStep ==
  ASSUME ChatInv, NEW t \in Threads, NEW p \in {"create", "use"},
         pc[t] \in {"get", "create"}, At(t, p), UNCHANGED <<sess, st, look>>,
         p = "use" => persistent' \in Sessions, persistent \in Sessions => persistent' \in Sessions,
         ServiceType', CountType', ReplacedOnlyByRace',
         UNCHANGED <<serviceVars, conv, mgr, fileVars, keyVars, shown>>
  PROVE  ChatInv'
<1>1. PICK l : l = look[t]
  OBVIOUS
<1>2. /\ ContextInv /\ sess[t] = None /\ st[t] = None /\ l \in Looks /\ l.summary = None
  BY <1>1, AtThread DEF ChatInv, Idle
<1>3. ThreadMove(t, p, None, None, l)
  BY <1>1, <1>2, Stay DEF ThreadMove, At
<1>4. Standing(t, p, None, None, l) /\ ReceiptsStand(t, p, None, None)
  BY <1>2 DEF Standing, ReceiptsStand, Named, Idle, Places
<1>5. FileType'
  BY <1>2, TypesNow DEF FileType, fileVars, keyVars
<1>6. pc'[Chat] # "idle" => processed' < accepted'
  BY <1>2, TypesNow
     DEF At, ThreadType, ContextInv, PlacesAgree, Chat, Threads, serviceVars
<1>7. /\ UNCHANGED <<summaries, completed, audited, conv, shown, journal, unwritten, mgr>>
  BY DEF fileVars, keyVars
<1> QED
  BY <1>3, <1>4, <1>5, <1>6, <1>7, NothingShown, SteadyStep

LEMMA LookForSessionStep ==
  ASSUME ChatInv, NEW t \in Threads, LookForSession(t)
  PROVE  ChatInv'
<1>1. ContextInv /\ ServiceType /\ FileType /\ ThreadType /\ CountType
  BY TypesNow DEF ChatInv
<1>2. PICK p : p = IF persistent = None THEN "create" ELSE "use"
  OBVIOUS
<1>3. /\ pc[t] = "get" /\ At(t, p) /\ UNCHANGED <<serviceVars, persistent, created, conv, sess>>
      /\ raced' = (raced \/ (persistent = None /\ \E u \in Threads : pc[u] = "create"))
  BY <1>2 DEF LookForSession, SessionMissing
<1>4. ServiceType'
  BY <1>1, <1>3 DEF ServiceType, serviceVars
<1>5. CountType'
  BY <1>1 DEF LookForSession, CountType, runVars
<1>6. ReplacedOnlyByRace'
  <2> SUFFICES ASSUME ~raced'
               PROVE  /\ \A x \in Sessions : conv'[x] # None => persistent' = x
                      /\ \A u \in Threads : sess'[u] # None => persistent' = sess'[u]
                      /\ \A u, v \in Threads : pc'[u] = "create" =>
                           persistent' = None /\ (pc'[v] = "create" => u = v)
    BY DEF ReplacedOnlyByRace
  <2>1. /\ \A x \in Sessions : conv[x] # None => persistent = x
        /\ \A u \in Threads : sess[u] # None => persistent = sess[u]
        /\ \A u, v \in Threads : pc[u] = "create" =>
             persistent = None /\ (pc[v] = "create" => u = v)
    BY <1>1, <1>3 DEF ContextInv, ReplacedOnlyByRace
  <2>2. persistent = None => \A u \in Threads : pc[u] # "create"
    BY <1>3
  <2>3. \A u \in Threads : pc'[u] = IF u = t THEN p ELSE pc[u]
    BY <1>1, <1>3 DEF At, ThreadType
  <2> QED
    BY <1>2, <1>3, <2>1, <2>2, <2>3
<1>7. p \in {"create", "use"} /\ (p = "use" => persistent \in Sessions)
  BY <1>1, <1>2 DEF ServiceType
<1> QED
  BY <1>3, <1>4, <1>5, <1>6, <1>7, SessionStep DEF LookForSession

LEMMA CreateSessionStep ==
  ASSUME ChatInv, NEW t \in Threads, CreateSession(t)
  PROVE  ChatInv'
<1>1. ContextInv /\ ServiceType /\ FileType /\ ThreadType /\ CountType
  BY TypesNow DEF ChatInv
<1>2. /\ pc[t] = "create" /\ At(t, "use") /\ UNCHANGED <<serviceVars, conv, raced, sess>>
      /\ created + 1 \in Sessions /\ created' = created + 1 /\ persistent' = created + 1
  BY DEF CreateSession
<1>3. ServiceType'
  BY <1>1, <1>2 DEF ServiceType, serviceVars, Sessions
<1>4. CountType'
  BY <1>1 DEF CreateSession, CountType, runVars
<1>5. ReplacedOnlyByRace'
  <2> SUFFICES ASSUME ~raced
               PROVE  /\ \A x \in Sessions : conv'[x] # None => persistent' = x
                      /\ \A u \in Threads : sess'[u] # None => persistent' = sess'[u]
                      /\ \A u, v \in Threads : pc'[u] = "create" =>
                           persistent' = None /\ (pc'[v] = "create" => u = v)
    BY <1>2 DEF ReplacedOnlyByRace
  <2>1. /\ \A x \in Sessions : conv[x] # None => persistent = x
        /\ \A u \in Threads : sess[u] # None => persistent = sess[u]
        /\ \A u \in Threads : pc[u] = "create" => u = t
        /\ persistent = None
    BY <1>1, <1>2 DEF ContextInv, ReplacedOnlyByRace
  <2>2. \A x \in Sessions : conv[x] = None
    BY <2>1, ChatNumbers
  <2>3. \A u \in Threads : sess[u] = None
    BY <1>1, <2>1, ChatNumbers DEF ThreadType
  <2>4. \A u \in Threads : pc'[u] = IF u = t THEN "use" ELSE pc[u]
    BY <1>1, <1>2 DEF At, ThreadType
  <2> QED
    BY <1>2, <2>1, <2>2, <2>3, <2>4
<1> QED
  BY <1>2, <1>3, <1>4, <1>5, SessionStep DEF CreateSession

LEMMA UseSessionStep ==
  ASSUME ChatInv, NEW t \in Threads, UseSession(t)
  PROVE  ChatInv'
<1>1. /\ ContextInv /\ ServiceType /\ FileType /\ ThreadType /\ CountType
      /\ pc[t] = "use" /\ persistent \in Sessions /\ sess[t] = None
      /\ UNCHANGED <<serviceVars, sessionVars, mgr, fileVars, keyVars, look, faults>>
      /\ UNCHANGED <<commands, shown>>
  BY TypesNow, AtThread DEF ChatInv, UseSession, Idle
<1>2. PICK o : o = conv[persistent]
  OBVIOUS
<1>3. o \in Conversations \cup {None} /\ processed + 1 \in Nat
  BY <1>1, <1>2 DEF ServiceType
<1>4. PICK c : c = IF t = "chat" THEN PrepareConversation(o, processed + 1) ELSE o
  OBVIOUS
<1>5. PICK s : s = IF c = None THEN None ELSE persistent
  OBVIOUS
<1>6. PICK p : p = IF c = None THEN "idle" ELSE "project"
  OBVIOUS
<1>7. PICK l : l = look[t]
  OBVIOUS
<1>8. ThreadMove(t, p, s, c, l)
  BY <1>1, <1>2, <1>4, <1>5, <1>6, <1>7, Stay DEF UseSession, ThreadMove, At
<1>9. c \in Conversations \cup {None}
  BY <1>3, <1>4, PreparedFacts
<1>10. l \in Looks /\ l.summary = None
  BY <1>1, <1>7, AtThread
<1>11. t = "console" => c = o
  BY <1>4
<1>12. Standing(t, p, s, c, l)
  BY <1>1, <1>2, <1>5, <1>6, <1>9, <1>10, <1>11 DEF Standing, Places, Idle, sessionVars
<1>13. c # None => ReceiptsExplained(s, c)'
  <2> SUFFICES ASSUME c # None
               PROVE  ReceiptsExplained(s, c)'
    OBVIOUS
  <2>1. o # None => ReceiptsExplained(persistent, o)
    BY <1>1, <1>2 DEF ContextInv, ReceiptsNamed
  <2>2. c.results = 0 \/ (o # None /\ c.results = o.results /\ c.raw = o.raw)
    BY <1>3, <1>4, PreparedFacts
  <2>3. ReceiptsExplained(persistent, c)
    BY <2>1, <2>2 DEF ReceiptsExplained
  <2> QED
    BY <1>1, <1>5, <2>3 DEF ReceiptsExplained, Explained, fileVars
<1>14. ReceiptsStand(t, p, s, c)
  BY <1>6, <1>13 DEF ReceiptsStand, Named, Idle
<1>15. CountType'
  <2>1. 0 \in 0..(MaxModelRecovery - 1)
    BY ChatNumbers
  <2>2. \/ transportAttempts' = 0 /\ emergencyCompacts' = 0 /\ forced' = FALSE
        \/ UNCHANGED <<transportAttempts, emergencyCompacts, forced>>
    BY DEF UseSession, runVars
  <2>3. forced' \in BOOLEAN /\ transportAttempts' \in 0..(MaxModelRecovery - 1)
    BY <1>1, <2>1, <2>2 DEF CountType
  <2>4. emergencyCompacts' \in 0..1 /\ raced' \in BOOLEAN /\ UNCHANGED <<faults, commands>>
    BY <1>1, <2>2 DEF CountType, sessionVars
  <2> QED
    BY <1>1, <2>3, <2>4 DEF CountType
<1>16. ServiceType' /\ FileType'
  BY <1>1 DEF ServiceType, FileType, serviceVars, sessionVars, fileVars, keyVars
<1>17. ReplacedOnlyByRace'
  <2> SUFFICES ASSUME ~raced
               PROVE  /\ \A x \in Sessions : conv[x] # None => persistent = x
                      /\ \A u \in Threads : sess'[u] # None => persistent = sess'[u]
                      /\ \A u, v \in Threads : pc'[u] = "create" =>
                           persistent = None /\ (pc'[v] = "create" => u = v)
    BY <1>1 DEF ReplacedOnlyByRace, sessionVars
  <2>1. /\ \A x \in Sessions : conv[x] # None => persistent = x
        /\ \A u \in Threads : sess[u] # None => persistent = sess[u]
        /\ \A u, v \in Threads : pc[u] = "create" =>
             persistent = None /\ (pc[v] = "create" => u = v)
    BY <1>1 DEF ContextInv, ReplacedOnlyByRace
  <2>2. \A u \in Threads : /\ pc'[u] = IF u = t THEN p ELSE pc[u]
                          /\ sess'[u] = IF u = t THEN s ELSE sess[u]
    BY <1>1, <1>8, Moved
  <2> QED
    BY <1>5, <1>6, <2>1, <2>2
<1>18. pc'[Chat] # "idle" => processed' < accepted'
  BY <1>1, <1>8, Moved DEF ContextInv, PlacesAgree, Chat, Threads, serviceVars
<1> QED
  BY <1>1, <1>6, <1>8, <1>12, <1>14, <1>15, <1>16, <1>17, <1>18, NothingShown,
     SteadyStep
     DEF sessionVars, fileVars, keyVars

----------------------------------------------------------------------------
(* The chat: projections *)

\* A step of a run that keeps its session and its state.
LEMMA RunMoves ==
  ASSUME ChatInv, NEW t \in Threads, NEW p \in Places \ Idle, NEW s, NEW c, NEW l \in Looks,
         pc[t] \notin Idle, pc[t] # "audit", s = sess[t], c = st[t], ThreadMove(t, p, s, c, l),
         p \notin {"summarize", "audit"}, t = "console" => p \notin {"call", "compact"},
         l.summary = None,
         FileType', CountType',
         UNCHANGED <<serviceVars, sessionVars, summaries, completed, audited, shown>>,
         journal \subseteq journal', unwritten \subseteq unwritten',
         \A j \in journal' : j \in journal \/ j.kind # "phase_summary",
         \A x \in Sessions, ids \in SUBSET Results :
           ids \in mgr'[x].keys => ids \in mgr[x].keys \/ MicroEntry(x, ids) \in journal,
         p = "remember" => MicroEntry(s, CompactedIds(c)) \in journal',
         t = Chat /\ p \in Named => \A r \in CompactedIds(c) : Explained(s, r)'
  PROVE  ChatInv'
<1>1. /\ ContextInv /\ ServiceType
      /\ s \in Sessions /\ c \in Conversations /\ persistent \in Sessions
      /\ UNCHANGED <<persistent, raced, conv, accepted, processed, created>>
  BY TypesNow, AtThread DEF ChatInv, serviceVars, sessionVars
<1>2. t = "console" => conv'[s] \in Conversations
  BY <1>1 DEF ContextInv, PlacesAgree
<1>3. Standing(t, p, s, c, l)
  BY <1>1, <1>2 DEF Standing
<1>4. ReceiptsExplained(s, c)
  BY <1>1 DEF ContextInv, ReceiptsNamed
<1>5. ReceiptsStand(t, p, s, c)
  BY <1>4, ExplainedForGood DEF ReceiptsStand
<1>6. ServiceType'
  BY <1>1 DEF ServiceType
<1>7. pc'[Chat] # "idle" => processed' < accepted'
  BY <1>1, Moved DEF ContextInv, PlacesAgree, Chat, Threads, Idle
<1>8. p # "create" /\ \A q \in shown' : q \in shown
  BY DEF Idle
<1> QED
  BY <1>1, <1>3, <1>5, <1>6, <1>7, <1>8, OrdinaryStep

\* A projection changes the manager, its journal and where the thread is.
LEMMA ProjectTypes ==
  ASSUME ChatInv, ProjectUnchanged
  PROVE  /\ ContextInv /\ ServiceType /\ FileType /\ ThreadType /\ CountType
         /\ UNCHANGED <<serviceVars, sessionVars, completed, audited, shown>>
         /\ faults' \in 0..MaxFaults => CountType'
BY TypesNow DEF ChatInv, ProjectUnchanged, keyVars, CountType, runVars, sessionVars

LEMMA SameRun ==
  ASSUME ChatInv, NEW t \in Threads, NEW p, At(t, p), UNCHANGED <<sess, st>>, NEW l,
         look' = [look EXCEPT ![t] = l]
  PROVE  \E s, c : s = sess[t] /\ c = st[t] /\ ThreadMove(t, p, s, c, l)
BY Stay DEF ChatInv, ThreadMove, At

LEMMA PublishStep ==
  ASSUME ChatInv, NEW t \in Threads, PublishWorkingSet(t)
  PROVE  ChatInv'
<1>1. /\ pc[t] = "project" /\ ProjectUnchanged /\ At(t, "budget")
      /\ UNCHANGED <<fileVars, sess, st, look, faults>>
  BY DEF PublishWorkingSet, ProjectUnchanged
<1>2. /\ ContextInv /\ FileType /\ CountType /\ CountType'
      /\ UNCHANGED <<serviceVars, sessionVars, completed, audited, shown>>
  BY <1>1, ProjectTypes DEF CountType
<1>3. /\ sess[t] \in Sessions /\ st[t] \in Conversations /\ look[t].summary = None
      /\ mgr[sess[t]] \in Managers
  BY <1>1, <1>2, AtThread DEF Idle
<1>4. PICK m : m = [mgr[sess[t]] EXCEPT !.delta = StateDelta(mgr[sess[t]].ws, WorkingSet(st[t])),
                                        !.ws = WorkingSet(st[t])]
  OBVIOUS
<1>5. mgr' = [mgr EXCEPT ![sess[t]] = m]
  BY <1>2, <1>3, <1>4 DEF PublishWorkingSet, FileType
<1>6. m \in Managers /\ m.keys = mgr[sess[t]].keys
  BY <1>3, <1>4, PublishedFacts DEF Managers
<1>7. FileType'
  BY <1>1, <1>2, <1>5, <1>6 DEF FileType, fileVars
<1>8. \A x \in Sessions : mgr'[x].keys = mgr[x].keys
  BY <1>2, <1>3, <1>5, <1>6 DEF FileType
<1>9. PICK s, c, l : s = sess[t] /\ c = st[t] /\ l = look[t] /\ ThreadMove(t, "budget", s, c, l)
  BY <1>1, <1>2, Stay, SameRun
<1>10. l \in Looks /\ l.summary = None
  BY <1>2, <1>3, <1>9, AtThread
<1> QED
  BY <1>1, <1>2, <1>7, <1>8, <1>9, <1>10, RunMoves DEF Idle, Places, Named, fileVars

LEMMA BudgetStep ==
  ASSUME ChatInv, NEW t \in Threads, PublishBudget(t)
  PROVE  ChatInv'
<1>1. /\ pc[t] = "budget" /\ ProjectUnchanged /\ At(t, "check")
      /\ UNCHANGED <<fileVars, sess, st, look, faults>>
  BY DEF PublishBudget, ProjectUnchanged
<1>2. /\ ContextInv /\ FileType /\ CountType /\ CountType'
      /\ UNCHANGED <<serviceVars, sessionVars, completed, audited, shown>>
  BY <1>1, ProjectTypes DEF CountType
<1>3. /\ sess[t] \in Sessions /\ st[t] \in Conversations /\ look[t].summary = None
      /\ mgr[sess[t]] \in Managers
  BY <1>1, <1>2, AtThread DEF Idle
<1>4. PICK m : m = [mgr[sess[t]] EXCEPT !.tokens = EstimateTokens(st[t]), !.health = TRUE]
  OBVIOUS
<1>5. mgr' = [mgr EXCEPT ![sess[t]] = m]
  BY <1>2, <1>3, <1>4 DEF PublishBudget, FileType
<1>6. m \in Managers /\ m.keys = mgr[sess[t]].keys
  BY <1>3, <1>4, RawFacts DEF Managers
<1>7. FileType'
  BY <1>1, <1>2, <1>5, <1>6 DEF FileType, fileVars
<1>8. \A x \in Sessions : mgr'[x].keys = mgr[x].keys
  BY <1>2, <1>3, <1>5, <1>6 DEF FileType
<1>9. PICK s, c, l : s = sess[t] /\ c = st[t] /\ l = look[t] /\ ThreadMove(t, "check", s, c, l)
  BY <1>1, <1>2, Stay, SameRun
<1>10. l \in Looks /\ l.summary = None
  BY <1>2, <1>3, <1>9, AtThread
<1> QED
  BY <1>1, <1>2, <1>7, <1>8, <1>9, <1>10, RunMoves DEF Idle, Places, Named, fileVars

\* A key that the manager remembers has its entry.
LEMMA CheckStep ==
  ASSUME ChatInv, NEW t \in Threads, CheckMicroKey(t)
  PROVE  ChatInv'
<1>1. /\ pc[t] = "check" /\ ProjectUnchanged /\ UNCHANGED <<mgr, fileVars, sess, st, faults>>
  BY DEF CheckMicroKey, ProjectUnchanged
<1>2. /\ ContextInv /\ FileType /\ CountType /\ CountType'
      /\ UNCHANGED <<serviceVars, sessionVars, completed, audited, shown>>
  BY <1>1, ProjectTypes DEF CountType
<1>3. /\ sess[t] \in Sessions /\ st[t] \in Conversations /\ look[t].summary = None
      /\ mgr[sess[t]] \in Managers /\ look[t] \in Looks
  BY <1>1, <1>2, AtThread DEF Idle
<1>4. FileType'
  BY <1>1, <1>2 DEF FileType, fileVars
<1>5. CASE CompactedIds(st[t]) = {} \/ CompactedIds(st[t]) \in mgr[sess[t]].keys
  <2>1. At(t, "working") /\ UNCHANGED look
    BY <1>5 DEF CheckMicroKey, MicroKey
  <2>2. PICK s, c, l : s = sess[t] /\ c = st[t] /\ l = look[t] /\ ThreadMove(t, "working", s, c, l)
    BY <1>1, <1>2, <2>1, Stay, SameRun
  <2>3. \A r \in CompactedIds(c) : Explained(s, r)
    <3>1. CASE CompactedIds(c) = {}
      BY <3>1
    <3>2. CASE CompactedIds(c) \in mgr[s].keys
      <4>1. MicroEntry(s, CompactedIds(c)) \in journal
        BY <1>2, <1>3, <2>2, <3>2 DEF ContextInv, ReceiptsNamed
      <4> QED
        BY <4>1 DEF Explained, MicroEntry
    <3> QED
      BY <1>5, <2>2, <3>1, <3>2
  <2>4. \A r \in CompactedIds(c) : Explained(s, r)'
    BY <1>1, <2>3 DEF Explained, fileVars
  <2> QED
    BY <1>1, <1>2, <1>3, <1>4, <2>2, <2>4, RunMoves DEF Idle, Places, fileVars
<1>6. CASE ~(CompactedIds(st[t]) = {} \/ CompactedIds(st[t]) \in mgr[sess[t]].keys)
  <2>1. PICK l : l = [look[t] EXCEPT !.health = mgr[sess[t]].health]
    OBVIOUS
  <2>2. At(t, "journal") /\ look' = [look EXCEPT ![t] = l]
    BY <1>2, <1>6, <2>1, TypesNow DEF CheckMicroKey, MicroKey, ThreadType
  <2>3. l \in Looks /\ l.summary = None
    BY <1>3, <2>1 DEF Looks, Managers
  <2>4. PICK s, c : s = sess[t] /\ c = st[t] /\ ThreadMove(t, "journal", s, c, l)
    BY <1>1, <2>2, SameRun
  <2> QED
    BY <1>1, <1>2, <1>4, <2>3, <2>4, RunMoves DEF Idle, Places, Named, fileVars
<1> QED
  BY <1>5, <1>6

LEMMA JournalStep ==
  ASSUME ChatInv, NEW t \in Threads, JournalMicro(t)
  PROVE  ChatInv'
<1>1. /\ pc[t] = "journal" /\ ProjectUnchanged /\ UNCHANGED <<mgr, summaries, sess, st, look>>
  BY DEF JournalMicro, ProjectUnchanged
<1>2. /\ ContextInv /\ FileType /\ CountType
      /\ UNCHANGED <<serviceVars, sessionVars, completed, audited, shown>>
      /\ faults' \in 0..MaxFaults => CountType'
  BY <1>1, ProjectTypes
<1>3. /\ sess[t] \in Sessions /\ st[t] \in Conversations /\ look[t].summary = None
      /\ look[t] \in Looks
  BY <1>1, <1>2, AtThread DEF Idle
<1>4. FileType'
  BY <1>1, <1>2 DEF FileType
<1>5. PICK s, c, l : s = sess[t] /\ c = st[t] /\ l = look[t]
  OBVIOUS
<1>6. CASE /\ journal' = journal \cup {MicroEntry(s, CompactedIds(c))}
           /\ At(t, "remember") /\ UNCHANGED <<unwritten, faults>>
  <2>1. ThreadMove(t, "remember", s, c, l)
    BY <1>1, <1>2, <1>5, <1>6, Stay DEF ThreadMove, At
  <2>2. MicroEntry(s, CompactedIds(c)).kind # "phase_summary"
    BY DEF MicroEntry
  <2>3. CountType'
    BY <1>2, <1>6 DEF CountType
  <2> QED
    BY <1>1, <1>2, <1>3, <1>4, <1>5, <1>6, <2>1, <2>2, <2>3, RunMoves
       DEF Idle, Places, Named
<1>7. CASE /\ faults < MaxFaults /\ faults' = faults + 1
           /\ unwritten' = unwritten \cup {Result(s, r) : r \in CompactedIds(c)}
           /\ At(t, "working") /\ UNCHANGED journal
  <2>1. ThreadMove(t, "working", s, c, l)
    BY <1>1, <1>2, <1>5, <1>7, Stay DEF ThreadMove, At
  <2>2. \A r \in CompactedIds(c) : Explained(s, r)'
    BY <1>7 DEF Explained
  <2>3. CountType'
    BY <1>2, <1>7, ChatNumbers DEF CountType
  <2> QED
    BY <1>1, <1>2, <1>3, <1>4, <1>5, <1>7, <2>1, <2>2, <2>3, RunMoves DEF Idle, Places
<1> QED
  BY <1>5, <1>6, <1>7 DEF JournalMicro

LEMMA RememberStep ==
  ASSUME ChatInv, NEW t \in Threads, RememberMicroKey(t)
  PROVE  ChatInv'
<1>1. /\ pc[t] = "remember" /\ ProjectUnchanged /\ At(t, "working")
      /\ UNCHANGED <<fileVars, sess, st, look, faults>>
  BY DEF RememberMicroKey, ProjectUnchanged
<1>2. /\ ContextInv /\ FileType /\ CountType /\ CountType'
      /\ UNCHANGED <<serviceVars, sessionVars, completed, audited, shown>>
  BY <1>1, ProjectTypes DEF CountType
<1>3. /\ sess[t] \in Sessions /\ st[t] \in Conversations /\ look[t].summary = None
      /\ mgr[sess[t]] \in Managers /\ look[t] \in Looks
  BY <1>1, <1>2, AtThread DEF Idle
<1>4. PICK s, c, l : s = sess[t] /\ c = st[t] /\ l = look[t] /\ ThreadMove(t, "working", s, c, l)
  BY <1>1, <1>2, Stay, SameRun
<1>5. PICK m : m = [mgr[s] EXCEPT !.keys = @ \cup {CompactedIds(c)}]
  OBVIOUS
<1>6. mgr' = [mgr EXCEPT ![s] = m]
  BY <1>2, <1>3, <1>4, <1>5 DEF RememberMicroKey, MicroKey, FileType
<1>7. m \in Managers /\ m.keys = mgr[s].keys \cup {CompactedIds(c)}
  BY <1>3, <1>4, <1>5, RawFacts DEF Managers
<1>8. FileType'
  BY <1>1, <1>2, <1>6, <1>7 DEF FileType, fileVars
<1>9. MicroEntry(s, CompactedIds(c)) \in journal
  BY <1>1, <1>2, <1>4 DEF ContextInv, ReceiptsNamed
<1>10. \A x \in Sessions, ids \in SUBSET Results :
         ids \in mgr'[x].keys => ids \in mgr[x].keys \/ MicroEntry(x, ids) \in journal
  BY <1>2, <1>3, <1>4, <1>6, <1>7, <1>9 DEF FileType
<1>11. \A r \in CompactedIds(c) : Explained(s, r)'
  BY <1>1, <1>9 DEF Explained, MicroEntry, fileVars
<1> QED
  BY <1>1, <1>2, <1>3, <1>4, <1>8, <1>10, <1>11, RunMoves DEF Idle, Places, fileVars

----------------------------------------------------------------------------
(* The chat: summaries *)

LEMMA SummaryTypes ==
  ASSUME ChatInv, SummaryUnchanged
  PROVE  /\ ContextInv /\ ServiceType /\ FileType /\ ThreadType /\ CountType
         /\ UNCHANGED <<serviceVars, sessionVars, mgr, shown>>
         /\ ServiceType' /\ (faults' \in 0..MaxFaults => CountType')
BY TypesNow
   DEF ChatInv, SummaryUnchanged, CountType, ServiceType, runVars, sessionVars,
       serviceVars

\* The end of a summary: the model is called, an overflow is compacted, or the
\* command is over.
LEMMA EndMoves ==
  ASSUME ChatInv, NEW t \in Threads, EndSummary(t), pc[t] \notin Idle
  PROVE  \E p, s, c :
           /\ ThreadMove(t, p, s, c, NoLook)
           /\ t = Chat => p \in {"compact", "call"} /\ s = sess[t] /\ c = st[t]
           /\ t # Chat => p = "idle" /\ s = None /\ c = None
<1>1. CASE t = Chat
  <2>1. PICK p, s, c : p = AfterSummary /\ s = sess[t] /\ c = st[t]
    OBVIOUS
  <2>2. p \in {"compact", "call"}
    BY <2>1 DEF AfterSummary
  <2>3. ThreadMove(t, p, s, c, NoLook)
    BY <1>1, <2>1, Stay DEF ChatInv, EndSummary, At, ThreadMove, Chat
  <2> QED
    BY <1>1, <2>1, <2>2, <2>3
<1>2. CASE t # Chat
  <2>1. ThreadMove(t, "idle", None, None, NoLook)
    BY <1>2 DEF EndSummary, Release, At, ThreadMove, Chat
  <2> QED
    BY <1>2, <2>1
<1> QED
  BY <1>1, <1>2

LEMMA EndStep ==
  ASSUME ChatInv, NEW t \in Threads, pc[t] \in {"working", "evaluate", "summarize"},
         EndSummary(t), SummaryUnchanged, UNCHANGED <<fileVars, keyVars>>, faults' \in 0..MaxFaults
  PROVE  ChatInv'
<1>1. /\ ContextInv /\ FileType /\ ServiceType' /\ CountType' /\ pc[t] \notin Idle
      /\ UNCHANGED <<serviceVars, sessionVars, mgr, shown>>
  BY SummaryTypes DEF Idle
<1>2. FileType'
  BY <1>1 DEF FileType, fileVars, keyVars
<1>3. PICK p, s, c :
        /\ ThreadMove(t, p, s, c, NoLook)
        /\ t = Chat => p \in {"compact", "call"} /\ s = sess[t] /\ c = st[t]
        /\ t # Chat => p = "idle" /\ s = None /\ c = None
  BY <1>1, EndMoves
<1>4. PICK l : l = NoLook
  OBVIOUS
<1>5. l \in Looks /\ l.summary = None
  BY <1>1, <1>4, Stay
<1>6. CASE t = Chat
  <2>1. \A r \in CompactedIds(c) : Explained(s, r)
    BY <1>1, <1>3, <1>6 DEF ContextInv, ReceiptsNamed
  <2>2. \A r \in CompactedIds(c) : Explained(s, r)'
    BY <2>1, ExplainedForGood DEF fileVars
  <2>3. p \in Places \ Idle /\ p \notin {"summarize", "audit", "remember"} /\ t # "console"
    BY <1>3, <1>6 DEF Places, Idle, Chat
  <2> QED
    BY <1>1, <1>2, <1>3, <1>4, <1>5, <1>6, <2>2, <2>3, RunMoves DEF fileVars, keyVars
<1>7. CASE t # Chat
  <2>1. Standing(t, p, s, c, l) /\ ReceiptsStand(t, p, s, c)
    BY <1>1, <1>3, <1>5, <1>7, AtRest
  <2>2. pc'[Chat] # "idle" => processed' < accepted'
    BY <1>1, <1>3, <1>7, Moved DEF ContextInv, PlacesAgree, Chat, Threads, serviceVars
  <2> QED
    BY <1>1, <1>2, <1>3, <1>4, <1>7, <2>1, <2>2, NothingShown, OrdinaryStep
       DEF fileVars, keyVars, sessionVars
<1> QED
  BY <1>6, <1>7

LEMMA ReadWorkingSetStep ==
  ASSUME ChatInv, NEW t \in Threads, ReadWorkingSet(t)
  PROVE  ChatInv'
<1>1. /\ ContextInv /\ FileType /\ ServiceType /\ CountType /\ pc[t] = "working"
      /\ SummaryUnchanged /\ UNCHANGED <<fileVars, keyVars, faults>>
      /\ UNCHANGED <<serviceVars, sessionVars, mgr, shown>>
  BY SummaryTypes DEF ReadWorkingSet
<1>2. FileType' /\ CountType'
  BY <1>1, SummaryTypes DEF FileType, fileVars, keyVars, CountType
<1>3. CASE mgr[sess[t]].ws = None
  BY <1>1, <1>3, EndStep DEF ReadWorkingSet, CountType
<1>4. CASE mgr[sess[t]].ws # None
  <2>1. /\ look[t] \in Looks /\ look[t].summary = None /\ mgr[sess[t]] \in Managers
    BY <1>1, AtThread DEF Idle
  <2>2. PICK l : l = [look[t] EXCEPT !.ws = mgr[sess[t]].ws]
    OBVIOUS
  <2>3. /\ At(t, "evaluate") /\ look' = [look EXCEPT ![t] = l] /\ UNCHANGED <<sess, st>>
    BY <1>1, <1>4, <2>2, TypesNow DEF ReadWorkingSet, ThreadType
  <2>4. l \in Looks /\ l.summary = None
    BY <1>4, <2>1, <2>2 DEF Looks, Managers
  <2>5. PICK s, c : s = sess[t] /\ c = st[t] /\ ThreadMove(t, "evaluate", s, c, l)
    BY <1>1, <2>3, SameRun
  <2>6. t = Chat => \A r \in CompactedIds(c) : Explained(s, r)
    BY <1>1, <2>5 DEF ContextInv, ReceiptsNamed
  <2>7. t = Chat => \A r \in CompactedIds(c) : Explained(s, r)'
    BY <1>1, <2>6, ExplainedForGood DEF fileVars
  <2> QED
    BY <1>1, <1>2, <2>4, <2>5, <2>7, RunMoves DEF Idle, Places, fileVars, keyVars
<1> QED
  BY <1>3, <1>4

LEMMA SummaryFailsStep ==
  ASSUME ChatInv, NEW t \in Threads, SummaryFails(t)
  PROVE  ChatInv'
<1>1. faults' \in 0..MaxFaults
  BY TypesNow, ChatNumbers DEF ChatInv, SummaryFails, CountType
<1> QED
  BY <1>1, EndStep DEF SummaryFails

\* A step of a summary, once its keys are seen to.
LEMMA KeyStep ==
  ASSUME ChatInv, NEW t \in Threads, NEW p, NEW s, NEW c, NEW l,
         ThreadMove(t, p, s, c, l), pc[t] \in {"evaluate", "summarize", "audit"},
         l \in Looks, p # "audit" => l.summary = None,
         \/ p = "idle" /\ t # Chat /\ s = None /\ c = None
         \/ /\ p \in {"summarize", "audit", "call", "compact"} /\ s = sess[t] /\ c = st[t]
            /\ t = Chat \/ p = "summarize"
            /\ p \in {"summarize", "audit"} =>
                 /\ l.key \in Keys /\ l.key.session = s
                 /\ l.key.reason = "manual_compress" <=> t = "console",
         SummaryUnchanged, FileType', faults' \in 0..MaxFaults,
         journal \subseteq journal', unwritten \subseteq unwritten',
         KeysCompleted', KeysAudited', SummarizedOnce', SummariesJournaled'
  PROVE  ChatInv'
<1>1. /\ ContextInv /\ ServiceType' /\ CountType' /\ ReceiptsJournaled /\ pc[t] \notin Idle
      /\ UNCHANGED <<persistent, raced, conv, accepted, processed, mgr, shown>>
  BY SummaryTypes DEF ChatInv, Idle, serviceVars, sessionVars
<1>2. sess[t] \in Sessions /\ st[t] \in Conversations /\ persistent \in Sessions
  BY <1>1, AtThread
<1>3. t = "console" => conv[sess[t]] \in Conversations
  BY <1>1 DEF ContextInv, PlacesAgree
<1>4. Standing(t, p, s, c, l)
  BY <1>1, <1>2, <1>3 DEF Standing, Places, Idle, Chat, Threads
<1>5. pc'[Chat] # "idle" => processed' < accepted'
  BY <1>1, Moved DEF ContextInv, PlacesAgree, Chat, Threads, Idle
<1>6. ThreadType' /\ PlacesAgree'
  BY <1>1, <1>4, <1>5, StandingAgrees
<1>7. ReplacedOnlyByRace'
  BY <1>1, RaceKept
<1>8. ReceiptsStand(t, p, s, c)
  <2>1. CASE p = "idle"
    BY <2>1 DEF ReceiptsStand, Idle, Named
  <2>2. CASE p # "idle"
    <3>1. /\ s = sess[t] /\ c = st[t] /\ p # "remember"
      BY <2>2
    <3>2. ReceiptsExplained(s, c) /\ (t = Chat => \A r \in CompactedIds(c) : Explained(s, r))
      BY <1>1, <3>1 DEF ContextInv, ReceiptsNamed
    <3> QED
      BY <3>1, <3>2, ExplainedForGood DEF ReceiptsStand
  <2> QED
    BY <2>1, <2>2
<1>9. \A x \in Sessions : mgr'[x].keys \subseteq SUBSET Results
  BY DEF FileType, Managers
<1>10. ReceiptsNamed'
  BY <1>1, <1>8, <1>9, ReceiptsKept
<1>11. ReceiptsJournaled'
  BY <1>1, ShownKept
<1>12. ChatTypeOK'
  BY <1>1, <1>6 DEF ChatTypeOK, ServiceType, FileType, ThreadType, CountType
<1> QED
  BY <1>6, <1>7, <1>10, <1>11, <1>12 DEF ChatInv, ContextInv

LEMMA EvaluateStep ==
  ASSUME ChatInv, NEW t \in Threads, Evaluate(t)
  PROVE  ChatInv'
<1>1. /\ ContextInv /\ FileType /\ ServiceType /\ CountType /\ ThreadType /\ pc[t] = "evaluate"
      /\ SummaryUnchanged /\ UNCHANGED <<fileVars, keyVars, faults>>
  BY SummaryTypes DEF Evaluate
<1>2. FileType' /\ faults' \in 0..MaxFaults
  BY <1>1, SummaryTypes DEF FileType, fileVars, keyVars, CountType
<1>3. CASE EndSummary(t)
  BY <1>1, <1>2, <1>3, EndStep
<1>4. CASE ~EndSummary(t)
  <2>1. PICK k : k = TriggerKey(t)
    OBVIOUS
  <2>2. /\ k \in Keys /\ k.session = sess[t]
        /\ k.reason = "manual_compress" <=> t = "console"
    BY <1>1, <2>1, TriggerFacts
  <2>3. look[t] \in Looks /\ look[t].summary = None /\ sess[t] \in Sessions
    BY <1>1, AtThread DEF Idle
  <2>4. PICK l : l = [look[t] EXCEPT !.key = k]
    OBVIOUS
  <2>5. l \in Looks /\ l.summary = None /\ l.key = k
    BY <2>2, <2>3, <2>4 DEF Looks
  <2>6. PICK p \in {"audit", "summarize"} :
          /\ At(t, p) /\ look' = [look EXCEPT ![t] = l] /\ UNCHANGED <<sess, st>>
          /\ p = "audit" => t = Chat /\ (RequiresLlm(k) => k \in completed[sess[t]])
          /\ p = "summarize" => RequiresLlm(k) /\ k \notin completed[sess[t]]
    <3>1. look' = [look EXCEPT ![t].key = k] => look' = [look EXCEPT ![t] = l]
      BY <1>1, <2>4 DEF ThreadType
    <3> QED
      BY <1>4, <2>1, <3>1 DEF Evaluate, Completed, Chat
  <2>7. PICK s, c : s = sess[t] /\ c = st[t] /\ ThreadMove(t, p, s, c, l)
    BY <2>6, SameRun
  <2>8. /\ UNCHANGED <<summaries, completed, audited, journal, unwritten>>
        /\ journal \subseteq journal' /\ unwritten \subseteq unwritten'
        /\ \A j \in journal' : j \in journal \/ j.kind # "phase_summary"
    BY <1>1 DEF fileVars, keyVars
  <2>9. KeysCompleted'
    BY <2>5, <2>6, <2>7, <2>8, CompletedKept
  <2>10. KeysAudited' /\ SummarizedOnce' /\ SummariesJournaled'
    <3>1. CASE p = "summarize"
      BY <1>1, <2>7, <2>8, <3>1, AuditsKept
    <3>2. CASE p = "audit"
      <4>1. /\ t = Chat /\ \A x, y : ~Unaudited(x, y)
            /\ pc[Chat] # "audit"
        BY <1>1, <2>6, <3>2 DEF Unaudited
      <4>2. RequiresLlm(k) => k \in completed[s] /\ k \in audited[s] \cup unwritten
        BY <1>1, <2>2, <2>3, <2>6, <2>7, <3>2, <4>1
           DEF ContextInv, KeysAudited, Chat
      <4>3. look'[Chat] = l /\ sess'[Chat] = s
        BY <1>1, <2>7, <4>1, Moved
      <4>4. KeysAudited'
        BY <1>1, <2>5, <2>8, <4>1, <4>2, <4>3 DEF ContextInv, KeysAudited
      <4>5. SummarizedOnce' /\ SummariesJournaled'
        BY <2>8, <4>1 DEF ChatInv, SummarizedOnce, SummariesJournaled
      <4> QED
        BY <4>4, <4>5
    <3> QED
      BY <3>1, <3>2
  <2> QED
    BY <1>1, <1>2, <2>2, <2>5, <2>6, <2>7, <2>8, <2>9, <2>10, KeyStep
<1> QED
  BY <1>3, <1>4

\* The summary gets an id and a key that no other has.
LEMMA SummarizeStep ==
  ASSUME ChatInv, NEW t \in Threads, Summarize(t)
  PROVE  ChatInv'
<1>1. /\ ContextInv /\ FileType /\ ServiceType /\ CountType /\ ThreadType /\ pc[t] = "summarize"
      /\ SummaryUnchanged /\ UNCHANGED <<journal, unwritten, audited, faults>>
      /\ KeysCompleted /\ KeysAudited /\ PlacesAgree
  BY SummaryTypes DEF Summarize, ContextInv
<1>2. PICK k, s, id : k = look[t].key /\ s = sess[t] /\ id = Cardinality(summaries) + 1
  OBVIOUS
<1>3. PICK x : x = SummaryFile(id, k)
  OBVIOUS
<1>4. /\ summaries' = summaries \cup {x}
      /\ completed' = [completed EXCEPT ![s] = @ \cup {k}]
      /\ x.id = id /\ x.key = k
  BY <1>2, <1>3 DEF Summarize, SummaryFile
<1>5. /\ s \in Sessions /\ k \in Keys /\ k.session = s
      /\ k.reason = "manual_compress" <=> t = "console"
      /\ RequiresLlm(k) /\ k \notin completed[s]
      /\ look[t] \in Looks /\ look[t].summary = None
  BY <1>1, <1>2, AtThread DEF PlacesAgree, KeysCompleted, Idle
<1>6. Cardinality(summaries) \in Nat /\ id \in Nat /\ id # None /\ id = Cardinality(summaries) + 1
  BY <1>1, <1>2, FS_CardinalityType, ChatNumbers DEF KeysCompleted
<1>7. \A y \in summaries : y.id # id
  BY <1>1, <1>6 DEF KeysCompleted
<1>8. IsFiniteSet(summaries') /\ Cardinality(summaries') = Cardinality(summaries) + 1
  BY <1>1, <1>4, <1>7, FS_AddElement DEF KeysCompleted
<1>9. FileType'
  <2>1. x \in [id : Nat, key : Keys]
    BY <1>3, <1>5, <1>6 DEF SummaryFile
  <2>2. completed' \in [Sessions -> SUBSET Keys]
    BY <1>1, <1>4, <1>5 DEF FileType
  <2> QED
    BY <1>1, <1>4, <2>1, <2>2, SummaryTypes DEF FileType
<1>10. \A y \in Sessions : /\ completed[y] \subseteq completed'[y]
                         /\ completed'[y] = IF y = s THEN completed[y] \cup {k} ELSE completed[y]
  BY <1>1, <1>4 DEF FileType
<1>11. PICK p, c, l :
         /\ ThreadMove(t, p, IF t = Chat THEN s ELSE None, c, l)
         /\ IF t = Chat THEN /\ p = "audit" /\ l = [look[t] EXCEPT !.summary = id] /\ c = st[t]
                        ELSE p = "idle" /\ l = NoLook /\ c = None
  <2>1. CASE t = Chat
    <3>1. PICK c, l : c = st[t] /\ l = [look[t] EXCEPT !.summary = id]
      OBVIOUS
    <3>2. ThreadMove(t, "audit", s, c, l)
      BY <1>1, <1>2, <2>1, <3>1, Stay DEF Summarize, At, ThreadMove, Chat, ThreadType
    <3> QED
      BY <2>1, <3>1, <3>2
  <2>2. CASE t # Chat
    <3>1. ThreadMove(t, "idle", None, None, NoLook)
      BY <2>2 DEF Summarize, Release, At, ThreadMove, Chat
    <3> QED
      BY <2>2, <3>1
  <2> QED
    BY <2>1, <2>2
<1>12. PICK q : q = IF t = Chat THEN s ELSE None
  OBVIOUS
<1>13. /\ ThreadMove(t, p, q, c, l) /\ l \in Looks /\ (p # "audit" => l.summary = None)
       /\ t = Chat => l.key = k /\ l.summary = id
  BY <1>1, <1>2, <1>5, <1>6, <1>11, <1>12, Stay DEF Looks
<1>14. KeysCompleted'
  <2>1. ASSUME NEW y \in summaries'
        PROVE  /\ y.id \in 1..Cardinality(summaries')
               /\ \A z \in summaries' : y.id = z.id => y = z
               /\ RequiresLlm(y.key) /\ y.key \in completed'[y.key.session]
    <3>1. CASE y \in summaries
      <4>1. y.id \in 1..Cardinality(summaries) /\ y.key.session \in Sessions
        BY <1>1, <3>1 DEF KeysCompleted, FileType, Keys
      <4>2. y.id \in 1..Cardinality(summaries')
        BY <1>6, <1>8, <4>1
      <4> QED
        BY <1>1, <1>4, <1>7, <1>10, <3>1, <4>1, <4>2 DEF KeysCompleted
    <3>2. CASE y = x
      BY <1>4, <1>5, <1>6, <1>7, <1>8, <1>10, <3>2
    <3> QED
      BY <1>4, <3>1, <3>2
  <2>2. ASSUME NEW u \in Threads, pc'[u] = "summarize"
        PROVE  RequiresLlm(look'[u].key) /\ look'[u].key \notin completed'[sess'[u]]
    <3>1. u # t /\ pc[u] = "summarize" /\ look'[u] = look[u] /\ sess'[u] = sess[u]
      BY <1>1, <1>11, <1>13, <2>2, Moved
    <3>2. /\ RequiresLlm(look[u].key) /\ look[u].key \notin completed[sess[u]]
          /\ look[u].key.reason = "manual_compress" <=> u = "console"
          /\ sess[u] \in Sessions
      BY <1>1, <3>1, AtThread DEF KeysCompleted, PlacesAgree, Idle
    <3>3. look[u].key # k
      BY <1>5, <3>1, <3>2 DEF Threads
    <3> QED
      BY <1>10, <3>1, <3>2, <3>3
  <2> QED
    BY <1>8, <2>1, <2>2 DEF KeysCompleted
<1>15. SummarizedOnce'
  <2>1. \A y \in summaries : y.key # k
    BY <1>1, <1>5 DEF KeysCompleted
  <2> QED
    BY <1>4, <2>1 DEF ChatInv, SummarizedOnce
<1>16. \A y, z : Unaudited(y, z) => Unaudited(y, z)'
  BY <1>1, <1>13, Moved DEF Unaudited, Threads, Chat
<1>17. t = Chat => Unaudited(s, k)'
  BY <1>1, <1>6, <1>11, <1>12, <1>13, Moved DEF Unaudited
<1>18. KeysAudited'
  <2>1. ASSUME NEW y \in Sessions
        PROVE  /\ \A z \in audited'[y] : RequiresLlm(z) => z \in completed'[y]
               /\ \A z \in completed'[y] :
                    \/ z.reason = "manual_compress"
                    \/ z \in audited'[y] \cup unwritten'
                    \/ Unaudited(y, z)'
    <3>1. \A z \in audited'[y] : RequiresLlm(z) => z \in completed'[y]
      BY <1>1, <1>10 DEF KeysAudited
    <3>2. ASSUME NEW z \in completed'[y]
          PROVE  \/ z.reason = "manual_compress"
                 \/ z \in audited'[y] \cup unwritten'
                 \/ Unaudited(y, z)'
      <4>1. CASE z \in completed[y]
        BY <1>1, <1>16, <4>1 DEF KeysAudited
      <4>2. CASE z \notin completed[y]
        <5>1. y = s /\ z = k
          BY <1>10, <4>2
        <5> QED
          BY <1>5, <1>17, <5>1 DEF Threads, Chat
      <4> QED
        BY <4>1, <4>2
    <3> QED
      BY <3>1, <3>2
  <2>2. CASE t = Chat
    <3>1. /\ pc'[Chat] = "audit" /\ look'[Chat] = l /\ sess'[Chat] = s
      BY <1>1, <1>11, <1>12, <1>13, <2>2, Moved
    <3>2. k \notin audited[s] /\ k \in completed'[s] /\ SummaryFile(id, k) \in summaries'
      BY <1>1, <1>3, <1>4, <1>5, <1>10 DEF KeysAudited
    <3> QED
      BY <1>1, <1>5, <1>6, <1>13, <2>1, <2>2, <3>1, <3>2 DEF KeysAudited
  <2>3. CASE t # Chat
    <3>1. /\ pc'[Chat] = pc[Chat] /\ look'[Chat] = look[Chat] /\ sess'[Chat] = sess[Chat]
          /\ pc[Chat] = "audit" => sess[Chat] \in Sessions
      BY <1>1, <1>13, <2>3, Moved, AtThread DEF Threads, Chat, Idle
    <3> QED
      BY <1>1, <1>4, <1>10, <2>1, <3>1 DEF KeysAudited
  <2> QED
    BY <2>2, <2>3
<1>19. SummariesJournaled'
  <2>1. \A y : pc[Chat] = "audit" /\ look[Chat].summary = y =>
              pc'[Chat] = "audit" /\ look'[Chat].summary = y
    BY <1>1, <1>13, Moved DEF Threads, Chat
  <2>2. t = Chat => pc'[Chat] = "audit" /\ look'[Chat].summary = x.id
    BY <1>1, <1>4, <1>11, <1>13, Moved
  <2>3. t # Chat => x.key.reason = "manual_compress"
    BY <1>4, <1>5 DEF Threads, Chat
  <2> QED
    BY <1>1, <1>4, <2>1, <2>2, <2>3 DEF ChatInv, SummariesJournaled
<1>20. /\ SummaryUnchanged /\ faults' \in 0..MaxFaults
       /\ journal' = journal /\ unwritten' = unwritten
  BY <1>1 DEF CountType
<1>21. \/ p = "idle" /\ t # Chat /\ q = None /\ c = None
       \/ /\ p \in {"summarize", "audit", "call", "compact"} /\ q = sess[t] /\ c = st[t]
          /\ t = Chat \/ p = "summarize"
          /\ p \in {"summarize", "audit"} =>
               /\ l.key \in Keys /\ l.key.session = q
               /\ l.key.reason = "manual_compress" <=> t = "console"
  BY <1>2, <1>5, <1>11, <1>12, <1>13 DEF Threads, Chat
<1> QED
  BY <1>1, <1>9, <1>13, <1>14, <1>15, <1>18, <1>19, <1>20, <1>21, KeyStep

LEMMA AuditStep ==
  ASSUME ChatInv, Audit
  PROVE  ChatInv'
<1>1. /\ ContextInv /\ FileType /\ ServiceType /\ CountType /\ ThreadType /\ pc[Chat] = "audit"
      /\ SummaryUnchanged /\ UNCHANGED <<summaries, completed>> /\ EndSummary(Chat)
      /\ KeysCompleted /\ KeysAudited /\ PlacesAgree /\ SummariesJournaled /\ Chat \in Threads
  BY SummaryTypes DEF Audit, ContextInv, Chat, ChatInv, Threads
<1>2. PICK k, s, id : k = look[Chat].key /\ s = sess[Chat] /\ id = look[Chat].summary
  OBVIOUS
<1>3. s \in Sessions /\ k \in Keys /\ k.session = s
  BY <1>1, <1>2, AtThread DEF PlacesAgree, Idle
<1>4. IF id = None
      THEN RequiresLlm(k) => k \in completed[s] /\ k \in audited[s] \cup unwritten
      ELSE /\ RequiresLlm(k) /\ k \in completed[s] \ audited[s]
           /\ SummaryFile(id, k) \in summaries
  BY <1>1, <1>2 DEF KeysAudited
<1>5. \/ /\ k \in audited[s] /\ UNCHANGED <<journal, unwritten, audited, faults>>
      \/ /\ k \notin audited[s]
         /\ journal' = journal \cup {SummaryEntry(s, k, id)}
         /\ audited' = [audited EXCEPT ![s] = @ \cup {k}]
         /\ UNCHANGED <<unwritten, faults>>
      \/ /\ k \notin audited[s] /\ faults < MaxFaults /\ faults' = faults + 1
         /\ unwritten' = unwritten \cup {k} /\ UNCHANGED <<journal, audited>>
  BY <1>2 DEF Audit, AuditKey, Chat
<1>6. PICK p, c : ThreadMove(Chat, p, s, c, NoLook) /\ p \in {"compact", "call"} /\ c = st[Chat]
  BY <1>1, <1>2, EndMoves DEF Idle
<1>7. PICK l : l = NoLook
  OBVIOUS
<1>8. l \in Looks /\ l.summary = None /\ pc'[Chat] = p
  BY <1>1, <1>6, <1>7, Stay, Moved
<1>9. faults' \in 0..MaxFaults /\ journal \subseteq journal' /\ unwritten \subseteq unwritten'
  BY <1>1, <1>5, ChatNumbers DEF CountType
<1>10. /\ \A x \in Sessions : audited[x] \subseteq audited'[x]
       /\ \A x \in Sessions : \A z \in audited'[x] : z \in audited[x] \/ (x = s /\ z = k)
       /\ k \in audited'[s] \cup unwritten'
       /\ audited' \in [Sessions -> SUBSET Keys]
  BY <1>1, <1>3, <1>5 DEF FileType
<1>11. FileType'
  BY <1>1, <1>10, SummaryTypes DEF FileType
<1>12. KeysCompleted'
  BY <1>1, <1>6, <1>7, CompletedKept
<1>13. KeysAudited'
  <2>1. ASSUME NEW x \in Sessions
        PROVE  /\ \A z \in audited'[x] : RequiresLlm(z) => z \in completed'[x]
               /\ \A z \in completed'[x] :
                    z.reason = "manual_compress" \/ z \in audited'[x] \cup unwritten'
    <3>1. \A z : Unaudited(x, z) => x = s /\ z = k
      BY <1>2 DEF Unaudited
    <3>2. \A z \in audited'[x] : RequiresLlm(z) => z \in completed[x]
      BY <1>1, <1>4, <1>10 DEF KeysAudited
    <3> QED
      BY <1>1, <1>9, <1>10, <3>1, <3>2 DEF KeysAudited
  <2>2. pc'[Chat] # "audit"
    BY <1>6, <1>8
  <2> QED
    BY <2>1, <2>2 DEF KeysAudited
<1>14. SummarizedOnce'
  BY <1>1 DEF ChatInv, SummarizedOnce
<1>15. SummariesJournaled'
  <2>1. ASSUME NEW x \in summaries'
        PROVE  \/ x.key.reason = "manual_compress"
               \/ x.key \in unwritten'
               \/ \E j \in journal' : j.kind = "phase_summary" /\ j.summary = x.id
    <3>1. CASE look[Chat].summary = x.id /\ x.id # None
      <4>1. id = x.id /\ SummaryFile(id, k) \in summaries /\ SummaryFile(id, k).id = id
        BY <1>2, <1>4, <3>1 DEF SummaryFile
      <4>2. x = SummaryFile(id, k)
        BY <1>1, <2>1, <4>1 DEF KeysCompleted
      <4>3. x.key = k /\ RequiresLlm(k) /\ k \notin audited[s]
        BY <1>2, <1>4, <3>1, <4>2 DEF SummaryFile
      <4>4. SummaryEntry(s, k, id).kind = "phase_summary" /\ SummaryEntry(s, k, id).summary = id
        BY <4>3 DEF SummaryEntry
      <4> QED
        BY <1>5, <4>1, <4>3, <4>4
    <3>2. CASE ~(look[Chat].summary = x.id /\ x.id # None)
      <4>1. x \in summaries /\ x.id # None
        BY <1>1, <2>1, ChatNumbers DEF FileType
      <4> QED
        BY <1>1, <1>9, <3>2, <4>1 DEF SummariesJournaled
    <3> QED
      BY <3>1, <3>2
  <2>2. ASSUME NEW j \in journal', j.kind = "phase_summary", j.summary = None
        PROVE  j.key \in unwritten'
    <3>1. CASE j \in journal
      BY <1>1, <1>9, <2>2, <3>1 DEF SummariesJournaled
    <3>2. CASE j \notin journal
      <4>1. j = SummaryEntry(s, k, id) /\ k \notin audited[s] /\ unwritten' = unwritten
        BY <1>5, <3>2
      <4>2. RequiresLlm(k) /\ id = None /\ j.key = k
        BY <2>2, <4>1 DEF SummaryEntry
      <4> QED
        BY <1>4, <4>1, <4>2
    <3> QED
      BY <3>1, <3>2
  <2> QED
    BY <2>1, <2>2 DEF SummariesJournaled
<1>16. p \notin {"summarize", "audit"} /\ p \in {"summarize", "audit", "call", "compact"}
  BY <1>6
<1> QED
  BY <1>1, <1>2, <1>6, <1>7, <1>8, <1>9, <1>11, <1>12, <1>13, <1>14, <1>15, <1>16,
     KeyStep

----------------------------------------------------------------------------
(* The chat: model calls *)

LEMMA CallTypes ==
  ASSUME ChatInv, CallUnchanged, pc[Chat] \notin Idle
  PROVE  /\ ContextInv /\ ServiceType /\ FileType /\ ThreadType /\ CountType /\ Chat \in Threads
         /\ sess[Chat] \in Sessions /\ st[Chat] \in Conversations /\ look[Chat] \in Looks
         /\ persistent \in Sessions /\ processed < accepted
         /\ ReceiptsExplained(sess[Chat], st[Chat])
         /\ UNCHANGED <<accepted, persistent, created, raced, completed, audited>>
         /\ UNCHANGED <<summaries, commands>>
BY TypesNow, AtThread
   DEF ChatInv, CallUnchanged, ContextInv, PlacesAgree, ReceiptsNamed, keyVars, Threads, Chat, Idle

\* What the model gets as a receipt was replaced by this projection, or before.
LEMMA ShownExplained ==
  ASSUME ChatInv, pc[Chat] = "call", Show
  PROVE  \A q \in shown' :
           q \in shown \/ \E r : q = Result(sess[Chat], r) /\ Explained(sess[Chat], r)
<1>1. /\ st[Chat] \in Conversations /\ ReceiptsExplained(sess[Chat], st[Chat])
      /\ \A r \in CompactedIds(st[Chat]) : Explained(sess[Chat], r)
  BY AtThread DEF ChatInv, ContextInv, ReceiptsNamed, Threads, Chat, Idle
<1>2. ASSUME NEW r \in Receipts(st[Chat])
      PROVE  Explained(sess[Chat], r)
  BY <1>1, <1>2 DEF Receipts, CompactedIds, ReceiptsExplained
<1> QED
  BY <1>2 DEF Show

LEMMA FinishTurnStep ==
  ASSUME ChatInv, pc[Chat] \notin Idle, pc[Chat] # "audit", NEW c \in Conversations, FinishTurn(c),
         c.results = st[Chat].results, c.raw = st[Chat].raw, CallUnchanged, CountType',
         UNCHANGED <<mgr, journal, unwritten>>,
         \A q \in shown' :
           q \in shown \/ \E r : q = Result(sess[Chat], r) /\ Explained(sess[Chat], r)
  PROVE  ChatInv'
<1>1. /\ ContextInv /\ ServiceType /\ FileType /\ ThreadType /\ Chat \in Threads
      /\ sess[Chat] \in Sessions /\ processed < accepted
      /\ ReceiptsExplained(sess[Chat], st[Chat])
      /\ UNCHANGED <<accepted, persistent, created, raced, completed, audited, summaries>>
  BY CallTypes
<1>2. /\ conv' = [conv EXCEPT ![sess[Chat]] = c] /\ processed' = processed + 1
      /\ ThreadMove(Chat, "idle", None, None, NoLook)
  BY DEF FinishTurn, Release, At, ThreadMove
<1>3. PICK l : l = NoLook
  OBVIOUS
<1>4. l \in Looks /\ l.summary = None
  BY <1>1, <1>3, Stay
<1>5. Standing(Chat, "idle", None, None, l) /\ ReceiptsStand(Chat, "idle", None, None)
  BY <1>1, <1>4, AtRest
<1>6. ServiceType' /\ FileType'
  <2>1. processed' \in 0..accepted /\ accepted \in 0..MaxTasks
    BY <1>1, <1>2, ChatNumbers DEF ServiceType
  <2>2. conv' \in [Sessions -> Conversations \cup {None}]
    BY <1>1, <1>2 DEF ServiceType
  <2> QED
    BY <1>1, <2>1, <2>2 DEF ServiceType, FileType
<1>7. pc'[Chat] = "idle"
  BY <1>1, <1>2, Moved
<1>8. PICK s : s = sess[Chat]
  OBVIOUS
<1>9. ReceiptsExplained(s, c)'
  BY <1>1, <1>8 DEF ReceiptsExplained, Explained
<1>10. ASSUME NEW x \in Sessions, conv'[x] # conv[x]
       PROVE  /\ x = sess[Chat] /\ conv'[x] \in Conversations
              /\ \A b : b = conv'[x] => ReceiptsExplained(x, b)'
  BY <1>1, <1>2, <1>8, <1>9, <1>10 DEF ServiceType
<1> QED
  BY <1>1, <1>2, <1>3, <1>5, <1>6, <1>7, <1>10, OrdinaryStep

\* The next model call of the run, with another projection.
LEMMA ContinueStep ==
  ASSUME ChatInv, pc[Chat] \notin Idle, pc[Chat] # "audit",
         NEW s, s = sess[Chat], NEW c \in Conversations, Continue(c),
         At(Chat, "project"), ReceiptsExplained(s, c)', CallUnchanged, FileType', CountType',
         look[Chat].summary = None,
         journal \subseteq journal', unwritten \subseteq unwritten',
         \A j \in journal' : j \in journal \/ j.kind # "phase_summary",
         \A x \in Sessions : mgr'[x].keys = mgr[x].keys,
         \A q \in shown' : q \in shown \/ \E r : q = Result(s, r) /\ Explained(s, r)
  PROVE  ChatInv'
<1>1. /\ ContextInv /\ ServiceType /\ ThreadType /\ Chat \in Threads /\ persistent \in Sessions
      /\ sess[Chat] \in Sessions /\ processed < accepted /\ look[Chat] \in Looks
      /\ UNCHANGED <<accepted, persistent, created, raced, completed, audited, summaries>>
      /\ UNCHANGED <<processed, conv, sess, look>>
  BY CallTypes DEF Continue
<1>2. PICK l : l = look[Chat]
  OBVIOUS
<1>3. ThreadMove(Chat, "project", s, c, l)
  BY <1>1, <1>2, Stay DEF ThreadMove, At, Continue
<1>4. Standing(Chat, "project", s, c, l) /\ ReceiptsStand(Chat, "project", s, c)
  BY <1>1, <1>2 DEF Standing, ReceiptsStand, Places, Idle, Named, Chat
<1>5. ServiceType'
  BY <1>1 DEF ServiceType
<1> QED
  BY <1>1, <1>3, <1>4, <1>5, OrdinaryStep

LEMMA AnswerStep ==
  ASSUME ChatInv, Answer
  PROVE  ChatInv'
<1>1. PICK c : c = [st[Chat] EXCEPT !.len = @ + 1, !.fresh = {}]
  OBVIOUS
<1>2. /\ pc[Chat] = "call" /\ FinishTurn(c) /\ Show /\ CallUnchanged
      /\ UNCHANGED <<mgr, runVars, journal, unwritten, faults>>
  BY <1>1 DEF Answer
<1>3. st[Chat] \in Conversations /\ CountType /\ UNCHANGED <<raced, commands>>
  BY <1>2, CallTypes DEF Idle
<1>4. c \in Conversations /\ c.results = st[Chat].results /\ c.raw = st[Chat].raw
  <2>1. st[Chat].len + 1 \in Nat /\ {} \in SUBSET Results
    BY <1>3 DEF Conversations
  <2> QED
    BY <1>1, <1>3, <2>1 DEF Conversations
<1>5. CountType'
  BY <1>2, <1>3 DEF CountType, runVars
<1> QED
  BY <1>2, <1>4, <1>5, ShownExplained, FinishTurnStep DEF Idle

LEMMA CallToolStep ==
  ASSUME ChatInv, CallTool
  PROVE  ChatInv'
<1>1. PICK s, n : s = sess[Chat] /\ n = st[Chat].results + 1
  OBVIOUS
<1>2. PICK c : c = [st[Chat] EXCEPT !.len = @ + 2, !.turn = @ + 1, !.results = n,
                                    !.raw = @ \cup {n}, !.fresh = {n},
                                    !.transition = "tool_result_continuation"]
  OBVIOUS
<1>3. /\ pc[Chat] = "call" /\ n \in Results /\ Continue(c) /\ At(Chat, "project") /\ Show
      /\ transportAttempts' = 0 /\ CallUnchanged
      /\ UNCHANGED <<mgr, forced, emergencyCompacts, journal, unwritten, faults>>
  BY <1>1, <1>2 DEF CallTool
<1>4. /\ st[Chat] \in Conversations /\ CountType /\ FileType /\ UNCHANGED <<raced, commands>>
      /\ UNCHANGED <<completed, audited, summaries>>
      /\ ReceiptsExplained(s, st[Chat])
  BY <1>1, <1>3, CallTypes DEF Idle
<1>5. c \in Conversations /\ c.results = n /\ c.raw = st[Chat].raw \cup {n}
  <2>1. /\ st[Chat].len + 2 \in Nat /\ st[Chat].turn + 1 \in Nat /\ n \in Nat
        /\ st[Chat].raw \cup {n} \in SUBSET Results /\ {n} \in SUBSET Results
        /\ "tool_result_continuation" \in Transitions
    BY <1>3, <1>4, ChatNumbers DEF Conversations, Results, Transitions
  <2> QED
    BY <1>2, <1>4, <2>1 DEF Conversations
<1>6. \A r \in 1..n : r = n \/ r \in 1..st[Chat].results
  BY <1>1, <1>4 DEF Conversations
<1>7. ReceiptsExplained(s, c)
  BY <1>4, <1>5, <1>6 DEF ReceiptsExplained
<1>8. ReceiptsExplained(s, c)'
  BY <1>3, <1>7 DEF ReceiptsExplained, Explained
<1>9. CountType'
  BY <1>3, <1>4, ChatNumbers DEF CountType
<1>10. FileType' /\ look[Chat].summary = None
  BY <1>3, <1>4, AtThread DEF FileType, ChatInv, Threads, Chat
<1> QED
  BY <1>1, <1>3, <1>5, <1>8, <1>9, <1>10, ShownExplained, ContinueStep DEF Idle

\* A failure ends the run, or is tried again as long as attempts are left.
LEMMA RetryStep ==
  ASSUME ChatInv, pc[Chat] \notin Idle, pc[Chat] # "audit", RetryOrFail, CallUnchanged,
         faults' \in 0..MaxFaults,
         UNCHANGED <<mgr, forced, emergencyCompacts, journal, unwritten, shown>>
  PROVE  ChatInv'
<1>1. PICK s, old, c : s = sess[Chat] /\ old = st[Chat] /\ c = Interrupted(old)
  OBVIOUS
<1>2. /\ old \in Conversations /\ CountType /\ FileType /\ UNCHANGED <<raced, commands>>
      /\ UNCHANGED <<completed, audited, summaries>>
      /\ ReceiptsExplained(s, old)
  BY <1>1, CallTypes
<1>3. c \in Conversations /\ c.results = old.results /\ c.raw = old.raw
  BY <1>1, <1>2 DEF Interrupted, Conversations
<1>4. /\ FileType' /\ look[Chat].summary = None
  BY <1>2, AtThread DEF FileType, ChatInv, Threads, Chat
<1>5. CASE LastAttempt(transportAttempts)
  <2>1. FinishTurn(c) /\ UNCHANGED transportAttempts
    BY <1>1, <1>5 DEF RetryOrFail
  <2>2. CountType'
    BY <1>2, <2>1 DEF CountType
  <2> QED
    BY <1>1, <1>3, <2>1, <2>2, FinishTurnStep
<1>6. CASE ~LastAttempt(transportAttempts)
  <2>1. PICK d : d = [c EXCEPT !.transition = "transport_retry"]
    OBVIOUS
  <2>2. Continue(d) /\ At(Chat, "project") /\ transportAttempts' = transportAttempts + 1
    BY <1>1, <1>6, <2>1 DEF RetryOrFail
  <2>3. d \in Conversations /\ d.results = old.results /\ d.raw = old.raw
    BY <1>3, <2>1 DEF Conversations, Transitions
  <2>4. transportAttempts' \in 0..(MaxModelRecovery - 1)
    BY <1>2, <1>6, <2>2, ChatNumbers DEF CountType, LastAttempt
  <2>5. CountType'
    BY <1>2, <2>4 DEF CountType
  <2>6. ReceiptsExplained(s, d)'
    BY <1>2, <2>3 DEF ReceiptsExplained, Explained
  <2> QED
    BY <1>1, <1>4, <2>2, <2>3, <2>5, <2>6, ContinueStep
<1> QED
  BY <1>5, <1>6

LEMMA ModelCallFailsStep ==
  ASSUME ChatInv, ModelCallFails
  PROVE  ChatInv'
<1>1. faults' \in 0..MaxFaults
  BY TypesNow, ChatNumbers DEF ChatInv, ModelCallFails, CountType
<1> QED
  BY <1>1, RetryStep DEF ModelCallFails, Idle

LEMMA ProjectionRaisesStep ==
  ASSUME ChatInv, NEW t \in Threads, ProjectionRaises(t)
  PROVE  ChatInv'
<1>1. /\ pc[t] = "journal" /\ CallUnchanged
      /\ UNCHANGED <<mgr, forced, emergencyCompacts, journal, unwritten, faults, shown>>
      /\ ContextInv /\ ServiceType /\ FileType /\ ThreadType /\ CountType
  BY TypesNow DEF ProjectionRaises, ChatInv
<1>2. CASE t = Chat
  BY <1>1, <1>2, RetryStep DEF ProjectionRaises, Idle, CountType
<1>3. CASE t # Chat
  <2>1. Release(t) /\ UNCHANGED <<processed, conv, transportAttempts>>
    BY <1>3 DEF ProjectionRaises
  <2>2. PICK l : l = NoLook
    OBVIOUS
  <2>3. ThreadMove(t, "idle", None, None, l)
    BY <2>1, <2>2 DEF Release, At, ThreadMove
  <2>4. l \in Looks /\ l.summary = None
    BY <1>1, <2>2, Stay
  <2>5. Standing(t, "idle", None, None, l) /\ ReceiptsStand(t, "idle", None, None)
    BY <1>1, <2>4, AtRest
  <2>6. /\ UNCHANGED <<accepted, persistent, created, raced, completed, audited>>
        /\ UNCHANGED <<summaries, commands>>
    BY <1>1 DEF CallUnchanged, keyVars
  <2>7. ServiceType' /\ FileType' /\ CountType'
    BY <1>1, <2>1, <2>6 DEF ServiceType, FileType, CountType
  <2>8. pc'[Chat] # "idle" => processed' < accepted'
    BY <1>1, <1>3, <2>1, <2>3, <2>6, Moved DEF ContextInv, PlacesAgree, Chat, Threads
  <2> QED
    BY <1>1, <2>1, <2>3, <2>5, <2>6, <2>7, <2>8, NothingShown, OrdinaryStep
<1> QED
  BY <1>2, <1>3

LEMMA OverflowsStep ==
  ASSUME ChatInv, Overflows
  PROVE  ChatInv'
<1>1. /\ pc[Chat] = "call" /\ forced' = TRUE /\ At(Chat, "working") /\ CallUnchanged
      /\ UNCHANGED <<processed, conv, mgr, transportAttempts, emergencyCompacts, journal, unwritten,
                     faults, sess, st, look, shown>>
  BY DEF Overflows
<1>2. /\ ContextInv /\ FileType /\ CountType /\ Chat \in Threads
      /\ UNCHANGED <<accepted, persistent, created, raced, completed, audited>>
      /\ UNCHANGED <<summaries, commands>>
  BY <1>1, CallTypes DEF Idle
<1>3. PICK s, c, l : /\ s = sess[Chat] /\ c = st[Chat] /\ l = look[Chat]
                     /\ ThreadMove(Chat, "working", s, c, l)
  BY <1>1, <1>2, Stay, SameRun
<1>4. l \in Looks /\ l.summary = None
  BY <1>1, <1>2, <1>3, AtThread
<1>5. FileType' /\ CountType'
  BY <1>1, <1>2 DEF FileType, CountType
<1>6. \A r \in CompactedIds(c) : Explained(s, r)
  BY <1>1, <1>2, <1>3 DEF ContextInv, ReceiptsNamed
<1>7. \A r \in CompactedIds(c) : Explained(s, r)'
  BY <1>1, <1>6, ExplainedForGood
<1> QED
  BY <1>1, <1>2, <1>3, <1>4, <1>5, <1>7, RunMoves
     DEF Idle, Places, serviceVars, sessionVars, Chat

LEMMA EmergencyCompactStep ==
  ASSUME ChatInv, EmergencyCompact
  PROVE  ChatInv'
<1>1. PICK s, old, c : /\ s = sess[Chat] /\ old = st[Chat]
                       /\ c = [old EXCEPT !.raw = {}, !.transition = "emergency_compact_retry"]
  OBVIOUS
<1>2. /\ pc[Chat] = "compact" /\ emergencyCompacts' = 1 /\ forced' = FALSE /\ Continue(c)
      /\ At(Chat, "project") /\ CallUnchanged /\ UNCHANGED <<transportAttempts, shown>>
      /\ \/ /\ journal' = journal \cup {EmergencyEntry(s, old.raw)}
            /\ UNCHANGED <<unwritten, faults>>
         \/ /\ faults < MaxFaults /\ faults' = faults + 1
            /\ unwritten' = unwritten \cup {Result(s, r) : r \in old.raw}
            /\ UNCHANGED journal
      /\ mgr' = [mgr EXCEPT ![s].tokens = EstimateTokens(c), ![s].health = TRUE]
  BY <1>1 DEF EmergencyCompact
<1>3. /\ old \in Conversations /\ CountType /\ FileType /\ s \in Sessions
      /\ UNCHANGED <<raced, commands, completed, audited, summaries>>
      /\ ReceiptsExplained(s, old)
  BY <1>1, <1>2, CallTypes DEF Idle
<1>4. c \in Conversations /\ c.results = old.results
  BY <1>1, <1>3 DEF Conversations, Transitions
<1>5. PICK m : m = [mgr[s] EXCEPT !.tokens = EstimateTokens(c), !.health = TRUE]
  OBVIOUS
<1>6. mgr' = [mgr EXCEPT ![s] = m] /\ m \in Managers /\ m.keys = mgr[s].keys
  <2>1. EstimateTokens(c) \in Nat /\ mgr[s] \in Managers
    BY <1>3, <1>4, RawFacts DEF FileType
  <2> QED
    BY <1>2, <1>3, <1>5, <2>1 DEF Managers, FileType
<1>7. FileType' /\ \A x \in Sessions : mgr'[x].keys = mgr[x].keys
  BY <1>3, <1>6 DEF FileType
<1>8. /\ journal \subseteq journal' /\ unwritten \subseteq unwritten'
      /\ \A j \in journal' : j \in journal \/ j.kind # "phase_summary"
      /\ faults' \in 0..MaxFaults
  BY <1>2, <1>3, ChatNumbers DEF EmergencyEntry, CountType
<1>9. \A r \in old.raw : Explained(s, r)'
  <2>1. \/ EmergencyEntry(s, old.raw) \in journal'
        \/ \A r \in old.raw : Result(s, r) \in unwritten'
    BY <1>2
  <2>2. CASE EmergencyEntry(s, old.raw) \in journal'
    <3>1. \A r \in old.raw :
            EmergencyEntry(s, old.raw).kind = "emergency_compact"
            /\ EmergencyEntry(s, old.raw).session = s /\ r \in EmergencyEntry(s, old.raw).ids
      BY DEF EmergencyEntry
    <3> QED
      BY <2>2, <3>1 DEF Explained
  <2>3. CASE \A r \in old.raw : Result(s, r) \in unwritten'
    BY <2>3 DEF Explained
  <2> QED
    BY <2>1, <2>2, <2>3
<1>10. \A r \in 1..old.results : r \in old.raw \/ Explained(s, r)'
  BY <1>3, <1>8, ExplainedForGood DEF ReceiptsExplained
<1>11. ReceiptsExplained(s, c)'
  BY <1>4, <1>9, <1>10 DEF ReceiptsExplained
<1>12. CountType'
  <2>1. forced' \in BOOLEAN /\ raced' \in BOOLEAN
    BY <1>2, <1>3 DEF CountType
  <2>2. /\ transportAttempts' \in 0..(MaxModelRecovery - 1)
        /\ commands' \in 0..MaxCommands /\ faults' \in 0..MaxFaults
    BY <1>2, <1>3, <1>8 DEF CountType
  <2>3. emergencyCompacts' \in 0..1
    <3>1. emergencyCompacts' = 1
      BY <1>2
    <3> QED
      BY <3>1
  <2> QED
    BY <2>1, <2>2, <2>3 DEF CountType
<1>13. look[Chat].summary = None /\ \A q \in shown' : q \in shown
  BY <1>2, AtThread DEF ChatInv, Threads, Chat
<1> QED
  BY <1>1, <1>2, <1>4, <1>7, <1>8, <1>11, <1>12, <1>13, ContinueStep DEF Idle

LEMMA OverflowAgainStep ==
  ASSUME ChatInv, OverflowAgain
  PROVE  ChatInv'
<1>1. PICK c : c = Interrupted(st[Chat])
  OBVIOUS
<1>2. /\ pc[Chat] = "compact" /\ forced' = FALSE /\ FinishTurn(c) /\ CallUnchanged
      /\ UNCHANGED <<mgr, transportAttempts, emergencyCompacts, journal, unwritten, faults, shown>>
  BY <1>1 DEF OverflowAgain
<1>3. st[Chat] \in Conversations /\ CountType /\ UNCHANGED <<raced, commands>>
  BY <1>2, CallTypes DEF Idle
<1>4. c \in Conversations /\ c.results = st[Chat].results /\ c.raw = st[Chat].raw
  BY <1>1, <1>3 DEF Interrupted, Conversations
<1>5. CountType'
  BY <1>2, <1>3 DEF CountType
<1> QED
  BY <1>2, <1>4, <1>5, FinishTurnStep DEF Idle

----------------------------------------------------------------------------
(* The chat: every step *)

LEMMA ChatStart == ChatInit => ChatInv
<1> SUFFICES ASSUME ChatInit
             PROVE  ChatInv
  OBVIOUS
<1>1. ChatTypeOK
  <2>1. NoManager \in Managers /\ NoLook \in Looks
    BY DEF NoManager, Managers, NoLook, Looks
  <2>2. ServiceType
    BY ChatNumbers DEF ChatInit, ServiceType
  <2>3. FileType
    BY <2>1 DEF ChatInit, FileType
  <2>4. ThreadType
    BY <2>1 DEF ChatInit, ThreadType, Places, Threads
  <2>5. CountType
    <3>1. forced \in BOOLEAN /\ raced \in BOOLEAN
      BY DEF ChatInit
    <3>2. /\ 0 \in 0..(MaxModelRecovery - 1) /\ 0 \in 0..1
          /\ 0 \in 0..MaxFaults /\ 0 \in 0..MaxCommands
      BY ChatNumbers
    <3> QED
      BY <3>1, <3>2 DEF ChatInit, CountType
  <2> QED
    BY <2>2, <2>3, <2>4, <2>5, TypeParts
<1>2. PlacesAgree /\ ReplacedOnlyByRace
  BY DEF ChatInit, PlacesAgree, ReplacedOnlyByRace, Idle, NoLook, Threads, Chat
<1>3. KeysCompleted /\ KeysAudited
  BY FS_EmptySet DEF ChatInit, KeysCompleted, KeysAudited, Threads, Chat
<1>4. ReceiptsNamed
  BY DEF ChatInit, ReceiptsNamed, NoManager, Idle, Threads, Chat
<1>5. SummarizedOnce /\ ReceiptsJournaled /\ SummariesJournaled
  BY DEF ChatInit, SummarizedOnce, ReceiptsJournaled, SummariesJournaled
<1> QED
  BY <1>1, <1>2, <1>3, <1>4, <1>5 DEF ChatInv, ContextInv

LEMMA ChatStutters ==
  ASSUME ChatInv, UNCHANGED chatVars
  PROVE  ChatInv'
<1>1. ContextInv /\ ServiceType /\ FileType /\ ThreadType /\ CountType
  BY TypesNow DEF ChatInv
<1>2. /\ UNCHANGED <<accepted, processed, persistent, created, conv, raced, mgr>>
      /\ UNCHANGED <<summaries, journal>>
      /\ UNCHANGED <<unwritten, completed, audited, transportAttempts, emergencyCompacts, forced>>
      /\ UNCHANGED <<pc, sess, st, look, faults, commands, shown>>
  BY DEF chatVars, serviceVars, sessionVars, fileVars, keyVars, runVars
<1>3. ChatTypeOK'
  BY <1>1, <1>2 DEF ContextInv, ChatTypeOK
<1>4. PlacesAgree' /\ ReplacedOnlyByRace' /\ KeysCompleted'
  BY <1>1, <1>2 DEF ContextInv, PlacesAgree, ReplacedOnlyByRace, KeysCompleted
<1>5. KeysAudited'
  BY <1>1, <1>2 DEF ContextInv, KeysAudited, Unaudited
<1>6. ReceiptsNamed'
  BY <1>1, <1>2 DEF ContextInv, ReceiptsNamed, ReceiptsExplained, Explained
<1>7. SummarizedOnce' /\ ReceiptsJournaled' /\ SummariesJournaled'
  BY <1>2 DEF ChatInv, SummarizedOnce, ReceiptsJournaled, SummariesJournaled
<1> QED
  BY <1>3, <1>4, <1>5, <1>6, <1>7 DEF ChatInv, ContextInv

LEMMA ChatStep ==
  ASSUME ChatInv, [ChatNext]_chatVars
  PROVE  ChatInv'
<1>1. ASSUME NEW t \in Threads, Project(t)
      PROVE  ChatInv'
  BY <1>1, PublishStep, BudgetStep, CheckStep, JournalStep, RememberStep,
     ProjectionRaisesStep
     DEF Project
<1>2. ASSUME NEW t \in Threads, Thread(t)
      PROVE  ChatInv'
  BY <1>1, <1>2, LookForSessionStep, CreateSessionStep, UseSessionStep,
     ReadWorkingSetStep,
     EvaluateStep, SummarizeStep, SummaryFailsStep DEF Thread
<1>3. CASE ChatThread
  BY <1>2, <1>3, TakeTaskStep, AuditStep, AnswerStep, CallToolStep, ModelCallFailsStep,
     OverflowsStep, EmergencyCompactStep, OverflowAgainStep DEF ChatThread, Threads, Chat
<1> QED
  BY <1>2, <1>3, ChatStutters, SubmitStep, CompressStep, ClearStep DEF ChatNext, Threads

LEMMA ChatInvariant == ChatSpec => []ChatInv
<1>1. ChatInv /\ [ChatNext]_chatVars => ChatInv'
  BY ChatStep
<1> QED
  BY <1>1, ChatStart, PTL DEF ChatSpec

(* For any number of tasks, tool results, commands and faults, and for any   *)
(* limits of the context: every thread in a run has the session and a state  *)
(* of it, a conversation is replaced only when both threads found none, and  *)
(* the keys and receipts stand as the three theorems below need it.          *)
THEOREM ChatContextCorrect == ChatSpec => []ContextInv
<1>1. ChatInv => ContextInv
  BY DEF ChatInv
<1> QED
  BY <1>1, ChatInvariant, PTL

(* PhaseSummaryService summarizes a state of the conversation at most once   *)
(* for one reason, with the chat and the console thread in it at once, after *)
(* failed calls and after /context clear.                                    *)
THEOREM SummariesOnce == ChatSpec => []SummarizedOnce
<1>1. ChatInv => SummarizedOnce
  BY DEF ChatInv
<1> QED
  BY <1>1, ChatInvariant, PTL

(* Every receipt that the model was given instead of a result is named by an *)
(* entry of the Compression Journal, unless writing that entry failed.       *)
THEOREM ReceiptsInJournal == ChatSpec => []ReceiptsJournaled
<1>1. ChatInv => ReceiptsJournaled
  BY DEF ChatInv
<1> QED
  BY <1>1, ChatInvariant, PTL

(* Every summary of the loop has its entry as soon as the loop goes on, and  *)
(* an entry without a summary stands for one whose first write had failed.   *)
THEOREM SummariesInJournal == ChatSpec => []SummariesJournaled
<1>1. ChatInv => SummariesJournaled
  BY DEF ChatInv
<1> QED
  BY <1>1, ChatInvariant, PTL
=============================================================================
