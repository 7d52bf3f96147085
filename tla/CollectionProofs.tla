--------------------------- MODULE CollectionProofs ---------------------------
(***************************************************************************)
(* The requests of the collectors and what they collect.                   *)
(*                                                                         *)
(* UserRequests, for any threads, configs, grants, retries and faults:     *)
(* refreshes exclude each other, a rejected access token is not sent again,*)
(* and a refresh is made only when it is due and with a refresh token not  *)
(* yet exchanged.                                                          *)
(*                                                                         *)
(* Collectors, for any documents, messages, page and item limits, failures *)
(* and restarts: a collector that resumes from its own state has collected *)
(* what lies before the place from which it resumes.                       *)
(***************************************************************************)
EXTENDS UserRequests, Collectors, FiniteSetTheorems, WellFoundedInduction, TLAPS

Refreshing == {"refresh", "save", "set tokens", "set expiry"}

----------------------------------------------------------------------------
(* Threads, configs and requests *)

LEMMA Numbers ==
  /\ MaxRetries \in Nat /\ MaxPages \in Nat /\ MaxPages >= 1 /\ MaxGrants \in Nat
  /\ Grants = 0..MaxGrants /\ Grants \subseteq Nat /\ 0 \in Grants
  /\ \A n \in Grants : 0 <= n
BY RequestsAssumption DEF Grants

LEMMA GrantOrder ==
  ASSUME NEW m \in Grants, NEW n \in Grants, m <= n
  PROVE  /\ 1..n \subseteq Grants /\ 1..m \subseteq 1..n /\ 0 <= n
         /\ \A x \in Grants : x <= m => x <= n
BY Numbers

\* The config of a tool call is that thread's alone.
LEMMA Configured ==
  ASSUME NEW t \in Threads
  PROVE  /\ ConfigOf(t) \in Configs
         /\ t \in Tools => ConfigOf(t) = t /\ \A u \in Threads : ConfigOf(u) = t => u = t
         /\ t # Nobody
BY RequestsAssumption DEF ConfigOf, Configs, Threads

LEMMA FreshRequest ==
  ASSUME NEW n \in 0..(MaxPages + 2)
  PROVE  /\ NewRequest(n) \in Requests
         /\ NewRequest(n).token = 0 /\ NewRequest(n).rejected = {} /\ ~NewRequest(n).forced
BY Numbers DEF NewRequest, Requests

\* The invariant, taken apart for one thread.
LEMMA ThreadFacts ==
  ASSUME RequestsInv, NEW t \in Threads
  PROVE  /\ req[t] \in Requests /\ req[t].token \in Grants /\ pc[t] \in Phases
         /\ issued \in Nat /\ req[t].token <= issued /\ req[t].rejected \subseteq 1..issued
         /\ req[t].forced \in BOOLEAN
         /\ AccessOf(t) \in Grants /\ RefreshOf(t) \in Grants /\ AccessOf(t) <= issued
         /\ lock = t <=> pc[t] \in Refreshing
<1>1. req \in [Threads -> Requests] /\ pc \in [Threads -> Phases] /\ issued \in Grants
  BY DEF RequestsInv, TypeOK
<1>2. req[t] \in Requests /\ pc[t] \in Phases
  BY <1>1
<1>3. req[t].token \in Grants /\ req[t].forced \in BOOLEAN
  BY <1>2 DEF Requests
<1>4. issued \in Nat
  BY <1>1, Numbers
<1>5. req[t].token <= issued /\ req[t].rejected \subseteq 1..issued
  BY DEF RequestsInv, IssuedOnly
<1>6. AccessOf(t) \in Grants /\ RefreshOf(t) \in Grants
  BY Configured DEF RequestsInv, TypeOK, AccessOf, RefreshOf
<1>7. AccessOf(t) <= issued
  BY Configured DEF RequestsInv, IssuedOnly, AccessOf
<1>8. lock = t <=> pc[t] \in Refreshing
  BY DEF RequestsInv, RefreshLocked, Refreshing
<1> QED
  BY <1>2, <1>3, <1>4, <1>5, <1>6, <1>7, <1>8

\* One thread at a time holds the lock, so one at a time refreshes.
LEMMA OneRefresher ==
  ASSUME RequestsInv, NEW t \in Threads, NEW u \in Threads,
         pc[t] \in Refreshing, pc[u] \in Refreshing
  PROVE  t = u
BY ThreadFacts

\* A response ends the call or begins its next request.
LEMMA RespondFacts ==
  ASSUME RequestsInv, NEW t \in Threads, NEW status, Respond(t, status)
  PROVE  \E n \in 0..(MaxPages + 2), p \in {"idle", "read access"} :
           req' = [req EXCEPT ![t] = NewRequest(n)] /\ pc' = [pc EXCEPT ![t] = p]
<1>1. req[t].n \in 0..(MaxPages + 2) /\ MaxPages \in Nat /\ MaxPages >= 1
  BY Numbers, ThreadFacts DEF Requests
<1>2. ASSUME NEW n \in 0..(MaxPages + 2), NEW p \in {"idle", "read access"},
             req' = [req EXCEPT ![t] = NewRequest(n)], pc' = [pc EXCEPT ![t] = p]
      PROVE  \E m \in 0..(MaxPages + 2), q \in {"idle", "read access"} :
               req' = [req EXCEPT ![t] = NewRequest(m)] /\ pc' = [pc EXCEPT ![t] = q]
  BY <1>2
<1>3. /\ 0 \in 0..(MaxPages + 2) /\ 2 \in 0..(MaxPages + 2)
      /\ req[t].n < MaxPages => req[t].n + 1 \in 0..(MaxPages + 2)
  BY <1>1
<1>4. ASSUME Return(t)
      PROVE  req' = [req EXCEPT ![t] = NewRequest(0)] /\ pc' = [pc EXCEPT ![t] = "idle"]
  BY <1>4 DEF Return, Goto
<1>5. ASSUME NEW n, StartRequest(t, n)
      PROVE  req' = [req EXCEPT ![t] = NewRequest(n)] /\ pc' = [pc EXCEPT ![t] = "read access"]
  BY <1>5 DEF StartRequest, Goto
<1>6. CASE NextPage(t, status)
  <2>1. StartRequest(t, req[t].n + 1) /\ req[t].n < MaxPages
    BY <1>6 DEF NextPage
  <2> QED
    BY <1>2, <1>3, <1>5, <2>1
<1>7. CASE Return(t)
  BY <1>2, <1>3, <1>4, <1>7
<1>8. CASE StartRequest(t, 2)
  BY <1>2, <1>3, <1>5, <1>8
<1>9. NextPage(t, status) \/ Return(t) \/ StartRequest(t, 2)
  BY DEF Respond, EndDiscover, QueryDrive, ReadDoc
<1> QED
  BY <1>6, <1>7, <1>8, <1>9

LEMMA RaiseFacts ==
  ASSUME NEW t \in Threads, Raise(t)
  PROVE  \E n \in 0..(MaxPages + 2), p \in {"idle", "read access"} :
           req' = [req EXCEPT ![t] = NewRequest(n)] /\ pc' = [pc EXCEPT ![t] = p]
<1>1. req' = [req EXCEPT ![t] = NewRequest(0)] /\ pc' = [pc EXCEPT ![t] = "idle"]
  BY DEF Raise, Return, Goto
<1>2. 0 \in 0..(MaxPages + 2)
  BY Numbers
<1> QED
  BY <1>1, <1>2

----------------------------------------------------------------------------
(* A step of one thread that leaves the grants where they are *)

\* Feishu forgets no grant it has issued.
FeishuKeeps ==
  /\ issued' \in Grants /\ issued' >= issued
  /\ accepted' \subseteq 1..issued'
  /\ dead' \cup ageing' \subseteq Grants

\* t goes to phase p with request r; the configs and .env keep their tokens.
Quiet(t, r, p) ==
  /\ pc' = [pc EXCEPT ![t] = p]
  /\ req' = [req EXCEPT ![t] = r]
  /\ FeishuKeeps
  /\ expires' \in [Configs -> Grants]
  /\ UNCHANGED <<env, access, refresh, spent>>

LEMMA FeishuSame ==
  ASSUME RequestsInv, UNCHANGED feishu
  PROVE  FeishuKeeps
<1>1. issued \in Grants /\ accepted \subseteq 1..issued /\ dead \cup ageing \subseteq Grants
  BY DEF RequestsInv, TypeOK, IssuedOnly
<1>2. issued \in Nat
  BY <1>1, Numbers
<1> QED
  BY <1>1, <1>2 DEF feishu, FeishuKeeps

\* Who is replacing a spent refresh token goes on replacing it in a step that
\* leaves the carriers and what they carry alone.
LEMMA ReplacerKept ==
  ASSUME RequestsInv,
         Carriers({"save", "set tokens"})' = Carriers({"save", "set tokens"}),
         \A u \in Carriers({"save", "set tokens"}) : req'[u].token = req[u].token
  PROVE  \A c \in Configs : refresh[c] \in spent[c] =>
           \E u \in Carriers({"save", "set tokens"})' : ConfigOf(u) = c /\ req'[u].token # 0
<1> SUFFICES ASSUME NEW c \in Configs, refresh[c] \in spent[c]
             PROVE  \E u \in Carriers({"save", "set tokens"})' :
                      ConfigOf(u) = c /\ req'[u].token # 0
  OBVIOUS
<1>1. PICK u \in Carriers({"save", "set tokens"}) : ConfigOf(u) = c /\ req[u].token # 0
  BY DEF RequestsInv, SpentReplaced
<1> QED
  BY <1>1

LEMMA QuietStep ==
  ASSUME RequestsInv, NEW t \in Threads, NEW r \in Requests, NEW p \in Phases,
         Quiet(t, r, p),
         pc[t] \notin {"save", "set tokens"}, p \notin {"save", "set tokens", "set expiry"},
         IF p = "refresh" THEN lock' = t ELSE lock' = IF lock = t THEN Nobody ELSE lock,
         p = "refresh" => lock \in {t, Nobody},
         r.token <= issued', r.rejected \subseteq 1..issued',
         r.forced => p \in {"lock", "refresh"},
         ~r.forced => /\ AccessOf(t) \notin r.rejected
                      /\ \A u \in Threads \ {t} : pc[u] \in {"save", "set tokens"}
                           => req[u].token \notin r.rejected,
         p \in {"send", "read expiry"} => r.token \notin r.rejected \cup {0}
  PROVE  RequestsInv'
<1>0. issued \in Grants /\ issued' \in Grants /\ issued <= issued'
  BY Numbers DEF RequestsInv, TypeOK, Quiet, FeishuKeeps
<1>1. /\ req \in [Threads -> Requests] /\ pc \in [Threads -> Phases]
      /\ lock \in Threads \cup {Nobody} /\ issued \in Nat /\ issued' \in Nat
      /\ issued' >= issued /\ t # Nobody
  <2>1. /\ req \in [Threads -> Requests] /\ pc \in [Threads -> Phases]
        /\ lock \in Threads \cup {Nobody} /\ issued \in Grants /\ issued' \in Grants
        /\ issued' >= issued
    BY DEF RequestsInv, TypeOK, Quiet, FeishuKeeps
  <2> QED
    BY <2>1, Numbers, Configured
<1>2. /\ pc' = [pc EXCEPT ![t] = p] /\ req' = [req EXCEPT ![t] = r]
      /\ env' = env /\ access' = access /\ refresh' = refresh /\ spent' = spent
  BY DEF Quiet
<1>3. /\ pc'[t] = p /\ req'[t] = r
      /\ \A u \in Threads \ {t} : pc'[u] = pc[u] /\ req'[u] = req[u]
  BY <1>1, <1>2
<1>4. \A u \in Threads : AccessOf(u)' = AccessOf(u)
  BY <1>2 DEF AccessOf
<1>5. TypeOK'
  <2>1. lock' \in Threads \cup {Nobody}
    BY <1>1
  <2>2. /\ pc' \in [Threads -> Phases] /\ req' \in [Threads -> Requests]
    BY <1>1, <1>2
  <2>3. /\ issued' \in Grants /\ dead' \cup ageing' \subseteq Grants
        /\ expires' \in [Configs -> Grants] /\ accepted' \subseteq 1..issued'
    BY DEF Quiet, FeishuKeeps
  <2>4. accepted' \subseteq Grants
    BY <1>0, <2>3, GrantOrder
  <2>5. /\ env' \in Grants /\ access' \in [Configs -> Grants] /\ refresh' \in [Configs -> Grants]
        /\ spent' \in [Configs -> SUBSET Grants]
    BY <1>2 DEF RequestsInv, TypeOK
  <2> QED
    BY <2>1, <2>2, <2>3, <2>4, <2>5 DEF TypeOK
<1>6. RefreshLocked'
  <2> SUFFICES ASSUME NEW u \in Threads PROVE lock' = u <=> pc'[u] \in Refreshing
    BY DEF RefreshLocked, Refreshing
  <2>1. CASE u = t
    <3>1. pc'[u] \in Refreshing <=> p = "refresh"
      BY <1>3, <2>1 DEF Refreshing
    <3>2. CASE p = "refresh"
      BY <2>1, <3>1, <3>2
    <3>3. CASE p # "refresh"
      <4>1. lock' # t
        BY <1>1, <3>3
      <4> QED
        BY <2>1, <3>1, <3>3, <4>1
    <3> QED
      BY <3>2, <3>3
  <2>2. CASE u # t
    BY <1>1, <1>3, <2>2, ThreadFacts, Configured
  <2> QED
    BY <2>1, <2>2
<1>7. IssuedOnly'
  <2>1. /\ accepted' \subseteq 1..issued' /\ 1..issued \subseteq 1..issued'
    <3>1. accepted' \subseteq 1..issued'
      BY DEF Quiet, FeishuKeeps
    <3> QED
      BY <1>0, <3>1, GrantOrder
  <2>2. /\ env \in 1..issued /\ env \in Grants
        /\ \A c \in Configs : /\ access[c] <= issued /\ access[c] \in Grants
                              /\ spent[c] \subseteq 1..issued
    BY DEF RequestsInv, TypeOK, IssuedOnly
  <2>3. \A x \in Grants : x <= issued => x <= issued'
    BY <1>0, GrantOrder
  <2>4. ASSUME NEW u \in Threads
        PROVE  req'[u].token <= issued' /\ req'[u].rejected \subseteq 1..issued'
    <3>1. CASE u = t
      BY <1>3, <3>1
    <3>2. CASE u # t
      BY <1>3, <2>1, <2>3, <3>2, ThreadFacts
    <3> QED
      BY <3>1, <3>2
  <2> QED
    BY <1>2, <2>1, <2>2, <2>3, <2>4 DEF IssuedOnly
<1>8. /\ Carriers({"save", "set tokens"})' = Carriers({"save", "set tokens"})
      /\ Carriers({"save"})' = Carriers({"save"})
      /\ t \notin Carriers({"save", "set tokens"})
  <2>1. \A u \in Threads :
          pc'[u] \in {"save", "set tokens"} <=> pc[u] \in {"save", "set tokens"}
    BY <1>3
  <2>2. \A u \in Threads : pc'[u] = "save" <=> pc[u] = "save"
    BY <1>3
  <2> QED
    BY <2>1, <2>2 DEF Carriers
<1>9. \A u \in Carriers({"save", "set tokens"}) : u \in Threads /\ req'[u] = req[u]
  BY <1>3, <1>8 DEF Carriers
<1>10. SpentReplaced'
  <2>1. \A u \in Carriers({"save", "set tokens"}), c \in Configs : req'[u].token \notin spent[c]
    BY <1>9 DEF RequestsInv, SpentReplaced
  <2>2. \A c \in Configs : refresh'[c] \in spent'[c] =>
          \E u \in Carriers({"save", "set tokens"})' : ConfigOf(u) = c /\ req'[u].token # 0
    BY <1>2, <1>8, <1>9, ReplacerKept
  <2>3. \A c \in Configs : env' \in spent'[c] =>
          env' = refresh'[c] /\ \E u \in Carriers({"save"})' : ConfigOf(u) = c
    BY <1>2, <1>8 DEF RequestsInv, SpentReplaced
  <2>4. \A u \in Carriers({"save", "set tokens"})', c \in Configs : req'[u].token \notin spent'[c]
    BY <1>2, <1>8, <2>1
  <2> QED
    BY <2>2, <2>3, <2>4 DEF SpentReplaced
<1>11. RejectedPassed'
  <2> SUFFICES ASSUME NEW u \in Threads
               PROVE  /\ IF req'[u].forced
                         THEN pc'[u] \in {"lock", "refresh", "save", "set tokens", "set expiry"}
                         ELSE /\ AccessOf(u) \notin req'[u].rejected
                              /\ \A v \in Carriers({"save", "set tokens"}) :
                                   req[v].token \notin req'[u].rejected
                      /\ pc'[u] \in {"save", "set tokens", "set expiry"}
                           => req'[u].token \notin req'[u].rejected
                      /\ pc'[u] = "set expiry" => AccessOf(u) = req'[u].token
                      /\ pc'[u] = "read expiry" => req'[u].token \notin req'[u].rejected \cup {0}
    BY <1>4, <1>8, <1>9 DEF RejectedPassed, At
  <2>1. CASE u = t
    BY <1>3, <1>8, <2>1 DEF Carriers
  <2>2. CASE u # t
    BY <1>3, <2>2 DEF RequestsInv, RejectedPassed, At
  <2> QED
    BY <2>1, <2>2
<1>12. NoRejectedTokenSent'
  <2> SUFFICES ASSUME NEW u \in Threads, pc'[u] = "send"
               PROVE  req'[u].token \notin req'[u].rejected \cup {0}
    BY DEF NoRejectedTokenSent, At
  <2>1. CASE u = t
    BY <1>3, <2>1
  <2>2. CASE u # t
    BY <1>3, <2>2 DEF RequestsInv, NoRejectedTokenSent, At
  <2> QED
    BY <2>1, <2>2
<1> QED
  BY <1>5, <1>6, <1>7, <1>10, <1>11, <1>12 DEF RequestsInv

\* A step that ends a request and lets go of the lock.
LEMMA LeaveStep ==
  ASSUME RequestsInv, NEW t \in Threads, NEW n \in 0..(MaxPages + 2),
         NEW p \in {"idle", "read access"}, Quiet(t, NewRequest(n), p),
         pc[t] \notin {"save", "set tokens"},
         lock' = IF lock = t THEN Nobody ELSE lock
  PROVE  RequestsInv'
<1> DEFINE r == NewRequest(n)
<1>1. r \in Requests /\ r.token = 0 /\ r.rejected = {} /\ ~r.forced
  BY FreshRequest
<1>2. p \in Phases
  BY DEF Phases
<1>3. r.token <= issued'
  <2>1. issued' \in Grants
    BY DEF Quiet, FeishuKeeps
  <2>2. 0 <= issued'
    BY <2>1, Numbers
  <2> QED
    BY <1>1, <2>2
<1> HIDE DEF r
<1>4. Quiet(t, r, p)
  BY DEF r
<1> QED
  BY <1>1, <1>2, <1>3, <1>4, QuietStep

----------------------------------------------------------------------------
(* The quiet actions *)

\* What the invariant says of the request of one thread.
LEMMA RequestFacts ==
  ASSUME RequestsInv, NEW t \in Threads
  PROVE  /\ IF req[t].forced
            THEN pc[t] \in {"lock", "refresh", "save", "set tokens", "set expiry"}
            ELSE /\ AccessOf(t) \notin req[t].rejected
                 /\ \A u \in Threads : pc[u] \in {"save", "set tokens"}
                      => req[u].token \notin req[t].rejected
         /\ pc[t] \in {"save", "set tokens", "set expiry"} => req[t].token \notin req[t].rejected
         /\ pc[t] = "set expiry" => AccessOf(t) = req[t].token
         /\ pc[t] = "read expiry" => req[t].token \notin req[t].rejected \cup {0}
         /\ pc[t] = "send" => req[t].token \notin req[t].rejected \cup {0}
BY DEF RequestsInv, RejectedPassed, NoRejectedTokenSent, At, Carriers

\* The shape of a quiet step in which Feishu and the configs stand still.
LEMMA QuietShape ==
  ASSUME RequestsInv, NEW t \in Threads, NEW r, NEW p,
         UNCHANGED <<feishu, env, access, refresh, spent>>,
         expires' \in [Configs -> Grants],
         pc' = [pc EXCEPT ![t] = p], req' = [req EXCEPT ![t] = r]
  PROVE  Quiet(t, r, p) /\ issued' = issued
BY FeishuSame DEF Quiet, feishu

LEMMA SameRequest ==
  ASSUME RequestsInv, NEW t \in Threads, req' = req
  PROVE  req' = [req EXCEPT ![t] = req[t]]
BY DEF RequestsInv, TypeOK

LEMMA ExpiresTyped ==
  ASSUME RequestsInv, UNCHANGED config
  PROVE  /\ UNCHANGED <<access, refresh, expires>> /\ expires' \in [Configs -> Grants]
BY DEF RequestsInv, TypeOK, config

\* A response, or an exception, gives the thread back and frees its lock.
LEMMA ResponseStep ==
  ASSUME RequestsInv, NEW t \in Threads, NEW status, Respond(t, status) \/ Raise(t),
         pc[t] \notin {"save", "set tokens"}, FeishuKeeps,
         UNCHANGED <<env, access, refresh, spent>>,
         expires' \in [Configs -> Grants],
         lock' = IF lock = t THEN Nobody ELSE lock
  PROVE  RequestsInv'
<1>1. PICK n \in 0..(MaxPages + 2), p \in {"idle", "read access"} :
        req' = [req EXCEPT ![t] = NewRequest(n)] /\ pc' = [pc EXCEPT ![t] = p]
  BY RespondFacts, RaiseFacts
<1>2. Quiet(t, NewRequest(n), p)
  BY <1>1 DEF Quiet
<1> QED
  BY <1>1, <1>2, LeaveStep

LEMMA DiscoverStep ==
  ASSUME RequestsInv, NEW t \in Threads, Discover(t)
  PROVE  RequestsInv'
<1>1. /\ pc[t] = "idle" /\ req' = [req EXCEPT ![t] = NewRequest(1)]
      /\ pc' = [pc EXCEPT ![t] = "read access"] /\ lock' = lock
      /\ UNCHANGED <<feishu, env, spent>> /\ UNCHANGED config
  BY DEF Discover, Begin, At, Goto
<1>2. lock # t
  BY <1>1, ThreadFacts DEF Refreshing
<1>3. Quiet(t, NewRequest(1), "read access")
  BY <1>1, ExpiresTyped, QuietShape
<1>4. 1 \in 0..(MaxPages + 2)
  BY Numbers
<1> QED
  BY <1>1, <1>2, <1>3, <1>4, LeaveStep

LEMMA ReadAccessStep ==
  ASSUME RequestsInv, NEW t \in Threads, ReadAccess(t)
  PROVE  RequestsInv'
<1>1. /\ pc[t] = "read access" /\ lock' = lock
      /\ UNCHANGED <<feishu, env, spent>> /\ UNCHANGED config
  BY DEF ReadAccess, At
<1>2. lock # t /\ pc[t] \notin {"save", "set tokens"}
  BY <1>1, ThreadFacts DEF Refreshing
<1>3. FeishuKeeps /\ UNCHANGED <<access, refresh>> /\ expires' \in [Configs -> Grants]
  BY <1>1, FeishuSame, ExpiresTyped
<1>4. CASE Respond(t, "failed")
  BY <1>1, <1>2, <1>3, <1>4, ResponseStep
<1>5. CASE /\ AccessOf(t) # 0
           /\ req' = [req EXCEPT ![t].token = AccessOf(t)]
           /\ pc' = [pc EXCEPT ![t] = "read expiry"]
  <2> DEFINE r == [req[t] EXCEPT !.token = AccessOf(t)]
  <2>1. /\ r \in Requests /\ r.token = AccessOf(t) /\ r.rejected = req[t].rejected
        /\ r.forced = req[t].forced
    BY ThreadFacts DEF Requests
  <2>2. req' = [req EXCEPT ![t] = r]
    BY <1>5
  <2> HIDE DEF r
  <2>3. Quiet(t, r, "read expiry") /\ issued' = issued
    BY <1>1, <1>3, <1>5, <2>2, QuietShape
  <2>4. ~req[t].forced /\ AccessOf(t) \notin req[t].rejected
    BY <1>1, RequestFacts
  <2>5. /\ r.token <= issued' /\ r.rejected \subseteq 1..issued'
        /\ ~r.forced
        /\ AccessOf(t) \notin r.rejected /\ r.token \notin r.rejected \cup {0}
        /\ \A u \in Threads \ {t} : pc[u] \in {"save", "set tokens"}
             => req[u].token \notin r.rejected
    BY <1>5, <2>1, <2>3, <2>4, RequestFacts, ThreadFacts
  <2>6. "read expiry" \in Phases
    BY DEF Phases
  <2> QED
    BY <1>1, <1>2, <2>1, <2>3, <2>5, <2>6, QuietStep
<1> QED
  BY <1>4, <1>5 DEF ReadAccess, Goto

LEMMA ReadExpiryStep ==
  ASSUME RequestsInv, NEW t \in Threads, ReadExpiry(t)
  PROVE  RequestsInv'
<1> DEFINE p == IF NeedsRefresh(t) THEN "lock" ELSE "send"
<1>1. /\ pc[t] = "read expiry" /\ lock' = lock /\ req' = req
      /\ pc' = [pc EXCEPT ![t] = p]
      /\ UNCHANGED <<feishu, env, spent>> /\ UNCHANGED config
  BY DEF ReadExpiry, At, Goto
<1>2. lock # t /\ p \in Phases /\ p \in {"lock", "send"}
  BY <1>1, ThreadFacts DEF Refreshing, Phases
<1> HIDE DEF p
<1>3. Quiet(t, req[t], p) /\ issued' = issued
  BY <1>1, SameRequest, ExpiresTyped, QuietShape
<1>4. ~req[t].forced /\ req[t].token \notin req[t].rejected \cup {0}
  BY <1>1, RequestFacts
<1>5. /\ AccessOf(t) \notin req[t].rejected
      /\ \A u \in Threads \ {t} : pc[u] \in {"save", "set tokens"}
           => req[u].token \notin req[t].rejected
      /\ req[t].token <= issued' /\ req[t].rejected \subseteq 1..issued' /\ req[t] \in Requests
  BY <1>3, <1>4, RequestFacts, ThreadFacts
<1> QED
  BY <1>1, <1>2, <1>3, <1>4, <1>5, QuietStep

LEMMA TakeLockStep ==
  ASSUME RequestsInv, NEW t \in Threads, TakeLock(t)
  PROVE  RequestsInv'
<1>1. /\ pc[t] = "lock" /\ lock = Nobody
      /\ UNCHANGED <<feishu, env, spent>> /\ UNCHANGED config
  BY DEF TakeLock, At
<1>2. /\ req[t] \in Requests /\ req[t].token <= issued /\ req[t].rejected \subseteq 1..issued
      /\ pc[t] \notin {"save", "set tokens"} /\ lock # t
      /\ "refresh" \in Phases /\ "send" \in Phases
  BY <1>1, ThreadFacts, Configured DEF Phases
<1>3. ~req[t].forced =>
        /\ AccessOf(t) \notin req[t].rejected
        /\ \A u \in Threads \ {t} : pc[u] \in {"save", "set tokens"}
             => req[u].token \notin req[t].rejected
  BY RequestFacts
<1>4. CASE lock' = t /\ pc' = [pc EXCEPT ![t] = "refresh"] /\ req' = req
  <2>1. Quiet(t, req[t], "refresh") /\ issued' = issued
    BY <1>1, <1>4, SameRequest, ExpiresTyped, QuietShape
  <2> QED
    BY <1>1, <1>2, <1>3, <1>4, <2>1, QuietStep
<1>5. CASE /\ ~req[t].forced /\ AccessOf(t) # 0 /\ lock' = lock
           /\ req' = [req EXCEPT ![t].token = AccessOf(t)]
           /\ pc' = [pc EXCEPT ![t] = "send"]
  <2> DEFINE r == [req[t] EXCEPT !.token = AccessOf(t)]
  <2>1. /\ r \in Requests /\ r.token = AccessOf(t) /\ r.rejected = req[t].rejected
        /\ r.forced = req[t].forced
    BY ThreadFacts DEF Requests
  <2>2. req' = [req EXCEPT ![t] = r]
    BY <1>5
  <2> HIDE DEF r
  <2>3. Quiet(t, r, "send") /\ issued' = issued
    BY <1>1, <1>5, <2>2, ExpiresTyped, QuietShape
  <2>4. r.token <= issued' /\ r.rejected \subseteq 1..issued' /\ r.token \notin r.rejected \cup {0}
    BY <1>2, <1>3, <1>5, <2>1, <2>3, ThreadFacts
  <2> QED
    BY <1>1, <1>2, <1>3, <1>5, <2>1, <2>3, <2>4, QuietStep
<1> QED
  BY <1>4, <1>5 DEF TakeLock, Goto

\* Feishu issues the next grant for one it accepts.
LEMMA IssueFacts ==
  ASSUME RequestsInv, NEW t \in Threads, Issue(t)
  PROVE  /\ FeishuKeeps /\ issued' = issued + 1 /\ issued + 1 \in Grants
         /\ RefreshOf(t) \in 1..issued
<1>1. /\ issued \in Grants /\ accepted \subseteq 1..issued /\ dead \cup ageing \subseteq Grants
  BY DEF RequestsInv, TypeOK, IssuedOnly
<1>2. /\ RefreshOf(t) \in accepted /\ issued < MaxGrants /\ issued' = issued + 1
      /\ accepted' = (accepted \ {RefreshOf(t)}) \cup {issued + 1}
      /\ UNCHANGED <<dead, ageing>>
  BY DEF Issue
<1>3. issued + 1 \in Grants /\ issued + 1 >= issued /\ issued + 1 \in 1..(issued + 1)
  BY <1>1, <1>2, Numbers
<1>4. 1..issued \subseteq 1..(issued + 1)
  BY <1>1, Numbers
<1>5. accepted' \subseteq 1..issued'
  BY <1>1, <1>2, <1>3, <1>4
<1> QED
  BY <1>1, <1>2, <1>3, <1>5 DEF FeishuKeeps

\* A refresh that ends without a grant to keep.
LEMMA RefreshEndsStep ==
  ASSUME RequestsInv, NEW t \in Threads,
         \/ RefreshTokenMissing(t) \/ RefreshRefused(t) \/ RefreshFails(t)
         \/ RefreshBreaks(t) \/ ResponseLost(t)
  PROVE  RequestsInv'
<1>1. /\ pc[t] = "refresh" /\ lock' = Nobody
      /\ Respond(t, "failed") \/ Raise(t)
      /\ UNCHANGED <<env, spent>> /\ UNCHANGED config
      /\ UNCHANGED feishu \/ Issue(t)
  BY DEF RefreshTokenMissing, RefreshRefused, RefreshFails, RefreshBreaks, ResponseLost,
         RuntimeErrorOf, Release, At
<1>2. lock = t /\ pc[t] \notin {"save", "set tokens"}
  BY <1>1, ThreadFacts DEF Refreshing
<1>3. FeishuKeeps
  BY <1>1, FeishuSame, IssueFacts
<1>4. UNCHANGED <<access, refresh>> /\ expires' \in [Configs -> Grants]
  BY <1>1, ExpiresTyped
<1> QED
  BY <1>1, <1>2, <1>3, <1>4, ResponseStep

LEMMA SetExpiryStep ==
  ASSUME RequestsInv, NEW t \in Threads, SetExpiry(t)
  PROVE  RequestsInv'
<1>1. /\ pc[t] = "set expiry" /\ lock' = Nobody /\ AfterRefresh(t)
      /\ expires' = [expires EXCEPT ![ConfigOf(t)] = req[t].token]
      /\ UNCHANGED <<feishu, env, access, refresh, spent>>
  BY DEF SetExpiry, At, Release
<1>2. lock = t /\ pc[t] \notin {"save", "set tokens"}
  BY <1>1, ThreadFacts DEF Refreshing
<1>3. expires' \in [Configs -> Grants] /\ FeishuKeeps
  BY <1>1, FeishuSame, ThreadFacts DEF RequestsInv, TypeOK
<1>4. CASE Respond(t, "failed")
  BY <1>1, <1>2, <1>3, <1>4, ResponseStep
<1> DEFINE p == IF req[t].forced THEN "read access" ELSE "send"
<1>5. CASE /\ req[t].token # 0
           /\ req' = [req EXCEPT ![t].forced = FALSE]
           /\ pc' = [pc EXCEPT ![t] = p]
  <2> DEFINE r == [req[t] EXCEPT !.forced = FALSE]
  <2>1. /\ r \in Requests /\ r.token = req[t].token /\ r.rejected = req[t].rejected /\ ~r.forced
    BY ThreadFacts DEF Requests
  <2>2. req' = [req EXCEPT ![t] = r]
    BY <1>5
  <2>3. p \in Phases /\ p \in {"read access", "send"}
    BY DEF Phases
  <2> HIDE DEF r, p
  <2>4. Quiet(t, r, p) /\ issued' = issued
    BY <1>1, <1>3, <1>5, <2>2, QuietShape
  <2>5. AccessOf(t) = r.token /\ r.token \notin r.rejected \cup {0}
    BY <1>1, <1>5, <2>1, RequestFacts
  <2>6. \A u \in Threads \ {t} : pc[u] \notin {"save", "set tokens"}
    BY <1>1, OneRefresher DEF Refreshing
  <2>7. r.token <= issued' /\ r.rejected \subseteq 1..issued'
    BY <2>1, <2>4, ThreadFacts
  <2> QED
    BY <1>1, <1>2, <2>1, <2>3, <2>4, <2>5, <2>6, <2>7, QuietStep
<1> QED
  BY <1>1, <1>4, <1>5 DEF AfterRefresh, Goto

LEMMA AnsweredStep ==
  ASSUME RequestsInv, NEW t \in Threads, NEW status, Answered(t, status)
  PROVE  RequestsInv'
<1>1. /\ pc[t] = "send" /\ lock' = lock /\ Respond(t, status)
      /\ UNCHANGED <<feishu, env, spent>> /\ UNCHANGED config
  BY DEF Answered, At
<1>2. lock # t /\ pc[t] \notin {"save", "set tokens"}
  BY <1>1, ThreadFacts DEF Refreshing
<1>3. FeishuKeeps /\ UNCHANGED <<access, refresh>> /\ expires' \in [Configs -> Grants]
  BY <1>1, FeishuSame, ExpiresTyped
<1> QED
  BY <1>1, <1>2, <1>3, ResponseStep

LEMMA SendAgainStep ==
  ASSUME RequestsInv, NEW t \in Threads, SendAgain(t)
  PROVE  RequestsInv'
<1> DEFINE r == [req[t] EXCEPT !.tries = req[t].tries + 1]
<1>1. /\ pc[t] = "send" /\ lock' = lock /\ req[t].tries < MaxRetries
      /\ req' = [req EXCEPT ![t] = r] /\ pc' = pc
      /\ UNCHANGED <<feishu, env, spent>> /\ UNCHANGED config
  BY DEF SendAgain, At
<1>2. lock # t /\ "send" \in Phases
  BY <1>1, ThreadFacts DEF Refreshing, Phases
<1>3. req[t].tries \in 0..MaxRetries /\ req[t].tries + 1 \in 0..MaxRetries
  <2>1. req[t].tries \in 0..MaxRetries
    BY ThreadFacts DEF Requests
  <2> QED
    BY <1>1, <2>1, Numbers
<1>4. /\ r \in Requests /\ r.token = req[t].token /\ r.rejected = req[t].rejected
      /\ r.forced = req[t].forced
  BY <1>3, ThreadFacts DEF Requests
<1>5. pc' = [pc EXCEPT ![t] = "send"]
  BY <1>1 DEF RequestsInv, TypeOK
<1> HIDE DEF r
<1>6. Quiet(t, r, "send") /\ issued' = issued
  BY <1>1, <1>5, ExpiresTyped, QuietShape
<1>7. ~req[t].forced /\ req[t].token \notin req[t].rejected \cup {0}
  BY <1>1, RequestFacts
<1>8. /\ AccessOf(t) \notin r.rejected
      /\ \A u \in Threads \ {t} : pc[u] \in {"save", "set tokens"}
           => req[u].token \notin r.rejected
      /\ r.token <= issued' /\ r.rejected \subseteq 1..issued'
  BY <1>4, <1>6, <1>7, RequestFacts, ThreadFacts
<1> QED
  BY <1>1, <1>2, <1>4, <1>6, <1>7, <1>8, QuietStep

LEMMA TokenInvalidStep ==
  ASSUME RequestsInv, NEW t \in Threads, TokenInvalid(t)
  PROVE  RequestsInv'
<1> DEFINE r == [req[t] EXCEPT !.round = 2, !.tries = 0, !.forced = TRUE,
                               !.rejected = {req[t].token}]
<1>1. /\ pc[t] = "send" /\ lock' = lock
      /\ req' = [req EXCEPT ![t] = r] /\ pc' = [pc EXCEPT ![t] = "lock"]
      /\ UNCHANGED <<feishu, env, spent>> /\ UNCHANGED config
  BY DEF TokenInvalid, At, Goto
<1>2. lock # t /\ "lock" \in Phases
  BY <1>1, ThreadFacts DEF Refreshing, Phases
<1>3. req[t] \in Requests /\ {req[t].token} \in SUBSET Grants
      /\ 0 \in 0..MaxRetries /\ 2 \in 1..2
  BY ThreadFacts, Numbers
<1>4. /\ r \in Requests /\ r.token = req[t].token /\ r.rejected = {req[t].token} /\ r.forced
  <2> DEFINE gone == {req[t].token}
  <2>1. gone \in SUBSET Grants /\ r = [req[t] EXCEPT !.round = 2, !.tries = 0, !.forced = TRUE,
                                                    !.rejected = gone]
    BY <1>3
  <2> HIDE DEF r, gone
  <2>2. r \in Requests /\ r.token = req[t].token /\ r.rejected = gone /\ r.forced
    BY <1>3, <2>1 DEF Requests
  <2> QED
    BY <2>2 DEF gone
<1> HIDE DEF r
<1>5. Quiet(t, r, "lock") /\ issued' = issued
  BY <1>1, ExpiresTyped, QuietShape
<1>6. req[t].token # 0 /\ req[t].token \in Nat /\ req[t].token <= issued /\ issued \in Nat
  BY <1>1, RequestFacts, ThreadFacts, Numbers
<1>7. req[t].token \in 1..issued
  BY <1>6
<1>8. r.token <= issued' /\ r.rejected \subseteq 1..issued'
  BY <1>4, <1>5, <1>6, <1>7
<1> QED
  BY <1>1, <1>2, <1>4, <1>5, <1>8, QuietStep

----------------------------------------------------------------------------
(* The actions that move grants *)

\* Types, the lock and the bounds of a step of one thread.
LEMMA FrameStep ==
  ASSUME RequestsInv, NEW t \in Threads, NEW r \in Requests, NEW p \in Phases,
         pc' = [pc EXCEPT ![t] = p], req' = [req EXCEPT ![t] = r], FeishuKeeps,
         env' \in Grants, env' \in 1..issued',
         access' \in [Configs -> Grants], \A c \in Configs : access'[c] <= issued',
         refresh' \in [Configs -> Grants], expires' \in [Configs -> Grants],
         spent' \in [Configs -> SUBSET Grants], \A c \in Configs : spent'[c] \subseteq 1..issued',
         lock' = IF lock = t /\ p \notin Refreshing THEN Nobody ELSE lock,
         p \in Refreshing => lock = t,
         r.token <= issued', r.rejected \subseteq 1..issued', p # "send"
  PROVE  TypeOK' /\ RefreshLocked' /\ IssuedOnly' /\ NoRejectedTokenSent'
<1>1. /\ req \in [Threads -> Requests] /\ pc \in [Threads -> Phases]
      /\ lock \in Threads \cup {Nobody} /\ issued \in Grants
  BY DEF RequestsInv, TypeOK
<1>2. /\ issued' \in Grants /\ issued <= issued' /\ accepted' \subseteq 1..issued'
      /\ dead' \cup ageing' \subseteq Grants
  BY <1>1, Numbers DEF FeishuKeeps
<1>3. /\ pc'[t] = p /\ req'[t] = r
      /\ \A u \in Threads \ {t} : pc'[u] = pc[u] /\ req'[u] = req[u]
  BY <1>1
<1>4. TypeOK'
  <2>1. accepted' \subseteq Grants
    BY <1>1, <1>2, GrantOrder
  <2>2. lock' \in Threads \cup {Nobody}
    BY <1>1
  <2>3. pc' \in [Threads -> Phases] /\ req' \in [Threads -> Requests]
    BY <1>1
  <2> QED
    BY <1>2, <2>1, <2>2, <2>3 DEF TypeOK
<1>5. RefreshLocked'
  <2> SUFFICES ASSUME NEW u \in Threads PROVE lock' = u <=> pc'[u] \in Refreshing
    BY DEF RefreshLocked, Refreshing
  <2>1. t # Nobody /\ u # Nobody /\ (lock = u <=> pc[u] \in Refreshing)
    BY Configured, ThreadFacts
  <2>2. CASE u = t
    BY <1>3, <2>1, <2>2
  <2>3. CASE u # t
    BY <1>3, <2>1, <2>3
  <2> QED
    BY <2>2, <2>3
<1>6. IssuedOnly'
  <2>1. ASSUME NEW u \in Threads
        PROVE  req'[u].token <= issued' /\ req'[u].rejected \subseteq 1..issued'
    <3>1. CASE u = t
      BY <1>3, <3>1
    <3>2. CASE u # t
      <4>1. /\ req[u].token \in Grants /\ req[u].token <= issued
            /\ req[u].rejected \subseteq 1..issued
        BY ThreadFacts
      <4> QED
        BY <1>1, <1>2, <1>3, <3>2, <4>1, GrantOrder
    <3> QED
      BY <3>1, <3>2
  <2> QED
    BY <1>2, <2>1 DEF IssuedOnly
<1>7. NoRejectedTokenSent'
  BY <1>3 DEF NoRejectedTokenSent, At, RequestsInv
<1> QED
  BY <1>4, <1>5, <1>6, <1>7

\* While one thread refreshes, no other carries a grant.
LEMMA OneCarrier ==
  ASSUME RequestsInv, NEW t \in Threads, pc[t] \in Refreshing
  PROVE  /\ Carriers({"save", "set tokens"}) \subseteq {t}
         /\ Carriers({"save"}) \subseteq {t}
BY OneRefresher DEF Carriers, Refreshing

\* The stored grants are typed and issued.
LEMMA StoredFacts ==
  ASSUME RequestsInv
  PROVE  /\ env \in Grants /\ env \in 1..issued /\ env <= issued /\ issued \in Grants
         /\ access \in [Configs -> Grants] /\ refresh \in [Configs -> Grants]
         /\ expires \in [Configs -> Grants] /\ spent \in [Configs -> SUBSET Grants]
         /\ \A c \in Configs : access[c] <= issued /\ spent[c] \subseteq 1..issued
BY DEF RequestsInv, TypeOK, IssuedOnly

LEMMA CallToolStep ==
  ASSUME RequestsInv, NEW t \in Threads, CallTool(t)
  PROVE  RequestsInv'
<1> DEFINE r == NewRequest(1)
<1>1. /\ t \in Tools /\ pc[t] = "idle" /\ req' = [req EXCEPT ![t] = r]
      /\ pc' = [pc EXCEPT ![t] = "read access"] /\ lock' = lock
      /\ UNCHANGED <<feishu, env, spent>>
      /\ access' = [access EXCEPT ![t] = env] /\ refresh' = [refresh EXCEPT ![t] = env]
      /\ expires' = [expires EXCEPT ![t] = env]
  BY DEF CallTool, Begin, At, Goto
<1>2. r \in Requests /\ r.token = 0 /\ r.rejected = {} /\ ~r.forced
  BY FreshRequest, Numbers
<1> HIDE DEF r
<1>3. t \in Configs /\ ConfigOf(t) = t /\ \A u \in Threads \ {t} : ConfigOf(u) # t
  BY <1>1, Configured DEF Configs
<1>4. lock # t /\ "read access" \in Phases /\ "read access" \notin Refreshing
  BY <1>1, ThreadFacts DEF Phases, Refreshing
<1>5. /\ pc'[t] = "read access" /\ req'[t] = r
      /\ \A u \in Threads \ {t} : pc'[u] = pc[u] /\ req'[u] = req[u]
  BY <1>1 DEF RequestsInv, TypeOK
<1>6. TypeOK' /\ RefreshLocked' /\ IssuedOnly' /\ NoRejectedTokenSent'
  <2>1. FeishuKeeps /\ issued' = issued /\ env' = env /\ spent' = spent
    BY <1>1, FeishuSame DEF feishu
  <2>2. /\ access' \in [Configs -> Grants] /\ refresh' \in [Configs -> Grants]
        /\ expires' \in [Configs -> Grants] /\ \A c \in Configs : access'[c] <= issued'
    BY <1>1, <2>1, StoredFacts
  <2>3. r.token <= issued' /\ r.rejected \subseteq 1..issued'
    BY <1>2, <2>1, StoredFacts, Numbers
  <2>4. /\ env' \in Grants /\ env' \in 1..issued' /\ spent' \in [Configs -> SUBSET Grants]
        /\ \A c \in Configs : spent'[c] \subseteq 1..issued'
    BY <2>1, StoredFacts
  <2> QED
    BY <1>1, <1>2, <1>4, <2>1, <2>2, <2>3, <2>4, FrameStep
<1>7. /\ Carriers({"save", "set tokens"})' = Carriers({"save", "set tokens"})
      /\ Carriers({"save"})' = Carriers({"save"})
      /\ \A u \in Carriers({"save", "set tokens"}) : u \in Threads \ {t}
      /\ \A u \in Carriers({"save"}) : u \in Threads \ {t}
  BY <1>1, <1>5 DEF Carriers
<1>8. SpentReplaced'
  <2>1. env \notin spent[t]
    BY <1>3, <1>7 DEF RequestsInv, SpentReplaced
  <2>2. /\ env' = env /\ spent' = spent /\ refresh'[t] = env
        /\ \A c \in Configs \ {t} : refresh'[c] = refresh[c]
    BY <1>1, <1>3, StoredFacts
  <2>3. \A c \in Configs : refresh'[c] \in spent'[c] =>
          \E u \in Carriers({"save", "set tokens"})' : ConfigOf(u) = c /\ req'[u].token # 0
    <3>1. ASSUME NEW c \in Configs, refresh'[c] \in spent'[c]
          PROVE  refresh[c] \in spent[c]
      BY <2>1, <2>2, <3>1
    <3>2. \A u \in Carriers({"save", "set tokens"}) : req'[u].token = req[u].token
      BY <1>5, <1>7
    <3> QED
      BY <1>7, <3>1, <3>2, ReplacerKept
  <2>4. \A c \in Configs : env' \in spent'[c] =>
          env' = refresh'[c] /\ \E u \in Carriers({"save"})' : ConfigOf(u) = c
    BY <1>7, <2>1, <2>2 DEF RequestsInv, SpentReplaced
  <2>5. \A u \in Carriers({"save", "set tokens"})', c \in Configs : req'[u].token \notin spent'[c]
    BY <1>5, <1>7, <2>2 DEF RequestsInv, SpentReplaced
  <2> QED
    BY <2>3, <2>4, <2>5 DEF SpentReplaced
<1>9. RejectedPassed'
  <2> SUFFICES ASSUME NEW u \in Threads
               PROVE  /\ IF req'[u].forced
                         THEN pc'[u] \in {"lock", "refresh", "save", "set tokens", "set expiry"}
                         ELSE /\ AccessOf(u)' \notin req'[u].rejected
                              /\ \A v \in Carriers({"save", "set tokens"})' :
                                   req'[v].token \notin req'[u].rejected
                      /\ pc'[u] \in {"save", "set tokens", "set expiry"}
                           => req'[u].token \notin req'[u].rejected
                      /\ pc'[u] = "set expiry" => AccessOf(u)' = req'[u].token
                      /\ pc'[u] = "read expiry" => req'[u].token \notin req'[u].rejected \cup {0}
    BY DEF RejectedPassed, At
  <2>1. CASE u = t
    BY <1>2, <1>5, <2>1
  <2>2. CASE u # t
    <3>1. AccessOf(u)' = AccessOf(u)
      BY <1>1, <1>3, <2>2, StoredFacts, Configured DEF AccessOf
    <3> QED
      BY <1>5, <1>7, <2>2, <3>1 DEF RequestsInv, RejectedPassed, At
  <2> QED
    BY <2>1, <2>2
<1> QED
  BY <1>6, <1>8, <1>9 DEF RequestsInv

\* A grant is taken up, issued just now or empty.
LEMMA TakeUpStep ==
  ASSUME RequestsInv, NEW t \in Threads, NEW g \in Grants,
         pc[t] = "refresh", req' = [req EXCEPT ![t].token = g],
         pc' = [pc EXCEPT ![t] = "save"], lock' = lock, UNCHANGED env, UNCHANGED config,
         FeishuKeeps, g <= issued', g \notin 1..issued,
         \/ spent' = spent
         \/ /\ spent' = [spent EXCEPT ![ConfigOf(t)] = @ \cup {RefreshOf(t)}]
            /\ RefreshOf(t) \in 1..issued /\ g # 0
  PROVE  RequestsInv'
<1> DEFINE C == ConfigOf(t)
           r == [req[t] EXCEPT !.token = g]
<1>1. lock = t /\ C \in Configs /\ RefreshOf(t) = refresh[C] /\ "save" \in Phases
      /\ "save" \in Refreshing
  BY ThreadFacts, Configured DEF RefreshOf, Refreshing, Phases
<1>2. /\ r \in Requests /\ r.token = g /\ r.rejected = req[t].rejected
      /\ r.forced = req[t].forced
  BY ThreadFacts DEF Requests
<1>3. req' = [req EXCEPT ![t] = r]
  OBVIOUS
<1> HIDE DEF r
<1>4. /\ pc'[t] = "save" /\ req'[t] = r
      /\ \A u \in Threads \ {t} : pc'[u] = pc[u] /\ req'[u] = req[u]
  BY <1>3 DEF RequestsInv, TypeOK
<1>5. /\ issued \in Grants /\ issued' \in Grants /\ issued <= issued'
      /\ 1..issued \subseteq 1..issued'
  BY StoredFacts, Numbers, GrantOrder DEF FeishuKeeps
<1>6. /\ access' = access /\ refresh' = refresh /\ expires' = expires /\ env' = env
  BY DEF config
<1>7. /\ spent' \in [Configs -> SUBSET Grants] /\ \A c \in Configs : spent'[c] \subseteq 1..issued
      /\ \A c \in Configs : c # C => spent'[c] = spent[c]
      /\ spent'[C] \subseteq spent[C] \cup {refresh[C]}
  BY <1>1, StoredFacts, ThreadFacts
<1>8. TypeOK' /\ RefreshLocked' /\ IssuedOnly' /\ NoRejectedTokenSent'
  <2>1. /\ env' \in Grants /\ env' \in 1..issued' /\ access' \in [Configs -> Grants]
        /\ refresh' \in [Configs -> Grants] /\ expires' \in [Configs -> Grants]
        /\ \A c \in Configs : access'[c] <= issued'
    BY <1>5, <1>6, StoredFacts, GrantOrder
  <2>2. r.token <= issued' /\ r.rejected \subseteq 1..issued'
        /\ \A c \in Configs : spent'[c] \subseteq 1..issued'
    BY <1>2, <1>5, <1>7, ThreadFacts
  <2> QED
    BY <1>1, <1>2, <1>3, <1>7, <2>1, <2>2, FrameStep
<1>9. /\ Carriers({"save", "set tokens"}) = {} /\ Carriers({"save"}) = {}
      /\ Carriers({"save", "set tokens"})' = {t} /\ Carriers({"save"})' = {t}
  <2>1. /\ Carriers({"save", "set tokens"}) = {} /\ Carriers({"save"}) = {}
    BY OneCarrier DEF Carriers, Refreshing
  <2>2. \A u \in Threads : pc[u] \notin {"save", "set tokens"}
    BY <2>1 DEF Carriers
  <2>3. \A u \in Threads : /\ pc'[u] \in {"save", "set tokens"} <=> u = t
                           /\ pc'[u] = "save" <=> u = t
    BY <1>4, <2>2
  <2> QED
    BY <2>1, <2>3 DEF Carriers
<1>10. SpentReplaced'
  <2>1. \A c \in Configs : refresh[c] \notin spent[c] /\ env \notin spent[c]
    BY <1>9 DEF RequestsInv, SpentReplaced
  <2>2. \A c \in Configs : refresh[c] \in spent'[c] => c = C /\ g # 0
    BY <1>7, <2>1
  <2>3. \A c \in Configs : env \in spent'[c] => c = C /\ env = refresh[C]
    BY <1>7, <2>1
  <2>4. \A c \in Configs : g \notin spent'[c]
    BY <1>7
  <2>5. ConfigOf(t) = C /\ req'[t].token = g
    <3>1. req'[t] = r
      BY <1>2, <1>4
    <3> QED
      BY <1>2, <3>1
  <2>6. refresh' = refresh /\ env' = env
    BY <1>6
  <2>7. \A u \in Carriers({"save", "set tokens"})' : req'[u].token = g
    BY <1>9, <2>5
  <2> QED
    BY <1>9, <2>2, <2>3, <2>4, <2>5, <2>6, <2>7 DEF SpentReplaced
<1>11. RejectedPassed'
  <2> SUFFICES ASSUME NEW u \in Threads
               PROVE  /\ IF req'[u].forced
                         THEN pc'[u] \in {"lock", "refresh", "save", "set tokens", "set expiry"}
                         ELSE /\ access'[ConfigOf(u)] \notin req'[u].rejected
                              /\ \A v \in Carriers({"save", "set tokens"})' :
                                   req'[v].token \notin req'[u].rejected
                      /\ pc'[u] \in {"save", "set tokens", "set expiry"}
                           => req'[u].token \notin req'[u].rejected
                      /\ pc'[u] = "set expiry" => access'[ConfigOf(u)] = req'[u].token
                      /\ pc'[u] = "read expiry" => req'[u].token \notin req'[u].rejected \cup {0}
    BY DEF RejectedPassed, At, AccessOf
  <2>1. /\ access'[ConfigOf(u)] = AccessOf(u)
        /\ \A v \in Carriers({"save", "set tokens"})' : req'[v].token = g
    <3>1. \A v \in {t} : req'[v].token = g
      BY <1>2, <1>4
    <3> QED
      BY <1>6, <1>9, <3>1 DEF AccessOf
  <2>2. g \notin req[u].rejected
    BY ThreadFacts
  <2>3. /\ IF req'[u].forced
            THEN pc'[u] \in {"lock", "refresh", "save", "set tokens", "set expiry"}
            ELSE AccessOf(u) \notin req'[u].rejected /\ g \notin req'[u].rejected
        /\ pc'[u] \in {"save", "set tokens", "set expiry"}
             => req'[u].token \notin req'[u].rejected
        /\ pc'[u] = "set expiry" => AccessOf(u) = req'[u].token
        /\ pc'[u] = "read expiry" => req'[u].token \notin req'[u].rejected \cup {0}
    <3>1. CASE u = t
      BY <1>2, <1>4, <2>2, <3>1, RequestFacts
    <3>2. CASE u # t
      BY <1>4, <2>2, <3>2, RequestFacts
    <3> QED
      BY <3>1, <3>2
  <2> QED
    BY <2>1, <2>3
<1> QED
  BY <1>8, <1>10, <1>11 DEF RequestsInv

LEMMA RefreshAcceptedStep ==
  ASSUME RequestsInv, NEW t \in Threads, RefreshAccepted(t)
  PROVE  RequestsInv'
<1> DEFINE g == issued + 1
<1>1. /\ pc[t] = "refresh" /\ req' = [req EXCEPT ![t].token = g]
      /\ pc' = [pc EXCEPT ![t] = "save"] /\ lock' = lock
      /\ spent' = [spent EXCEPT ![ConfigOf(t)] = @ \cup {RefreshOf(t)}]
      /\ Issue(t) /\ UNCHANGED env /\ UNCHANGED config
  BY DEF RefreshAccepted, At, Goto
<1>2. /\ FeishuKeeps /\ issued' = g /\ g \in Grants /\ RefreshOf(t) \in 1..issued
  BY <1>1, IssueFacts
<1>3. g <= issued' /\ g \notin 1..issued /\ g # 0
  BY <1>2, StoredFacts, Numbers
<1> HIDE DEF g
<1> QED
  BY <1>1, <1>2, <1>3, TakeUpStep

LEMMA EmptyGrantStep ==
  ASSUME RequestsInv, NEW t \in Threads, EmptyGrant(t)
  PROVE  RequestsInv'
<1>1. /\ pc[t] = "refresh" /\ req' = [req EXCEPT ![t].token = 0]
      /\ pc' = [pc EXCEPT ![t] = "save"] /\ lock' = lock /\ spent' = spent
      /\ UNCHANGED env /\ UNCHANGED config
  BY DEF EmptyGrant, At, Goto
<1>2. FeishuKeeps /\ issued' = issued
  <2>1. UNCHANGED <<issued, dead, ageing>> /\ accepted' \subseteq accepted
    BY DEF EmptyGrant
  <2>2. /\ issued \in Grants /\ accepted \subseteq 1..issued
        /\ dead \cup ageing \subseteq Grants
    BY DEF RequestsInv, TypeOK, IssuedOnly
  <2> QED
    BY <2>1, <2>2, Numbers DEF FeishuKeeps
<1>3. 0 \in Grants /\ 0 <= issued' /\ 0 \notin 1..issued
  BY <1>2, StoredFacts, Numbers
<1> QED
  BY <1>1, <1>2, <1>3, TakeUpStep

\* The file first: a rejected or exchanged grant is not what is written.
LEMMA SaveStep ==
  ASSUME RequestsInv, NEW t \in Threads, Save(t)
  PROVE  RequestsInv'
<1>1. /\ pc[t] = "save" /\ env' = UpsertEnv(req[t].token)
      /\ pc' = [pc EXCEPT ![t] = "set tokens"]
      /\ req' = req /\ lock' = lock /\ spent' = spent
      /\ UNCHANGED feishu /\ UNCHANGED config
  BY DEF Save, At, Goto
<1>2. /\ lock = t /\ "set tokens" \in Phases /\ "set tokens" \in Refreshing
  BY <1>1, ThreadFacts DEF Refreshing, Phases
<1>3. /\ pc'[t] = "set tokens" /\ \A u \in Threads \ {t} : pc'[u] = pc[u]
  BY <1>1 DEF RequestsInv, TypeOK
<1>4. access' = access /\ refresh' = refresh /\ expires' = expires
  BY <1>1 DEF config
<1>5. FeishuKeeps /\ issued' = issued
  BY <1>1, FeishuSame DEF feishu
<1>6. TypeOK' /\ RefreshLocked' /\ IssuedOnly' /\ NoRejectedTokenSent'
  <2>1. /\ req[t] \in Requests /\ req[t].token <= issued' /\ req[t].rejected \subseteq 1..issued'
        /\ req[t].token \in Grants /\ req' = [req EXCEPT ![t] = req[t]]
    BY <1>1, <1>5, ThreadFacts, SameRequest
  <2>2. env' \in Grants /\ env' \in 1..issued'
    <3>1. CASE req[t].token = 0
      BY <1>1, <1>5, <3>1, StoredFacts DEF UpsertEnv
    <3>2. CASE req[t].token # 0
      <4>1. env' = req[t].token
        BY <1>1, <3>2 DEF UpsertEnv
      <4>2. req[t].token \in Nat /\ issued' \in Nat
        BY <1>5, <2>1, ThreadFacts, Numbers
      <4> QED
        BY <2>1, <3>2, <4>1, <4>2
    <3> QED
      BY <3>1, <3>2
  <2>3. /\ access' \in [Configs -> Grants]
        /\ refresh' \in [Configs -> Grants] /\ expires' \in [Configs -> Grants]
        /\ spent' \in [Configs -> SUBSET Grants]
        /\ \A c \in Configs : access'[c] <= issued' /\ spent'[c] \subseteq 1..issued'
    BY <1>1, <1>4, <1>5, StoredFacts
  <2> QED
    BY <1>1, <1>2, <1>5, <2>1, <2>2, <2>3, FrameStep
<1>7. /\ Carriers({"save", "set tokens"})' = Carriers({"save", "set tokens"})
      /\ t \in Carriers({"save", "set tokens"})
  BY <1>1, <1>3 DEF Carriers
<1>8. SpentReplaced'
  <2>1. \A c \in Configs : req[t].token \notin spent[c]
    BY <1>7 DEF RequestsInv, SpentReplaced
  <2>2. ASSUME NEW c \in Configs, env \in spent[c]
        PROVE  req[t].token # 0
    <3>0. SpentReplaced
      BY DEF RequestsInv
    <3>1. refresh[c] \in spent[c]
      <4>1. env = refresh[c]
        BY <2>2, <3>0 DEF SpentReplaced
      <4> QED
        BY <2>2, <4>1
    <3>2. PICK u \in Carriers({"save", "set tokens"}) : req[u].token # 0
      BY <3>0, <3>1 DEF SpentReplaced
    <3>3. u = t
      BY <1>1, <3>2, OneCarrier DEF Refreshing
    <3> QED
      BY <3>2, <3>3
  <2>3. \A c \in Configs : env' \notin spent[c]
    BY <1>1, <2>1, <2>2 DEF UpsertEnv
  <2>4. \A c \in Configs : refresh'[c] \in spent'[c] =>
          \E u \in Carriers({"save", "set tokens"})' : ConfigOf(u) = c /\ req'[u].token # 0
    BY <1>1, <1>4, <1>7, ReplacerKept
  <2>5. \A u \in Carriers({"save", "set tokens"})', c \in Configs : req'[u].token \notin spent'[c]
    <3>1. SpentReplaced
      BY DEF RequestsInv
    <3> QED
      BY <1>1, <1>7, <3>1 DEF SpentReplaced
  <2> QED
    BY <1>1, <2>3, <2>4, <2>5 DEF SpentReplaced
<1>9. RejectedPassed'
  <2> SUFFICES ASSUME NEW u \in Threads
               PROVE  /\ IF req[u].forced
                         THEN pc'[u] \in {"lock", "refresh", "save", "set tokens", "set expiry"}
                         ELSE /\ AccessOf(u) \notin req[u].rejected
                              /\ \A v \in Carriers({"save", "set tokens"}) :
                                   req[v].token \notin req[u].rejected
                      /\ pc'[u] \in {"save", "set tokens", "set expiry"}
                           => req[u].token \notin req[u].rejected
                      /\ pc'[u] = "set expiry" => AccessOf(u) = req[u].token
                      /\ pc'[u] = "read expiry" => req[u].token \notin req[u].rejected \cup {0}
    BY <1>1, <1>4, <1>7 DEF RejectedPassed, At, AccessOf
  <2>1. CASE u = t
    BY <1>1, <1>3, <2>1 DEF RequestsInv, RejectedPassed, At
  <2>2. CASE u # t
    BY <1>3, <2>2 DEF RequestsInv, RejectedPassed, At
  <2> QED
    BY <2>1, <2>2
<1> QED
  BY <1>6, <1>8, <1>9 DEF RequestsInv

\* The new grant is dropped, and the old one is still in the config.
LEMMA SaveFailsStep ==
  ASSUME RequestsInv, NEW t \in Threads, SaveFails(t)
  PROVE  RequestsInv'
<1> DEFINE C == ConfigOf(t)
<1>1. /\ pc[t] = "save" /\ Raise(t) /\ lock' = Nobody /\ env' = env
      /\ spent' = [spent EXCEPT ![C] = @ \ {RefreshOf(t)}]
      /\ UNCHANGED feishu /\ UNCHANGED config
  BY DEF SaveFails, At, Release
<1>2. PICK n \in 0..(MaxPages + 2), p \in {"idle", "read access"} :
        req' = [req EXCEPT ![t] = NewRequest(n)] /\ pc' = [pc EXCEPT ![t] = p]
  BY <1>1, RaiseFacts
<1> DEFINE r == NewRequest(n)
<1>3. r \in Requests /\ r.token = 0 /\ r.rejected = {} /\ ~r.forced
  BY FreshRequest
<1>4. req' = [req EXCEPT ![t] = r]
  BY <1>2
<1> HIDE DEF r
<1>5. /\ pc'[t] = p /\ req'[t] = r
      /\ \A u \in Threads \ {t} : pc'[u] = pc[u] /\ req'[u] = req[u]
  BY <1>2, <1>4 DEF RequestsInv, TypeOK
<1>6. /\ lock = t /\ p \in Phases /\ p \notin Refreshing /\ C \in Configs
      /\ RefreshOf(t) = refresh[C]
  BY <1>1, ThreadFacts, Configured DEF Refreshing, Phases, RefreshOf
<1>7. /\ access' = access /\ refresh' = refresh /\ expires' = expires
      /\ FeishuKeeps /\ issued' = issued
  BY <1>1, FeishuSame DEF config, feishu
<1>8. /\ spent' \in [Configs -> SUBSET Grants] /\ \A c \in Configs : spent'[c] \subseteq spent[c]
      /\ refresh[C] \notin spent'[C]
  BY <1>1, <1>6, StoredFacts
<1>9. TypeOK' /\ RefreshLocked' /\ IssuedOnly' /\ NoRejectedTokenSent'
  <2>1. /\ env' \in Grants /\ env' \in 1..issued' /\ access' \in [Configs -> Grants]
        /\ refresh' \in [Configs -> Grants] /\ expires' \in [Configs -> Grants]
        /\ \A c \in Configs : access'[c] <= issued' /\ spent'[c] \subseteq 1..issued'
    BY <1>1, <1>7, <1>8, StoredFacts
  <2>2. r.token <= issued' /\ r.rejected \subseteq 1..issued'
    BY <1>3, <1>7, StoredFacts, Numbers
  <2>3. p # "send"
    OBVIOUS
  <2> QED
    BY <1>1, <1>2, <1>3, <1>4, <1>6, <1>7, <1>8, <2>1, <2>2, <2>3, FrameStep
<1>10. /\ Carriers({"save", "set tokens"}) \subseteq {t} /\ Carriers({"save"}) \subseteq {t}
       /\ Carriers({"save", "set tokens"})' = {}
  <2>1. /\ Carriers({"save", "set tokens"}) \subseteq {t} /\ Carriers({"save"}) \subseteq {t}
    BY <1>1, OneCarrier DEF Refreshing
  <2> QED
    BY <1>5, <2>1 DEF Carriers
<1>11. SpentReplaced'
  <2>1. \A c \in Configs : c # C => refresh[c] \notin spent[c] /\ env \notin spent[c]
    BY <1>10 DEF RequestsInv, SpentReplaced
  <2>2. env \in spent[C] => env = refresh[C]
    BY <1>6 DEF RequestsInv, SpentReplaced
  <2> QED
    BY <1>1, <1>7, <1>8, <1>10, <2>1, <2>2 DEF SpentReplaced
<1>12. RejectedPassed'
  <2> SUFFICES ASSUME NEW u \in Threads
               PROVE  /\ IF req'[u].forced
                         THEN pc'[u] \in {"lock", "refresh", "save", "set tokens", "set expiry"}
                         ELSE AccessOf(u) \notin req'[u].rejected
                      /\ pc'[u] \in {"save", "set tokens", "set expiry"}
                           => req'[u].token \notin req'[u].rejected
                      /\ pc'[u] = "set expiry" => AccessOf(u) = req'[u].token
                      /\ pc'[u] = "read expiry" => req'[u].token \notin req'[u].rejected \cup {0}
    BY <1>7, <1>10 DEF RejectedPassed, At, AccessOf
  <2>1. CASE u = t
    BY <1>3, <1>5, <2>1
  <2>2. CASE u # t
    BY <1>5, <2>2, RequestFacts
  <2> QED
    BY <2>1, <2>2
<1> QED
  BY <1>9, <1>11, <1>12 DEF RequestsInv

LEMMA SetTokensStep ==
  ASSUME RequestsInv, NEW t \in Threads, SetTokens(t)
  PROVE  RequestsInv'
<1> DEFINE C == ConfigOf(t)
           g == req[t].token
<1>1. /\ pc[t] = "set tokens" /\ pc' = [pc EXCEPT ![t] = "set expiry"]
      /\ access' = [access EXCEPT ![C] = g] /\ refresh' = [refresh EXCEPT ![C] = g]
      /\ req' = req /\ lock' = lock /\ spent' = spent /\ env' = env /\ expires' = expires
      /\ UNCHANGED feishu
  BY DEF SetTokens, At, Goto
<1>2. /\ lock = t /\ "set expiry" \in Phases /\ "set expiry" \in Refreshing
      /\ C \in Configs /\ g \in Grants /\ g <= issued
  BY <1>1, ThreadFacts, Configured DEF Refreshing, Phases
<1>3. /\ pc'[t] = "set expiry" /\ \A u \in Threads \ {t} : pc'[u] = pc[u]
  BY <1>1 DEF RequestsInv, TypeOK
<1>4. /\ access'[C] = g /\ refresh'[C] = g
      /\ \A c \in Configs \ {C} : access'[c] = access[c] /\ refresh'[c] = refresh[c]
  BY <1>1, <1>2, StoredFacts
<1>5. FeishuKeeps /\ issued' = issued
  BY <1>1, FeishuSame DEF feishu
<1>6. TypeOK' /\ RefreshLocked' /\ IssuedOnly' /\ NoRejectedTokenSent'
  <2>1. /\ req[t] \in Requests /\ req[t].token <= issued' /\ req[t].rejected \subseteq 1..issued'
        /\ req' = [req EXCEPT ![t] = req[t]]
    BY <1>1, <1>5, ThreadFacts, SameRequest
  <2>2. /\ env' \in Grants /\ env' \in 1..issued'
        /\ expires' \in [Configs -> Grants] /\ spent' \in [Configs -> SUBSET Grants]
        /\ \A c \in Configs : spent'[c] \subseteq 1..issued'
    BY <1>1, <1>5, StoredFacts
  <2>3. access' \in [Configs -> Grants] /\ refresh' \in [Configs -> Grants]
    BY <1>1, <1>2, StoredFacts
  <2>4. \A c \in Configs : access'[c] <= issued'
    BY <1>2, <1>4, <1>5, StoredFacts
  <2> QED
    BY <1>1, <1>2, <1>5, <2>1, <2>2, <2>3, <2>4, FrameStep
<1>7. /\ Carriers({"save", "set tokens"}) = {t} /\ Carriers({"save"}) = {}
      /\ Carriers({"save", "set tokens"})' = {}
  <2>1. /\ Carriers({"save", "set tokens"}) \subseteq {t} /\ Carriers({"save"}) \subseteq {t}
    BY <1>1, OneCarrier DEF Refreshing
  <2> QED
    BY <1>1, <1>3, <2>1 DEF Carriers
<1>8. SpentReplaced'
  <2>1. \A c \in Configs : env \notin spent[c] /\ g \notin spent[c]
    BY <1>7 DEF RequestsInv, SpentReplaced
  <2>2. \A c \in Configs : c # C => refresh[c] \notin spent[c]
    BY <1>7 DEF RequestsInv, SpentReplaced
  <2> QED
    BY <1>1, <1>4, <1>7, <2>1, <2>2 DEF SpentReplaced
<1>9. RejectedPassed'
  <2> SUFFICES ASSUME NEW u \in Threads
               PROVE  /\ IF req[u].forced
                         THEN pc'[u] \in {"lock", "refresh", "save", "set tokens", "set expiry"}
                         ELSE AccessOf(u)' \notin req[u].rejected
                      /\ pc'[u] \in {"save", "set tokens", "set expiry"}
                           => req[u].token \notin req[u].rejected
                      /\ pc'[u] = "set expiry" => AccessOf(u)' = req[u].token
                      /\ pc'[u] = "read expiry" => req[u].token \notin req[u].rejected \cup {0}
    BY <1>1, <1>7 DEF RejectedPassed, At
  <2>1. AccessOf(u)' = IF ConfigOf(u) = C THEN g ELSE AccessOf(u)
    BY <1>4, Configured DEF AccessOf
  <2>2. ~req[u].forced => AccessOf(u) \notin req[u].rejected /\ g \notin req[u].rejected
    BY <1>7 DEF RequestsInv, RejectedPassed
  <2>3. CASE u = t
    BY <1>1, <1>3, <2>1, <2>2, <2>3, RequestFacts
  <2>4. CASE u # t
    <3>1. pc[u] \notin Refreshing
      BY <1>1, <2>4, OneRefresher DEF Refreshing
    <3> QED
      BY <1>3, <2>1, <2>2, <2>4, <3>1, RequestFacts DEF Refreshing
  <2> QED
    BY <2>3, <2>4
<1> QED
  BY <1>6, <1>8, <1>9 DEF RequestsInv

----------------------------------------------------------------------------
(* The theorems *)

\* Ageing, death and revocation touch only what Feishu knows.
LEMMA FeishuStep ==
  ASSUME RequestsInv, Age \/ Die \/ Revoke
  PROVE  RequestsInv'
<1>1. /\ UNCHANGED <<env, config, lock, pc, job, req, spent, calls, faults>> /\ issued' = issued
  BY DEF Age, Die, Revoke, Change
<1>2. /\ accepted' \subseteq accepted /\ dead' \subseteq dead \cup 1..issued
      /\ ageing' \subseteq ageing \cup 1..issued
  BY DEF Age, Die, Revoke
<1>3. 1..issued \subseteq Grants
  BY StoredFacts, GrantOrder, Numbers
<1>4. TypeOK'
  BY <1>1, <1>2, <1>3 DEF RequestsInv, TypeOK, config
<1>5. IssuedOnly'
  BY <1>1, <1>2 DEF RequestsInv, IssuedOnly, config
<1>6. RefreshLocked' /\ NoRejectedTokenSent'
  BY <1>1 DEF RequestsInv, RefreshLocked, NoRejectedTokenSent, At
<1>7. SpentReplaced'
  <2>1. UNCHANGED <<env, refresh, pc, req, spent>>
    BY <1>1 DEF config
  <2>2. /\ Carriers({"save", "set tokens"})' = Carriers({"save", "set tokens"})
        /\ Carriers({"save"})' = Carriers({"save"})
    BY <2>1 DEF Carriers
  <2>3. \A c \in Configs : refresh'[c] \in spent'[c] =>
          \E u \in Carriers({"save", "set tokens"})' : ConfigOf(u) = c /\ req'[u].token # 0
    BY <2>1, <2>2, ReplacerKept
  <2> QED
    BY <2>1, <2>2, <2>3 DEF RequestsInv, SpentReplaced
<1>8. RejectedPassed'
  BY <1>1 DEF RequestsInv, RejectedPassed, Carriers, At, AccessOf, config
<1> QED
  BY <1>4, <1>5, <1>6, <1>7, <1>8 DEF RequestsInv

LEMMA RequestsInit == Init => RequestsInv
<1> SUFFICES ASSUME Init PROVE RequestsInv
  OBVIOUS
<1>1. 1 \in Grants /\ 0 \in Grants /\ 0 \in 0..(MaxPages + 2)
  BY Numbers, RequestsAssumption
<1>2. NewRequest(0) \in Requests /\ NewRequest(0).token = 0 /\ NewRequest(0).rejected = {}
      /\ ~NewRequest(0).forced
  BY <1>1, FreshRequest
<1>3. /\ access \in [Configs -> {0, 1}] /\ refresh = access /\ expires = access
      /\ spent = [c \in Configs |-> {}]
      /\ \A t \in Threads : pc[t] = "idle" /\ req[t] = NewRequest(0)
      /\ issued = 1 /\ accepted = {1} /\ dead = {} /\ ageing = {} /\ env = 1 /\ lock = Nobody
  BY DEF Init
<1>4. TypeOK
  <2>1. pc \in [Threads -> Phases] /\ req \in [Threads -> Requests]
    BY <1>2 DEF Init, Phases
  <2> QED
    BY <1>1, <1>3, <2>1 DEF TypeOK
<1>5. IssuedOnly
  BY <1>2, <1>3 DEF IssuedOnly
<1>6. RefreshLocked /\ NoRejectedTokenSent
  BY <1>3, Configured DEF RefreshLocked, NoRejectedTokenSent, At
<1>7. SpentReplaced
  BY <1>3 DEF SpentReplaced, Carriers
<1>8. RejectedPassed
  BY <1>2, <1>3 DEF RejectedPassed, Carriers, At
<1> QED
  BY <1>4, <1>5, <1>6, <1>7, <1>8 DEF RequestsInv

LEMMA RequestsStutter ==
  ASSUME RequestsInv, UNCHANGED vars
  PROVE  RequestsInv'
<1>1. UNCHANGED <<feishu, env, config, lock, pc, req, spent>>
  BY DEF vars
<1>2. TypeOK' /\ IssuedOnly' /\ RefreshLocked' /\ NoRejectedTokenSent'
  BY <1>1 DEF feishu, config, RequestsInv, TypeOK, IssuedOnly, RefreshLocked,
              NoRejectedTokenSent, At
<1>3. SpentReplaced'
  <2>1. UNCHANGED <<env, refresh, pc, req, spent>>
    BY <1>1 DEF config
  <2>2. /\ Carriers({"save", "set tokens"})' = Carriers({"save", "set tokens"})
        /\ Carriers({"save"})' = Carriers({"save"})
    BY <2>1 DEF Carriers
  <2>3. \A c \in Configs : refresh'[c] \in spent'[c] =>
          \E u \in Carriers({"save", "set tokens"})' : ConfigOf(u) = c /\ req'[u].token # 0
    BY <2>1, <2>2, ReplacerKept
  <2> QED
    BY <2>1, <2>2, <2>3 DEF RequestsInv, SpentReplaced
<1>4. RejectedPassed'
  BY <1>1 DEF config, RequestsInv, RejectedPassed, Carriers, At, AccessOf
<1> QED
  BY <1>2, <1>3, <1>4 DEF RequestsInv

\* Whatever the threads, Feishu and the faults do: one refresh at a time, and
\* no access token Feishu rejected for a request is sent for it again
\* (feishu/user_request.py request, user_token_provider.py get_token).
THEOREM RequestsCorrect == Spec => []RequestsInv
<1>1. RequestsInv /\ [Next]_vars => RequestsInv'
  <2> SUFFICES ASSUME RequestsInv, [Next]_vars PROVE RequestsInv'
    OBVIOUS
  <2>1. ASSUME NEW t \in Threads, Discover(t) \/ CallTool(t) \/ TakeLock(t) \/ Step(t)
        PROVE  RequestsInv'
    <3>1. CASE Refresh(t)
      BY <3>1, RefreshEndsStep, RefreshAcceptedStep, EmptyGrantStep, SaveStep,
         SaveFailsStep,
         SetTokensStep, SetExpiryStep DEF Refresh
    <3>2. CASE SendSettles(t) \/ RetriesExhausted(t) \/ TokenInvalidAgain(t)
      BY <3>2, AnsweredStep DEF SendSettles, RetriesExhausted, TokenInvalidAgain
    <3> QED
      BY <2>1, <3>1, <3>2, DiscoverStep, CallToolStep, TakeLockStep, ReadAccessStep,
         ReadExpiryStep, SendAgainStep, TokenInvalidStep DEF Step
  <2>2. CASE Age \/ Die \/ Revoke
    BY <2>2, FeishuStep
  <2>3. CASE UNCHANGED vars
    BY <2>3, RequestsStutter
  <2> QED
    BY <2>1, <2>2, <2>3 DEF Next
<1> QED
  BY <1>1, RequestsInit, PTL DEF Spec

\* What made a refresh due holds until it is made.
Due == \A t \in Threads : At(t, "refresh") => req[t].forced \/ AccessOf(t) = 0 \/ NeedsRefresh(t)

LEMMA DueKept ==
  ASSUME RequestsInv, Due, [Next]_vars
  PROVE  Due'
<1> SUFFICES ASSUME NEW t \in Threads, pc'[t] = "refresh"
             PROVE  req'[t].forced \/ AccessOf(t)' = 0 \/ NeedsRefresh(t)'
  BY DEF Due, At
<1>0. pc \in [Threads -> Phases] /\ req \in [Threads -> Requests]
  BY DEF RequestsInv, TypeOK
\* Nothing of what t's refresh rests on changes.
<1>1. ASSUME pc[t] = "refresh", req'[t] = req[t], access'[ConfigOf(t)] = access[ConfigOf(t)],
             expires'[ConfigOf(t)] = expires[ConfigOf(t)], ageing \subseteq ageing'
      PROVE  req'[t].forced \/ AccessOf(t)' = 0 \/ NeedsRefresh(t)'
  BY <1>1 DEF Due, At, AccessOf, NeedsRefresh
<1>2. ASSUME TakeLock(t)
      PROVE  req'[t].forced \/ AccessOf(t)' = 0 \/ NeedsRefresh(t)'
  <2>1. \/ /\ req[t].forced \/ AccessOf(t) = 0 \/ NeedsRefresh(t)
           /\ req' = req
        \/ pc' = [pc EXCEPT ![t] = "send"]
    BY <1>2 DEF TakeLock, Goto
  <2>2. UNCHANGED <<access, expires, ageing>>
    BY <1>2 DEF TakeLock, config, feishu
  <2> QED
    BY <1>0, <2>1, <2>2 DEF AccessOf, NeedsRefresh
\* Another phase of t leads elsewhere.
<1>3. ASSUME NEW u \in Threads, Discover(u) \/ CallTool(u) \/ Step(u)
      PROVE  /\ u # t /\ pc[t] = "refresh" /\ req'[t] = req[t] /\ ageing' = ageing
  <2>1. /\ \E p \in Phases \ {"refresh"} : pc' = [pc EXCEPT ![u] = p]
        /\ \E r : req' = [req EXCEPT ![u] = r]
    <3>1. CASE Discover(u) \/ CallTool(u)
      BY <3>1 DEF Discover, CallTool, Begin, Goto, Phases
    <3>2. ASSUME NEW status, Respond(u, status) \/ Raise(u)
          PROVE  <2>1!:
      BY <3>2, RespondFacts, RaiseFacts DEF Phases
    <3>3. CASE ReadAccess(u)
      BY <3>2, <3>3 DEF ReadAccess, Goto, Phases
    <3>4. CASE ReadExpiry(u)
      <4>1. \E p \in {"lock", "send"} : pc' = [pc EXCEPT ![u] = p]
        BY <3>4 DEF ReadExpiry, Goto
      <4>2. req' = [req EXCEPT ![u] = req[u]]
        BY <3>4, SameRequest DEF ReadExpiry
      <4> QED
        BY <4>1, <4>2 DEF Phases
    <3>5. CASE Refresh(u)
      <4>1. CASE \/ RefreshTokenMissing(u) \/ RefreshRefused(u) \/ RefreshFails(u)
                 \/ RefreshBreaks(u) \/ ResponseLost(u) \/ SaveFails(u)
        BY <3>2, <4>1
           DEF RefreshTokenMissing, RefreshRefused, RefreshFails, RefreshBreaks,
           ResponseLost, SaveFails, RuntimeErrorOf
      <4>2. CASE RefreshAccepted(u) \/ EmptyGrant(u)
        BY <4>2 DEF RefreshAccepted, EmptyGrant, Goto, Phases
      <4>3. CASE Save(u) \/ SetTokens(u)
        BY <4>3, SameRequest DEF Save, SetTokens, Goto, Phases
      <4>4. CASE SetExpiry(u)
        BY <3>2, <4>4 DEF SetExpiry, AfterRefresh, Goto, Phases
      <4> QED
        BY <3>5, <4>1, <4>2, <4>3, <4>4 DEF Refresh
    <3>6. CASE SendSettles(u) \/ RetriesExhausted(u) \/ TokenInvalidAgain(u)
      BY <3>2, <3>6 DEF SendSettles, RetriesExhausted, TokenInvalidAgain, Answered
    <3>7. CASE SendAgain(u)
      <4>1. pc' = [pc EXCEPT ![u] = "send"] /\ "send" \in Phases
        BY <1>0, <3>7 DEF SendAgain, At, Phases
      <4> QED
        BY <3>7, <4>1 DEF SendAgain
    <3>8. CASE TokenInvalid(u)
      BY <3>8 DEF TokenInvalid, Goto, Phases
    <3> QED
      BY <1>3, <3>1, <3>3, <3>4, <3>5, <3>6, <3>7, <3>8 DEF Step
  <2>2. ageing' = ageing
    BY <1>3 DEF Discover, CallTool, Begin, Step, ReadAccess, ReadExpiry, Refresh,
       RefreshTokenMissing, RefreshRefused, RefreshFails, RefreshBreaks, ResponseLost,
       SaveFails, RefreshAccepted, EmptyGrant, Issue, Save, SetTokens, SetExpiry, SendSettles,
       RetriesExhausted, TokenInvalidAgain, Answered, SendAgain, TokenInvalid, feishu
  <2>3. u # t
    BY <1>0, <2>1
  <2> QED
    BY <1>0, <2>1, <2>2, <2>3
\* Another thread's fields change only in its own config, or under the lock.
<1>4. ASSUME NEW u \in Threads, Discover(u) \/ CallTool(u) \/ Step(u)
      PROVE  req'[t].forced \/ AccessOf(t)' = 0 \/ NeedsRefresh(t)'
  <2>1. u # t /\ pc[t] = "refresh" /\ req'[t] = req[t] /\ ageing' = ageing
    BY <1>3, <1>4
  <2>2. pc[u] \notin Refreshing
    BY <2>1, OneRefresher DEF Refreshing
  <2>3. CASE CallTool(u)
    <3>1. /\ u \in Tools /\ access' = [access EXCEPT ![u] = env]
          /\ expires' = [expires EXCEPT ![u] = env]
      BY <2>3 DEF CallTool
    <3>2. ConfigOf(t) # u /\ ConfigOf(t) \in Configs
      BY <2>1, <3>1, Configured
    <3> QED
      BY <1>1, <2>1, <3>1, <3>2, StoredFacts
  <2>4. CASE Discover(u) \/ Step(u)
    <3>1. ~SetTokens(u) /\ ~SetExpiry(u)
      BY <2>2 DEF SetTokens, SetExpiry, At, Refreshing
    <3>2. access' = access /\ expires' = expires
      BY <2>4, <3>1 DEF Discover, Step, ReadAccess, ReadExpiry, Refresh,
         RefreshTokenMissing, RefreshRefused, RefreshFails, RefreshBreaks, ResponseLost,
         SaveFails, RefreshAccepted, EmptyGrant, Save, SendSettles,
         RetriesExhausted, TokenInvalidAgain, Answered, SendAgain, TokenInvalid, config
    <3> QED
      BY <1>1, <2>1, <3>2
  <2> QED
    BY <1>4, <2>3, <2>4
<1>5. ASSUME NEW u \in Threads \ {t}, TakeLock(u)
      PROVE  req'[t].forced \/ AccessOf(t)' = 0 \/ NeedsRefresh(t)'
  <2>1. /\ \E p : pc' = [pc EXCEPT ![u] = p]
        /\ UNCHANGED <<access, expires, ageing>>
    BY <1>5 DEF TakeLock, Goto, config, feishu
  <2>2. req' = req \/ \E r : req' = [req EXCEPT ![u] = r]
    BY <1>5 DEF TakeLock
  <2> QED
    BY <1>0, <1>1, <2>1, <2>2
<1>6. CASE Age \/ Die \/ Revoke
  <2>1. UNCHANGED <<access, expires, pc, req>> /\ ageing \subseteq ageing'
    BY <1>6 DEF Age, Die, Revoke, Change, config
  <2> QED
    BY <1>1, <2>1
<1>7. CASE UNCHANGED vars
  <2>1. UNCHANGED <<access, expires, pc, req, ageing>>
    BY <1>7 DEF vars, config, feishu
  <2> QED
    BY <1>1, <2>1
<1> QED
  BY <1>2, <1>4, <1>5, <1>6, <1>7 DEF Next

\* Threads that share a config and see the same expiry refresh once: a
\* refresh presents a token its config has not yet exchanged, and for a
\* reason that still stands (user_token_provider.py get_token looks twice).
THEOREM RefreshesAreDue == Spec => []RefreshIsDue
<1>1. Init => Due
  BY DEF Init, Due, At
<1>2. RequestsInv /\ Due => RefreshIsDue
  <2> SUFFICES ASSUME RequestsInv, Due, NEW t \in Threads, pc[t] = "refresh"
               PROVE  /\ RefreshOf(t) \notin spent[ConfigOf(t)]
                      /\ req[t].forced \/ AccessOf(t) = 0 \/ NeedsRefresh(t)
    BY DEF RefreshIsDue, At
  <2>1. Carriers({"save", "set tokens"}) = {}
    BY OneCarrier DEF Carriers, Refreshing
  <2>2. RefreshOf(t) \notin spent[ConfigOf(t)]
    BY <2>1, Configured DEF RequestsInv, SpentReplaced, RefreshOf
  <2> QED
    BY <2>2 DEF Due, At
<1> QED
  BY <1>1, <1>2, DueKept, RequestsCorrect, PTL DEF Spec

----------------------------------------------------------------------------
(* Progress of a request *)

LEMMA PhaseOrder ==
  /\ PhasesLeft("read expiry") < PhasesLeft("read access")
  /\ PhasesLeft("lock") < PhasesLeft("read expiry")
  /\ PhasesLeft("send") < PhasesLeft("read expiry")
  /\ PhasesLeft("refresh") < PhasesLeft("lock")
  /\ PhasesLeft("send") < PhasesLeft("lock")
  /\ PhasesLeft("save") < PhasesLeft("refresh")
  /\ PhasesLeft("set tokens") < PhasesLeft("save")
  /\ PhasesLeft("set expiry") < PhasesLeft("set tokens")
  /\ PhasesLeft("send") < PhasesLeft("set expiry")
BY DEF PhasesLeft

\* A response ends the call or begins its next request.
LEMMA RespondAdvances ==
  ASSUME RequestsInv, NEW t \in Threads, NEW status, Respond(t, status)
  PROVE  RequestAdvances(t)
<1>1. req \in [Threads -> Requests] /\ pc \in [Threads -> Phases]
  BY DEF RequestsInv, TypeOK
<1>2. CASE Return(t)
  <2>1. pc'[t] = "idle"
    BY <1>1, <1>2 DEF Return, Goto
  <2> QED
    BY <2>1 DEF RequestAdvances
<1>3. ASSUME StartRequest(t, req[t].n + 1)
      PROVE  RequestAdvances(t)
  <2>1. req'[t].n = req[t].n + 1
    BY <1>1, <1>3 DEF StartRequest, NewRequest
  <2> QED
    BY <2>1 DEF RequestAdvances
<1>4. StartRequest(t, 2) /\ req[t].n = 1 => StartRequest(t, req[t].n + 1)
  OBVIOUS
<1> QED
  BY <1>2, <1>3, <1>4 DEF Respond, NextPage, EndDiscover, ReadDoc, QueryDrive

LEMMA RaiseAdvances ==
  ASSUME RequestsInv, NEW t \in Threads, Raise(t)
  PROVE  RequestAdvances(t)
<1>1. pc'[t] = "idle"
  BY DEF Raise, Return, Goto, RequestsInv, TypeOK
<1> QED
  BY <1>1 DEF RequestAdvances

\* Within a request, a step that changes no count takes the next phase.
LEMMA PhaseAdvances ==
  ASSUME RequestsInv, NEW t \in Threads,
         req'[t].n = req[t].n, req'[t].round = req[t].round,
         req'[t].forced = req[t].forced,
         PhasesLeft(pc'[t]) < PhasesLeft(pc[t])
  PROVE  RequestAdvances(t)
BY DEF RequestAdvances

\* A step that keeps the request, but for its token.
LEMMA TokenKept ==
  ASSUME RequestsInv, NEW t \in Threads, NEW x,
         req' = [req EXCEPT ![t].token = x] \/ req' = req
  PROVE  req'[t].n = req[t].n /\ req'[t].round = req[t].round /\ req'[t].forced = req[t].forced
<1>1. req \in [Threads -> Requests]
  BY DEF RequestsInv, TypeOK
<1> QED
  BY <1>1 DEF Requests

LEMMA PhaseTaken ==
  ASSUME RequestsInv, NEW t \in Threads, NEW p, Goto(t, p)
  PROVE  pc'[t] = p
BY DEF RequestsInv, TypeOK, Goto

\* get_token and the lock.
LEMMA TokenAdvances ==
  ASSUME RequestsInv, NEW t \in Threads, ReadAccess(t) \/ ReadExpiry(t) \/ TakeLock(t)
  PROVE  RequestAdvances(t)
<1>1. CASE ReadAccess(t)
  <2>1. CASE Respond(t, "failed")
    BY <2>1, RespondAdvances
  <2>2. CASE req' = [req EXCEPT ![t].token = AccessOf(t)] /\ Goto(t, "read expiry")
    <3>1. pc[t] = "read access" /\ pc'[t] = "read expiry"
      BY <1>1, <2>2, PhaseTaken DEF ReadAccess, At
    <3>2. PhasesLeft(pc'[t]) < PhasesLeft(pc[t])
      BY <3>1, PhaseOrder
    <3> QED
      BY <2>2, <3>2, TokenKept, PhaseAdvances
  <2> QED
    BY <1>1, <2>1, <2>2 DEF ReadAccess
<1>2. CASE ReadExpiry(t)
  <2>1. pc'[t] \in {"lock", "send"} /\ pc[t] = "read expiry" /\ req' = req
    BY <1>2, PhaseTaken DEF ReadExpiry, At
  <2>2. PhasesLeft(pc'[t]) < PhasesLeft(pc[t])
    BY <2>1, PhaseOrder
  <2> QED
    BY <2>1, <2>2, TokenKept, PhaseAdvances
<1>3. CASE TakeLock(t)
  <2>1. pc'[t] \in {"refresh", "send"} /\ pc[t] = "lock"
    BY <1>3, PhaseTaken DEF TakeLock, At
  <2>2. req' = [req EXCEPT ![t].token = AccessOf(t)] \/ req' = req
    BY <1>3 DEF TakeLock
  <2>3. PhasesLeft(pc'[t]) < PhasesLeft(pc[t])
    BY <2>1, PhaseOrder
  <2> QED
    BY <2>2, <2>3, TokenKept, PhaseAdvances
<1> QED
  BY <1>1, <1>2, <1>3

\* A refresh, whichever way it ends.
LEMMA RefreshAdvances ==
  ASSUME RequestsInv, NEW t \in Threads, Refresh(t)
  PROVE  RequestAdvances(t)
<1>1. CASE RefreshTokenMissing(t) \/ RefreshRefused(t) \/ RefreshFails(t)
  BY <1>1, RespondAdvances DEF RefreshTokenMissing, RefreshRefused, RefreshFails, RuntimeErrorOf
<1>2. CASE RefreshBreaks(t) \/ ResponseLost(t) \/ SaveFails(t)
  BY <1>2, RaiseAdvances DEF RefreshBreaks, ResponseLost, SaveFails
<1>3. CASE RefreshAccepted(t) \/ EmptyGrant(t)
  <2>1. PICK x \in {0, issued + 1} : req' = [req EXCEPT ![t].token = x]
    BY <1>3 DEF RefreshAccepted, EmptyGrant
  <2>2. pc'[t] = "save" /\ pc[t] = "refresh"
    BY <1>3, PhaseTaken DEF RefreshAccepted, EmptyGrant, At
  <2>3. PhasesLeft(pc'[t]) < PhasesLeft(pc[t])
    BY <2>2, PhaseOrder
  <2> QED
    BY <2>1, <2>3, TokenKept, PhaseAdvances
<1>4. CASE Save(t) \/ SetTokens(t)
  <2>1. (pc'[t] = "set tokens" /\ pc[t] = "save") \/ (pc'[t] = "set expiry" /\ pc[t] = "set tokens")
    BY <1>4, PhaseTaken DEF Save, SetTokens, At
  <2>2. req' = req
    BY <1>4 DEF Save, SetTokens
  <2>3. PhasesLeft(pc'[t]) < PhasesLeft(pc[t])
    BY <2>1, PhaseOrder
  <2> QED
    BY <2>2, <2>3, TokenKept, PhaseAdvances
<1>5. CASE SetExpiry(t)
  <2>1. CASE Respond(t, "failed")
    BY <2>1, RespondAdvances
  <2>2. CASE /\ req' = [req EXCEPT ![t].forced = FALSE]
             /\ Goto(t, IF req[t].forced THEN "read access" ELSE "send")
    <3>1. req \in [Threads -> Requests] /\ req[t].forced \in BOOLEAN
      BY ThreadFacts DEF RequestsInv, TypeOK
    <3>2. req'[t].n = req[t].n /\ req'[t].round = req[t].round /\ req'[t].forced = FALSE
      BY <2>2, <3>1 DEF Requests
    <3>3. CASE req[t].forced
      BY <3>2, <3>3 DEF RequestAdvances
    <3>4. CASE ~req[t].forced
      <4>1. pc'[t] = "send" /\ pc[t] = "set expiry"
        BY <1>5, <2>2, <3>4, PhaseTaken DEF SetExpiry, At
      <4>2. PhasesLeft(pc'[t]) < PhasesLeft(pc[t])
        BY <4>1, PhaseOrder
      <4>3. req[t].forced = FALSE
        BY <3>1, <3>4
      <4> QED
        BY <3>2, <4>2, <4>3, PhaseAdvances
    <3> QED
      BY <3>1, <3>3, <3>4
  <2> QED
    BY <1>5, <2>1, <2>2 DEF SetExpiry, AfterRefresh
<1> QED
  BY <1>1, <1>2, <1>3, <1>4, <1>5 DEF Refresh

\* A send: its response, its retry, or the second round.
LEMMA SendAdvances ==
  ASSUME RequestsInv, NEW t \in Threads,
         \/ SendSettles(t) \/ SendAgain(t) \/ RetriesExhausted(t)
         \/ TokenInvalid(t) \/ TokenInvalidAgain(t)
  PROVE  RequestAdvances(t)
<1>0. req \in [Threads -> Requests] /\ req[t] \in Requests
  BY ThreadFacts DEF RequestsInv, TypeOK
<1>1. CASE SendSettles(t) \/ RetriesExhausted(t) \/ TokenInvalidAgain(t)
  <2>1. PICK status \in {"ok", "failed"} : Respond(t, status)
    BY <1>1 DEF SendSettles, RetriesExhausted, TokenInvalidAgain, Answered
  <2> QED
    BY <2>1, RespondAdvances
<1>2. CASE SendAgain(t)
  <2>1. req' = [req EXCEPT ![t].tries = @ + 1] /\ pc'[t] = pc[t]
    BY <1>2 DEF SendAgain
  <2>2. /\ req'[t].n = req[t].n /\ req'[t].round = req[t].round
        /\ req'[t].forced = req[t].forced /\ req'[t].tries = req[t].tries + 1
    BY <1>0, <2>1 DEF Requests
  <2> QED
    BY <2>1, <2>2 DEF RequestAdvances
<1>3. CASE TokenInvalid(t)
  <2>1. req' = [req EXCEPT ![t] = [@ EXCEPT !.round = 2, !.tries = 0, !.forced = TRUE,
                                           !.rejected = {req[t].token}]]
    BY <1>3 DEF TokenInvalid
  <2>2. req'[t].n = req[t].n /\ req'[t].round = 2
    BY <1>0, <2>1 DEF Requests
  <2>3. req[t].round = 1
    BY <1>3 DEF TokenInvalid
  <2>4. req'[t].round > req[t].round
    BY <2>2, <2>3
  <2> QED
    BY <2>2, <2>4 DEF RequestAdvances
<1> QED
  BY <1>1, <1>2, <1>3

\* A step of one thread leaves the requests of the others alone.
LEMMA OthersLeaveRequest ==
  ASSUME RequestsInv, NEW t \in Threads, NEW u \in Threads, u # t,
         \/ Discover(u) \/ CallTool(u) \/ TakeLock(u) \/ Step(u)
  PROVE  pc'[t] = pc[t] /\ req'[t] = req[t]
<1>0. req \in [Threads -> Requests] /\ pc \in [Threads -> Phases]
  BY DEF RequestsInv, TypeOK
<1>1. ASSUME NEW status, Respond(u, status)
      PROVE  pc'[t] = pc[t] /\ req'[t] = req[t]
  <2>1. \E n \in 0..(MaxPages + 2), p \in {"idle", "read access"} :
          req' = [req EXCEPT ![u] = NewRequest(n)] /\ pc' = [pc EXCEPT ![u] = p]
    BY <1>1, RespondFacts
  <2> QED
    BY <1>0, <2>1
<1>2. ASSUME Raise(u)
      PROVE  pc'[t] = pc[t] /\ req'[t] = req[t]
  BY <1>0, <1>2, RaiseFacts
<1>3. ASSUME NEW p, Goto(u, p)
      PROVE  pc'[t] = pc[t]
  BY <1>0, <1>3 DEF Goto
<1>4. CASE Discover(u) \/ CallTool(u)
  <2>1. PICK what : Begin(u, what)
    BY <1>4 DEF Discover, CallTool
  <2> QED
    BY <1>0, <1>3, <2>1 DEF Begin
<1>5. CASE TakeLock(u)
  BY <1>0, <1>3, <1>5 DEF TakeLock
<1>6. CASE ReadAccess(u) \/ ReadExpiry(u)
  BY <1>0, <1>1, <1>3, <1>6 DEF ReadAccess, ReadExpiry
<1>7. CASE RefreshTokenMissing(u) \/ RefreshRefused(u) \/ RefreshFails(u)
  BY <1>1, <1>7 DEF RefreshTokenMissing, RefreshRefused, RefreshFails, RuntimeErrorOf
<1>8. CASE RefreshBreaks(u) \/ ResponseLost(u) \/ SaveFails(u)
  BY <1>2, <1>8 DEF RefreshBreaks, ResponseLost, SaveFails
<1>9. CASE RefreshAccepted(u) \/ EmptyGrant(u) \/ Save(u) \/ SetTokens(u)
  BY <1>0, <1>3, <1>9 DEF RefreshAccepted, EmptyGrant, Save, SetTokens
<1>10. CASE SetExpiry(u)
  BY <1>0, <1>1, <1>3, <1>10 DEF SetExpiry, AfterRefresh
<1>11. CASE SendSettles(u) \/ RetriesExhausted(u) \/ TokenInvalidAgain(u)
  BY <1>1, <1>11 DEF SendSettles, RetriesExhausted, TokenInvalidAgain, Answered
<1>12. CASE SendAgain(u) \/ TokenInvalid(u)
  BY <1>0, <1>3, <1>12 DEF SendAgain, TokenInvalid
<1> QED
  BY <1>4, <1>5, <1>6, <1>7, <1>8, <1>9, <1>10, <1>11, <1>12 DEF Step, Refresh

\* Whatever Feishu answers and the thread with the same config does, a call
\* has only so many requests, rounds, tries and phases
\* (_request_with_retries, request_with_token_retry).
THEOREM RequestsOnlyAdvance == Spec => RequestsAdvance
<1>1. ASSUME RequestsInv, Next, NEW t \in Threads, pc[t] # "idle",
             ~TakeLock(t), ~Step(t)
      PROVE  pc'[t] = pc[t] /\ req'[t] = req[t]
  <2>1. ~Discover(t) /\ ~CallTool(t)
    BY <1>1 DEF Discover, CallTool, Begin, At
  <2>2. CASE Age \/ Die \/ Revoke
    BY <2>2 DEF Age, Die, Revoke, Change
  <2> QED
    BY <1>1, <2>1, <2>2, OthersLeaveRequest DEF Next
<1>2. ASSUME RequestsInv, NEW t \in Threads, TakeLock(t) \/ Step(t)
      PROVE  RequestAdvances(t)
  BY <1>2, TokenAdvances, RefreshAdvances, SendAdvances DEF Step
<1>3. RequestsInv /\ [Next]_vars =>
        [\A t \in Threads : pc[t] # "idle" =>
           \/ RequestAdvances(t)
           \/ ~TakeLock(t) /\ ~Step(t) /\ pc'[t] = pc[t] /\ req'[t] = req[t]]_vars
  BY <1>1, <1>2
<1> QED
  BY <1>3, RequestsCorrect, PTL DEF Spec, RequestsAdvance

----------------------------------------------------------------------------
(* Collections: numbers and listings *)

LEMMA MaxFacts ==
  ASSUME NEW n \in Nat, NEW S, S \subseteq 0..n, S # {}
  PROVE  Max(S) \in S /\ \A x \in S : x <= Max(S)
<1> DEFINE T == {n - x : x \in S}
           R == OpToRel(<, Nat)
<1>1. T \subseteq Nat /\ T # {}
  <2>1. \A x \in S : x \in Nat /\ n - x \in Nat
    OBVIOUS
  <2> QED
    BY <2>1
<1>2. \A x, y \in Nat : x < y => <<x, y>> \in R
  BY DEF OpToRel
<1>3. IsWellFoundedOn(R, Nat)
  BY NatLessThanWellFounded
<1> HIDE DEF R, T
<1>4. PICK least \in T : \A y \in T : ~(<<y, least>> \in R)
  BY <1>1, <1>3, WFMin
<1>5. PICK top \in S : least = n - top
  BY <1>4 DEF T
<1>6. \A x \in S : top >= x
  <2> SUFFICES ASSUME NEW x \in S PROVE top >= x
    OBVIOUS
  <2>1. n - x \in T /\ n - x \in Nat /\ least \in Nat
    BY <1>1, <1>4 DEF T
  <2>2. ~(n - x < n - top)
    BY <2>1, <1>2, <1>4, <1>5
  <2>3. x \in Int /\ top \in Int
    OBVIOUS
  <2> QED
    BY <2>2, <2>3
<1> QED
  BY <1>6 DEF Max

LEMMA CollectNumbers ==
  /\ MaxTime \in Nat /\ MaxPagesPerRun \in Nat /\ MaxPagesPerRun >= 1
  /\ MaxItemsPerRun \in Nat /\ MaxItemsPerRun >= 1 /\ MaxFailures \in Nat /\ Lookback \in Nat
  /\ Times \subseteq Nat /\ 0 \in Times /\ Items \subseteq Nat /\ Documents \subseteq Items
  /\ Messages \subseteq Nat /\ Messages \subseteq Items
  /\ \A i \in Items : i \in Messages \/ i \in Documents
  /\ \A i \in Documents : i \notin Messages
  /\ \A P \in SUBSET Items : IsFiniteSet(P) /\ Cardinality(P) \in Nat
<1>1. IsFiniteSet(Items)
  BY CollectorsAssumption, FS_Union DEF Items
<1>2. \A P \in SUBSET Items : IsFiniteSet(P) /\ Cardinality(P) \in Nat
  BY <1>1, FS_Subset, FS_CardinalityType
<1>3. 0 \in Times /\ Times \subseteq Nat /\ MaxTime \in Nat
  BY CollectorsAssumption DEF Times
<1> QED
  BY <1>2, <1>3, CollectorsAssumption DEF Items

\* The newest time is one that was written, or the one before.
LEMMA NewestFacts ==
  ASSUME NEW top \in Times \cup {None}, NEW P, \A i \in P : TimeOf(i) \in Times
  PROVE  /\ Newest(top, P) \in Times \cup {None}
         /\ Newest(top, P) # None =>
              (top # None /\ Newest(top, P) = top) \/ \E i \in P : Newest(top, P) = TimeOf(i)
<1> DEFINE times == {TimeOf(i) : i \in P} \cup ({top} \ {None})
<1>1. times \subseteq 0..MaxTime /\ MaxTime \in Nat
  BY CollectNumbers DEF Times
<1>2. times # {} => Max(times) \in times
  <2> HIDE DEF times
  <2> QED
    BY <1>1, MaxFacts
<1>3. Newest(top, P) = IF times = {} THEN None ELSE Max(times)
  BY DEF Newest
<1>4. CASE times = {}
  BY <1>3, <1>4
<1>5. CASE times # {}
  BY <1>1, <1>2, <1>3, <1>5 DEF Times
<1> QED
  BY <1>4, <1>5

\* The parts of an invariant run.
LEMMA RunFacts ==
  ASSUME CollectInv, NEW t \in Collecting, run[t] # None
  PROVE  /\ run[t] \in Runs
         /\ RunCovers(run[t])
BY DEF CollectInv, CollectorsTypeOK

----------------------------------------------------------------------------
(* Collections: what is covered stays covered *)

\* What the other thread, Feishu and the clock may do meanwhile.
Later ==
  /\ now <= now' /\ now' \in Times
  /\ recorded \subseteq recorded' /\ dropped \subseteq dropped'
  /\ \A m \in Messages :
       \/ created'[m] = created[m]
       \/ /\ created[m] = None /\ created'[m] = now'
          /\ \A n \in Messages : m < n => created[n] = None

LEMMA CursorLater ==
  ASSUME CollectInv, Later, NEW c \in Times \cup {None}, NEW f \in Times \cup {None},
         CursorCovers(c, f)
  PROVE  CursorCovers(c, f)'
<1> SUFFICES ASSUME c # None
             PROVE  /\ f \in Times
                    /\ c <= now'
                    /\ \A m \in Messages :
                         created'[m] # None /\ f <= created'[m] /\ created'[m] < c
                         => m \in recorded'
  BY DEF CursorCovers
<1>1. c \in Nat /\ now \in Nat /\ now' \in Nat /\ c <= now /\ now <= now'
  BY CollectNumbers DEF Later, CursorCovers, CollectInv, CollectorsTypeOK
<1>2. ASSUME NEW m \in Messages, created'[m] # None, f <= created'[m], created'[m] < c
      PROVE  m \in recorded'
  <2>1. created'[m] # now'
    BY <1>1, <1>2
  <2>2. created'[m] = created[m] /\ recorded \subseteq recorded'
    BY <2>1 DEF Later
  <2> QED
    BY <1>2, <2>2 DEF CursorCovers
<1> QED
  BY <1>1, <1>2 DEF CursorCovers

LEMMA StateLater ==
  ASSUME CollectInv, Later, NEW s \in SyncStates, StateCovers(s)
  PROVE  StateCovers(s)'
<1>1. s.cursor \in Times \cup {None} /\ s.from \in Times \cup {None}
  BY DEF SyncStates
<1>2. CursorCovers(s.cursor, s.from)'
  BY <1>1, CursorLater DEF StateCovers
<1>3. TokenCovers(s.next)'
  BY DEF StateCovers, TokenCovers, Later
<1> QED
  BY <1>2, <1>3 DEF StateCovers

LEMMA RunLater ==
  ASSUME CollectInv, Later, NEW r \in Runs, RunCovers(r)
  PROVE  RunCovers(r)'
<1>1. /\ r.seen \in SyncStates /\ r.top \in Times \cup {None} /\ r.from \in Times
      /\ Ahead(r) \subseteq Items
  BY DEF Runs, Ahead
<1>2. StateCovers(r.seen)'
  BY <1>1, StateLater DEF RunCovers
<1>3. CursorCovers(r.top, r.from)'
  BY <1>1, CursorLater DEF RunCovers
<1>4. ASSUME r.kind = "document"
      PROVE  FolderCovers(r)'
  BY <1>4 DEF RunCovers, FolderCovers, Later, Ahead
<1>5. ASSUME r.kind # "document"
      PROVE  WindowCovers(r)'
  <2>1. WindowCovers(r)
    BY <1>5 DEF RunCovers
  <2>2. /\ Ahead(r) \subseteq Messages
        /\ \A i \in Ahead(r) : created'[i] = created[i]
    BY <2>1 DEF WindowCovers, Later
  <2>3. ASSUME NEW i \in Ahead(r), NEW m \in Messages, m < i
        PROVE  created'[m] = created[m]
    BY <2>1, <2>2, <2>3 DEF WindowCovers, Later
  <2>4. recorded \subseteq recorded'
    BY DEF Later
  <2> QED
    BY <2>1, <2>2, <2>3, <2>4 DEF WindowCovers, Ahead
<1> QED
  BY <1>2, <1>3, <1>4, <1>5 DEF RunCovers

\* A step of one thread that leaves the sync states alone.
LEMMA RunStep ==
  ASSUME CollectInv, UNCHANGED <<worldVars, sync>>,
         recorded \subseteq recorded', recorded' \subseteq Items,
         dropped \subseteq dropped', dropped' \subseteq Documents,
         failures' \in 0..MaxFailures,
         NEW t \in Collecting, NEW r \in Runs \cup {None}, Become(t, r),
         r # None => RunCovers(r)'
  PROVE  CollectInv'
<1>1. Later
  BY CollectNumbers DEF Later, worldVars, CollectInv, CollectorsTypeOK
<1>2. CollectorsTypeOK'
  BY DEF CollectInv, CollectorsTypeOK, worldVars, Become
<1>3. PostedInOrder'
  BY DEF CollectInv, PostedInOrder, worldVars
<1>4. ResumeCovers'
  <2> SUFFICES ASSUME NEW k \in Kinds
               PROVE  StateCovers(sync[k])'
    BY DEF ResumeCovers
  <2>1. PICK s \in SyncStates : s = sync[k]
    BY DEF CollectInv, CollectorsTypeOK
  <2>2. StateCovers(s)'
    BY <1>1, <2>1, StateLater DEF CollectInv, ResumeCovers
  <2> QED
    BY <2>1, <2>2
<1>5. ASSUME NEW u \in Collecting, run'[u] # None
      PROVE  RunCovers(run[u])'
  <2>1. CASE u = t
    <3>1. run'[u] = r
      BY <2>1 DEF CollectInv, CollectorsTypeOK, Become
    <3> QED
      BY <1>5, <3>1
  <2>2. CASE u # t
    <3>1. run'[u] = run[u]
      BY <2>2 DEF CollectInv, CollectorsTypeOK, Become
    <3>2. PICK q \in Runs : q = run[u] /\ RunCovers(q)
      BY <1>5, <3>1, RunFacts
    <3>3. RunCovers(q)'
      BY <1>1, <3>2, RunLater
    <3> QED
      BY <3>1, <3>2, <3>3
  <2> QED
    BY <2>1, <2>2
<1> QED
  BY <1>2, <1>3, <1>4, <1>5 DEF CollectInv

----------------------------------------------------------------------------
(* Collections: the steps *)

LEMMA FreshRun ==
  ASSUME NEW kind \in Kinds, NEW from \in Times, NEW rest \in SUBSET Items
  PROVE  /\ NewRun(kind, from, rest) \in Runs
         /\ StateCovers(NoState) /\ CursorCovers(None, from)
<1>1. NoState \in SyncStates
  BY DEF NoState, SyncStates
<1>2. NewRun(kind, from, rest) \in Runs
  BY <1>1, CollectNumbers DEF NewRun, Runs, Places
<1> QED
  BY <1>2 DEF StateCovers, CursorCovers, TokenCovers, NoState

LEMMA MessageRunFacts ==
  ASSUME CollectInv, NEW from \in Times
  PROVE  /\ MessageRun(from) \in Runs
         /\ RunCovers(MessageRun(from))
<1> DEFINE rest == {m \in Messages : created[m] # None /\ from <= created[m]}
<1>1. rest \subseteq Items /\ "message" \in Kinds
  BY CollectNumbers DEF Kinds
<1>2. PICK r : r = MessageRun(from)
  OBVIOUS
<1>3. r = NewRun("message", from, rest)
  BY <1>2 DEF MessageRun
<1>4. r \in Runs /\ StateCovers(NoState) /\ CursorCovers(None, from)
  BY <1>1, <1>3, FreshRun
<1>5. /\ r.pc = "request" /\ r.kind = "message" /\ r.from = from /\ r.rest = rest /\ r.page = {}
      /\ r.pages = 0 /\ r.top = None /\ r.seen = NoState
  BY <1>3 DEF NewRun
<1>6. WindowCovers(r)
  BY <1>5 DEF WindowCovers, Ahead
<1>7. RunCovers(r)
  BY <1>4, <1>5, <1>6, CollectNumbers DEF RunCovers
<1> QED
  BY <1>2, <1>4, <1>7

LEMMA DocumentRunFacts ==
  ASSUME CollectInv
  PROVE  /\ DocumentRun \in Runs
         /\ RunCovers(DocumentRun)
<1> DEFINE rest == IF sync["document"].next = None THEN Documents ELSE sync["document"].next
<1>1. sync["document"] \in SyncStates /\ StateCovers(sync["document"]) /\ "document" \in Kinds
  BY DEF CollectInv, CollectorsTypeOK, ResumeCovers, Kinds
<1>2. rest \subseteq Documents /\ rest \subseteq Items
  BY <1>1, CollectNumbers DEF SyncStates, Tokens
<1>3. Documents \subseteq rest \cup recorded \cup dropped
  BY <1>1 DEF StateCovers, TokenCovers
<1>4. PICK r : r = DocumentRun
  OBVIOUS
<1>5. r = NewRun("document", 0, rest)
  BY <1>4 DEF DocumentRun
<1>6. r \in Runs /\ StateCovers(NoState) /\ CursorCovers(None, 0)
  BY <1>1, <1>2, <1>5, FreshRun, CollectNumbers
<1>7. /\ r.pc = "request" /\ r.kind = "document" /\ r.from = 0 /\ r.rest = rest /\ r.page = {}
      /\ r.pages = 0 /\ r.top = None /\ r.seen = NoState
  BY <1>5 DEF NewRun
<1>8. FolderCovers(r)
  BY <1>2, <1>3, <1>7 DEF FolderCovers, Ahead
<1>9. RunCovers(r)
  BY <1>6, <1>7, <1>8, CollectNumbers DEF RunCovers
<1> QED
  BY <1>4, <1>6, <1>9

LEMMA AfterRunFacts ==
  ASSUME CollectInv, NEW t \in Collecting
  PROVE  /\ AfterRun(t) \in Runs \cup {None}
         /\ AfterRun(t) # None => RunCovers(AfterRun(t))
BY DocumentRunFacts DEF AfterRun

\* Nothing moves but the threads.
LEMMA SameWorld ==
  ASSUME CollectInv, UNCHANGED worldVars, recorded \subseteq recorded', dropped \subseteq dropped'
  PROVE  Later
BY CollectNumbers DEF Later, worldVars, CollectInv, CollectorsTypeOK

\* A collection that begins, or the next one of the tick.
LEMMA BeginStep ==
  ASSUME CollectInv, UNCHANGED <<worldVars, sync, dropped>>,
         recorded \subseteq recorded', recorded' \subseteq Items, failures' \in 0..MaxFailures,
         NEW t \in Collecting, NEW r \in Runs \cup {None}, Become(t, r),
         r # None => RunCovers(r)
  PROVE  CollectInv'
<1>1. Later
  BY SameWorld
<1>2. r # None => RunCovers(r)'
  BY <1>1, RunLater
<1> QED
  BY <1>2, RunStep DEF CollectInv, CollectorsTypeOK

LEMMA StartTickStep ==
  ASSUME CollectInv, StartTick
  PROVE  CollectInv'
<1> DEFINE back == IF now > Lookback THEN now - Lookback ELSE 0
<1>1. back \in Times
  BY CollectNumbers DEF CollectInv, CollectorsTypeOK, Times
<1>2. PICK r \in Runs : r = MessageRun(back) /\ RunCovers(r)
  BY <1>1, MessageRunFacts
<1>3. Become("tick", r)
  BY <1>2 DEF StartTick
<1> QED
  BY <1>2, <1>3, BeginStep DEF StartTick, Collecting, CollectInv, CollectorsTypeOK

LEMMA ConsoleStep ==
  ASSUME CollectInv, ConsoleCommand
  PROVE  CollectInv'
<1>1. MessageRun(0) \in Runs /\ RunCovers(MessageRun(0))
  BY CollectNumbers, MessageRunFacts
<1>2. DocumentRun \in Runs /\ RunCovers(DocumentRun)
  BY DocumentRunFacts
<1>3. PICK r \in Runs : Become("console", r) /\ RunCovers(r)
  BY <1>1, <1>2 DEF ConsoleCommand
<1> QED
  BY <1>3, BeginStep DEF ConsoleCommand, Collecting, CollectInv, CollectorsTypeOK

LEMMA FailureCount ==
  ASSUME CollectInv, failures < MaxFailures, failures' = failures + 1
  PROVE  failures' \in 0..MaxFailures
BY CollectNumbers DEF CollectInv, CollectorsTypeOK

LEMMA RequestPageStep ==
  ASSUME CollectInv, NEW t \in Collecting, RequestPage(t)
  PROVE  CollectInv'
<1>1. PICK P \in FirstPages(run[t].rest) :
        Become(t, [run[t] EXCEPT !.pc = "write", !.pages = @ + 1, !.page = P, !.rest = @ \ P])
  BY DEF RequestPage
<1>2. run[t] # None /\ run[t].pc = "request"
  BY DEF RequestPage, In
<1>3. PICK r \in Runs : r = run[t] /\ RunCovers(r)
  BY <1>2, RunFacts
<1>4. r.pc = "request" /\ r.page = {} /\ r.pages < MaxPagesPerRun
  BY <1>2, <1>3 DEF RunCovers
<1>5. P \subseteq r.rest /\ \A i \in P, j \in r.rest \ P : Before(i, j)
  BY <1>3 DEF FirstPages, Beginnings
<1>6. PICK q : q = [r EXCEPT !.pc = "write", !.pages = @ + 1, !.page = P, !.rest = @ \ P]
  OBVIOUS
<1>7. q \in Runs
  <2>1. r.pages \in 0..MaxPagesPerRun /\ r.rest \subseteq Items
    BY DEF Runs
  <2>2. r.pages + 1 \in 0..MaxPagesPerRun /\ P \subseteq Items /\ r.rest \ P \subseteq Items
    BY <1>4, <1>5, <2>1, CollectNumbers
  <2> QED
    BY <1>6, <2>2 DEF Runs, Places
<1>8. /\ q.pc = "write" /\ q.page = P /\ q.rest = r.rest \ P /\ q.seen = r.seen
      /\ q.top = r.top /\ q.from = r.from /\ q.kind = r.kind
  BY <1>6 DEF Runs
<1>9. Ahead(q) = Ahead(r)
  BY <1>4, <1>5, <1>8 DEF Ahead
<1>10. RunCovers(q)
  BY <1>3, <1>4, <1>5, <1>8, <1>9 DEF RunCovers, FolderCovers, WindowCovers
<1> QED
  BY <1>1, <1>3, <1>6, <1>7, <1>10, BeginStep
     DEF RequestPage, CollectInv, CollectorsTypeOK

LEMMA RequestFailsStep ==
  ASSUME CollectInv, NEW t \in Collecting, RequestFails(t)
  PROVE  CollectInv'
<1>1. PICK r \in Runs : r = run[t] /\ RunCovers(r)
  BY RunFacts DEF RequestFails, In
<1>2. PICK q : q = [r EXCEPT !.pc = "mark", !.ok = FALSE]
  OBVIOUS
<1>3. q \in Runs
  BY <1>2 DEF Runs, Places
<1>4. /\ q.pc = "mark" /\ q.page = r.page /\ q.rest = r.rest /\ q.seen = r.seen
      /\ q.top = r.top /\ q.from = r.from /\ q.kind = r.kind /\ r.page = {}
  BY <1>1, <1>2 DEF Runs, RunCovers, RequestFails, In
<1>5. RunCovers(q)
  BY <1>1, <1>4 DEF RunCovers, FolderCovers, WindowCovers, Ahead
<1>6. Become(t, q)
  BY <1>1, <1>2 DEF RequestFails
<1> QED
  BY <1>3, <1>5, <1>6, BeginStep, FailureCount
     DEF RequestFails, CollectInv, CollectorsTypeOK

LEMMA ReadStateStep ==
  ASSUME CollectInv, NEW t \in Collecting, ReadState(t)
  PROVE  CollectInv'
<1>1. PICK r \in Runs : r = run[t] /\ RunCovers(r)
  BY RunFacts DEF ReadState, In
<1>2. PICK s \in SyncStates : s = sync[r.kind] /\ StateCovers(s)
  BY DEF CollectInv, CollectorsTypeOK, ResumeCovers, Runs
<1>3. PICK q : q = [r EXCEPT !.pc = "save", !.seen = s]
  OBVIOUS
<1>4. q \in Runs
  BY <1>3 DEF Runs, Places
<1>5. /\ q.pc = "save" /\ q.page = r.page /\ q.rest = r.rest /\ q.seen = s
      /\ q.top = r.top /\ q.from = r.from /\ q.kind = r.kind /\ r.page = {}
  BY <1>1, <1>3 DEF Runs, RunCovers, ReadState, In
<1>6. RunCovers(q)
  BY <1>1, <1>2, <1>5 DEF RunCovers, FolderCovers, WindowCovers, Ahead
<1>7. Become(t, q)
  BY <1>1, <1>2, <1>3 DEF ReadState
<1> QED
  BY <1>4, <1>6, <1>7, BeginStep DEF ReadState, CollectInv, CollectorsTypeOK

\* What is written of a page: all of it, or the items before the budget is used up.
LEMMA AcceptedFacts ==
  ASSUME NEW r \in Runs, NEW P \in Accepted(r)
  PROVE  /\ P \subseteq r.page /\ P \in SUBSET Items
         /\ r.items + Cardinality(P) \in 0..MaxItemsPerRun
         /\ P = r.page \/ r.items + Cardinality(P) = MaxItemsPerRun
         /\ \A i \in P, j \in r.page \ P : Before(i, j)
<1>1. r.page \in SUBSET Items /\ r.items \in 0..MaxItemsPerRun
  BY DEF Runs
<1>2. P \in SUBSET r.page /\ \A i \in P, j \in r.page \ P : Before(i, j)
  BY DEF Accepted, Beginnings
<1>3. P \in SUBSET Items
  BY <1>1, <1>2
<1>4. /\ Cardinality(P) \in Nat /\ Cardinality(r.page) \in Nat /\ MaxItemsPerRun \in Nat
      /\ Cardinality(r.page) = Cardinality(P) => r.page = P
  BY <1>1, <1>2, <1>3, CollectNumbers, FS_Subset
<1>5. Cardinality(P) = IF Cardinality(r.page) > MaxItemsPerRun - r.items
                       THEN MaxItemsPerRun - r.items ELSE Cardinality(r.page)
  BY DEF Accepted, Room
<1> QED
  BY <1>1, <1>2, <1>3, <1>4, <1>5

\* The newest time that is written is a new cursor: what is older than an item
\* of the page was on this page, on an earlier one, or is in the store.
LEMMA WindowCursor ==
  ASSUME CollectInv, NEW r \in Runs, RunCovers(r), r.kind = "message", r.pc = "write",
         NEW P \in Accepted(r), recorded' = recorded \cup P, UNCHANGED worldVars,
         NEW i \in P, NEW c, c = created[i]
  PROVE  c \in Times /\ CursorCovers(c, r.from)'
<1>1. WindowCovers(r) /\ \A k \in r.page, j \in r.rest : Before(k, j)
  BY DEF RunCovers
<1>2. P \subseteq r.page /\ \A k \in P, j \in r.page \ P : Before(k, j)
  BY AcceptedFacts
<1>3. i \in Ahead(r) /\ i \in Messages /\ created[i] # None
  BY <1>1, <1>2 DEF WindowCovers, Ahead
<1>4. created[i] \in Times /\ created[i] <= now
  BY <1>3 DEF CollectInv, CollectorsTypeOK, PostedInOrder
<1>5. ASSUME NEW m \in Messages, created[m] # None, r.from <= created[m], created[m] < created[i]
      PROVE  m \in recorded'
  <2>1. created[m] \in Nat /\ created[i] \in Nat /\ m \in Nat /\ i \in Nat
    BY <1>3, <1>4, <1>5, CollectNumbers DEF CollectInv, CollectorsTypeOK
  <2>2. m # i /\ ~(i < m)
    BY <1>3, <1>5, <2>1 DEF CollectInv, PostedInOrder
  <2>3. m < i
    BY <2>1, <2>2
  <2>4. m \in Ahead(r) \cup recorded
    BY <1>1, <1>3, <1>5, <2>3 DEF WindowCovers
  <2>5. m \notin r.rest /\ m \notin r.page \ P
    BY <1>1, <1>2, <2>1, <2>3 DEF Before
  <2> QED
    BY <2>4, <2>5 DEF Ahead
<1> QED
  BY <1>4, <1>5 DEF CursorCovers, worldVars, Runs

LEMMA WrittenTop ==
  ASSUME CollectInv, NEW r \in Runs, RunCovers(r), r.pc = "write",
         NEW P \in Accepted(r), recorded' = recorded \cup P, UNCHANGED <<worldVars, sync>>,
         dropped \subseteq dropped'
  PROVE  \E top \in Times \cup {None} :
           /\ top = Newest(r.top, P)
           /\ CursorCovers(top, r.from)'
           /\ r.kind = "document" /\ top # None => top = 0
<1>0. PICK top : top = Newest(r.top, P)
  OBVIOUS
<1>1. r.top \in Times \cup {None} /\ r.from \in Times /\ CursorCovers(r.top, r.from)
  BY DEF Runs, RunCovers
<1>2. CursorCovers(r.top, r.from)'
  BY <1>1, SameWorld, CursorLater
<1>3. P \subseteq r.page
  BY AcceptedFacts
<1>4. CASE r.kind = "document"
  <2>1. \A i \in P : TimeOf(i) = 0 /\ TimeOf(i) \in Times
    BY <1>3, <1>4, CollectNumbers DEF RunCovers, FolderCovers, Ahead, TimeOf
  <2>2. top \in Times \cup {None} /\ (top # None => top = 0)
    BY <1>0, <1>1, <1>4, <2>1, NewestFacts DEF RunCovers, FolderCovers
  <2>3. CursorCovers(0, r.from)'
    <3>1. /\ now' \in Times /\ Times \subseteq Nat /\ r.from \in Times
          /\ created' \in [Messages -> Times \cup {None}]
      BY <1>1, CollectNumbers DEF CollectInv, CollectorsTypeOK, worldVars
    <3>2. \A m \in Messages : created'[m] # None => created'[m] \in Nat
      BY <3>1
    <3> QED
      BY <3>1, <3>2 DEF CursorCovers
  <2> QED
    BY <1>0, <2>2, <2>3 DEF CursorCovers
<1>5. CASE r.kind # "document"
  <2>1. r.kind = "message"
    BY <1>5 DEF Runs, Kinds
  <2>2. \A i \in P : /\ TimeOf(i) = created[i] /\ created[i] \in Times
                    /\ \A c : c = created[i] => CursorCovers(c, r.from)'
    BY <1>3, <2>1, WindowCursor DEF RunCovers, WindowCovers, Ahead, TimeOf
  <2>3. top \in Times \cup {None} /\ (top # None => top = r.top \/ \E i \in P : top = created[i])
    BY <1>0, <1>1, <2>2, NewestFacts
  <2>4. CASE top = None
    BY <1>0, <1>5, <2>4 DEF CursorCovers
  <2>5. CASE top = r.top
    BY <1>0, <1>2, <1>5, <2>3, <2>5
  <2>6. CASE \E i \in P : top = created[i]
    BY <1>0, <1>5, <2>2, <2>3, <2>6
  <2> QED
    BY <2>3, <2>4, <2>5, <2>6
<1> QED
  BY <1>4, <1>5

LEMMA WritePageStep ==
  ASSUME CollectInv, NEW t \in Collecting, WritePage(t)
  PROVE  CollectInv'
<1>1. PICK r \in Runs : r = run[t] /\ RunCovers(r) /\ r.pc = "write"
  BY RunFacts DEF WritePage, In
<1>2. PICK P \in Accepted(r) :
        \E after, q :
          /\ after = [r EXCEPT !.page = {}, !.items = @ + Cardinality(P), !.top = Newest(@, P)]
          /\ q = [after EXCEPT !.pc = IF ShouldStopLoop(after) THEN "mark" ELSE "request"]
          /\ recorded' = recorded \cup P
          /\ dropped' = dropped \cup ((r.page \ P) \cap Documents)
          /\ Become(t, q)
  BY <1>1 DEF WritePage, Store
<1>3. PICK after, q :
        /\ after = [r EXCEPT !.page = {}, !.items = @ + Cardinality(P), !.top = Newest(@, P)]
        /\ q = [after EXCEPT !.pc = IF ShouldStopLoop(after) THEN "mark" ELSE "request"]
        /\ recorded' = recorded \cup P
        /\ dropped' = dropped \cup ((r.page \ P) \cap Documents)
        /\ Become(t, q)
  BY <1>2
<1>4. PICK top \in Times \cup {None} :
        /\ top = Newest(r.top, P)
        /\ CursorCovers(top, r.from)'
        /\ r.kind = "document" /\ top # None => top = 0
  BY <1>1, <1>3, WrittenTop DEF WritePage
<1>5. /\ P \subseteq r.page /\ P \in SUBSET Items /\ r.items + Cardinality(P) \in 0..MaxItemsPerRun
      /\ P = r.page \/ r.items + Cardinality(P) = MaxItemsPerRun
  BY AcceptedFacts
<1>6. /\ after = [r EXCEPT !.page = {}, !.items = r.items + Cardinality(P), !.top = top]
      /\ after \in Runs
  BY <1>3, <1>4, <1>5 DEF Runs
<1>7. q \in Runs
  BY <1>3, <1>6 DEF Runs, Places
<1>8. /\ q.pc = IF ShouldStopLoop(after) THEN "mark" ELSE "request"
      /\ q.page = {} /\ q.rest = r.rest /\ q.seen = r.seen /\ q.top = top /\ q.from = r.from
      /\ q.kind = r.kind /\ q.pages = after.pages
      /\ after.items = r.items + Cardinality(P) /\ after.pages \in 0..MaxPagesPerRun
  BY <1>3, <1>6 DEF Runs
<1>9. q.pc = "request" => q.pages < MaxPagesPerRun /\ P = r.page
  BY <1>5, <1>8, CollectNumbers DEF ShouldStopLoop, CanRequestNextPage, CanAcceptItem
<1>10. StateCovers(q.seen)'
  BY <1>1, <1>3, <1>8, SameWorld, StateLater DEF RunCovers, Runs, WritePage
<1>11. Ahead(q) = r.rest /\ Ahead(r) = r.rest \cup r.page
  BY <1>8 DEF Ahead
<1>12. ASSUME r.kind = "document"
       PROVE  FolderCovers(q)'
  <2>1. FolderCovers(r)
    BY <1>1, <1>12 DEF RunCovers
  <2> QED
    BY <1>3, <1>4, <1>5, <1>8, <1>11, <1>12, <2>1 DEF FolderCovers, Ahead
<1>13. ASSUME r.kind # "document"
       PROVE  WindowCovers(q)'
  <2>1. WindowCovers(r) /\ UNCHANGED created
    BY <1>1, <1>13 DEF RunCovers, WritePage, worldVars
  <2>2. q.pc \in {"request", "write"} => Ahead(r) \cup recorded \subseteq Ahead(q) \cup recorded'
    BY <1>3, <1>8, <1>9, <1>11
  <2>3. Ahead(q) \subseteq Ahead(r)
    BY <1>11
  <2> QED
    BY <1>1, <1>8, <2>1, <2>2, <2>3 DEF WindowCovers, Ahead
<1>14. RunCovers(q)'
  BY <1>4, <1>8, <1>9, <1>10, <1>12, <1>13, CollectNumbers DEF RunCovers
<1>15. recorded' \subseteq Items /\ dropped' \subseteq Documents
  BY <1>3, <1>5 DEF CollectInv, CollectorsTypeOK
<1> QED
  BY <1>3, <1>7, <1>14, <1>15, RunStep DEF WritePage, CollectInv, CollectorsTypeOK

LEMMA SaveStateStep ==
  ASSUME CollectInv, NEW t \in Collecting, SaveState(t)
  PROVE  CollectInv'
<1>1. PICK r \in Runs : r = run[t] /\ RunCovers(r) /\ r.page = {}
  BY RunFacts DEF SaveState, In, RunCovers
<1>2. PICK s : s = IF r.ok THEN SuccessState(r) ELSE FailureState(r)
  OBVIOUS
<1>3. sync' = [sync EXCEPT ![r.kind] = s]
  BY <1>1, <1>2 DEF SaveState
<1>4. /\ r.seen \in SyncStates /\ r.top \in Times \cup {None} /\ r.from \in Times
      /\ r.rest \subseteq Items /\ r.kind \in Kinds
      /\ StateCovers(r.seen) /\ CursorCovers(r.top, r.from)
  BY <1>1 DEF Runs, RunCovers
<1>5. SuccessState(r) \in SyncStates /\ StateCovers(SuccessState(r))
  <2> DEFINE next == IF r.kind = "document" THEN NextToken(r) ELSE None
  <2>1. next \in Tokens \cup {None} /\ TokenCovers(next)
    BY <1>1 DEF NextToken, Tokens, TokenCovers, RunCovers, FolderCovers, Ahead
  <2>2. /\ CursorOf(r) \in Times \cup {None}
        /\ CursorCovers(CursorOf(r), IF r.top = None THEN r.seen.from ELSE r.from)
    BY <1>4 DEF CursorOf, StateCovers, SyncStates
  <2>3. SuccessState(r) = [cursor |-> CursorOf(r), next |-> next,
                           from |-> IF r.top = None THEN r.seen.from ELSE r.from]
    BY DEF SuccessState
  <2> QED
    BY <1>4, <2>1, <2>2, <2>3 DEF StateCovers, SyncStates
<1>6. s \in SyncStates /\ StateCovers(s)
  BY <1>2, <1>4, <1>5 DEF FailureState
<1>7. Later
  BY SameWorld DEF SaveState
<1>8. PICK q \in Runs \cup {None} : Become(t, q) /\ (q # None => RunCovers(q))
  BY AfterRunFacts DEF SaveState
<1>9. CollectorsTypeOK'
  <2>1. sync' \in [Kinds -> SyncStates]
    BY <1>3, <1>6 DEF CollectInv, CollectorsTypeOK
  <2>2. run' \in [Collecting -> Runs \cup {None}]
    BY <1>8 DEF Become, CollectInv, CollectorsTypeOK
  <2> QED
    BY <2>1, <2>2 DEF SaveState, CollectInv, CollectorsTypeOK, worldVars
<1>10. PostedInOrder'
  BY DEF SaveState, CollectInv, PostedInOrder, worldVars
<1>11. ASSUME NEW k \in Kinds
       PROVE  StateCovers(sync[k])'
  <2>1. PICK old \in SyncStates : old = sync'[k] /\ StateCovers(old)
    BY <1>3, <1>6 DEF CollectInv, CollectorsTypeOK, ResumeCovers
  <2> QED
    BY <1>7, <2>1, StateLater
<1>12. ASSUME NEW u \in Collecting, run'[u] # None
       PROVE  RunCovers(run[u])'
  <2>1. PICK p \in Runs : p = run'[u] /\ RunCovers(p)
    BY <1>8, <1>12, RunFacts DEF Become, CollectInv, CollectorsTypeOK
  <2> QED
    BY <1>7, <2>1, RunLater
<1> QED
  BY <1>9, <1>10, <1>11, <1>12 DEF CollectInv, ResumeCovers

LEMMA PartialFacts ==
  ASSUME CollectInv, NEW t \in Collecting, NEW P \in Partial(t)
  PROVE  P \subseteq Items
<1>1. CASE In(t, "write")
  BY <1>1, RunFacts DEF Partial, Beginnings, In, Runs
<1>2. CASE ~In(t, "write")
  BY <1>2 DEF Partial
<1> QED
  BY <1>1, <1>2

LEMMA CollectRaisesStep ==
  ASSUME CollectInv, NEW t \in Collecting, CollectRaises(t)
  PROVE  CollectInv'
<1>1. PICK q \in Runs \cup {None} : Become(t, q) /\ (q # None => RunCovers(q))
  BY AfterRunFacts DEF CollectRaises
<1>2. recorded \subseteq recorded' /\ recorded' \subseteq Items
  BY PartialFacts DEF CollectRaises, Store, CollectInv, CollectorsTypeOK
<1> QED
  BY <1>1, <1>2, BeginStep, FailureCount DEF CollectRaises

LEMMA RestartStep ==
  ASSUME CollectInv, Restart
  PROVE  CollectInv'
<1>1. recorded \subseteq recorded' /\ recorded' \subseteq Items
  BY PartialFacts DEF Restart, Store, Collecting, CollectInv, CollectorsTypeOK
<1>2. Later
  BY <1>1, SameWorld DEF Restart
<1>3. CollectorsTypeOK' /\ PostedInOrder'
  BY <1>1, FailureCount
     DEF Restart, CollectInv, CollectorsTypeOK, PostedInOrder, worldVars
<1>4. ASSUME NEW k \in Kinds
      PROVE  StateCovers(sync[k])'
  <2>1. PICK s \in SyncStates : s = sync[k] /\ s = sync'[k] /\ StateCovers(s)
    BY DEF Restart, CollectInv, CollectorsTypeOK, ResumeCovers
  <2> QED
    BY <1>2, <2>1, StateLater
<1> QED
  BY <1>3, <1>4 DEF Restart, CollectInv, ResumeCovers

\* Feishu and the clock leave every file and every collection alone.
LEMMA WorldStep ==
  ASSUME CollectInv, Later, PostedInOrder', created' \in [Messages -> Times \cup {None}],
         UNCHANGED <<recorded, sync, run, failures, dropped>>
  PROVE  CollectInv'
<1>1. CollectorsTypeOK'
  BY DEF CollectInv, CollectorsTypeOK, Later
<1>2. ASSUME NEW k \in Kinds
      PROVE  StateCovers(sync[k])'
  <2>1. PICK s \in SyncStates : s = sync[k] /\ s = sync'[k] /\ StateCovers(s)
    BY DEF CollectInv, CollectorsTypeOK, ResumeCovers
  <2> QED
    BY <2>1, StateLater
<1>3. ASSUME NEW u \in Collecting, run'[u] # None
      PROVE  RunCovers(run[u])'
  <2>1. PICK r \in Runs : r = run[u] /\ r = run'[u] /\ RunCovers(r)
    BY <1>3, RunFacts
  <2> QED
    BY <2>1, RunLater
<1> QED
  BY <1>1, <1>2, <1>3 DEF CollectInv, ResumeCovers

LEMMA PostStep ==
  ASSUME CollectInv, NEW m \in Messages, Post(m)
  PROVE  CollectInv'
<1>1. /\ now \in Times /\ now' = now /\ created \in [Messages -> Times \cup {None}]
      /\ Times \subseteq Nat /\ Messages \subseteq Nat /\ PostedInOrder
      /\ created' = [created EXCEPT ![m] = now] /\ created[m] = None
      /\ \A n \in Messages : n < m => created[n] # None
  BY CollectNumbers DEF Post, CollectInv, CollectorsTypeOK
<1>2. \A n \in Messages : m < n => created[n] = None
  BY <1>1 DEF PostedInOrder
<1>3. Later
  BY <1>1, <1>2 DEF Later, Post
<1>4. PostedInOrder'
  <2> SUFFICES ASSUME NEW k \in Messages, created'[k] # None
               PROVE  /\ created'[k] <= now'
                      /\ \A n \in Messages :
                           n < k => created'[n] # None /\ created'[n] <= created'[k]
    BY DEF PostedInOrder
  <2>1. CASE k = m
    <3>1. created'[k] = now /\ \A n \in Messages : n < k => created'[n] = created[n]
      BY <1>1, <2>1
    <3> QED
      BY <1>1, <2>1, <3>1 DEF PostedInOrder
  <2>2. CASE k # m
    <3>1. created'[k] = created[k]
      BY <1>1, <2>2
    <3>2. \A n \in Messages : n < k => created'[n] = created[n]
      BY <1>1, <2>2, <3>1 DEF PostedInOrder
    <3> QED
      BY <1>1, <3>1, <3>2 DEF PostedInOrder
  <2> QED
    BY <2>1, <2>2
<1> QED
  BY <1>1, <1>3, <1>4, WorldStep DEF Post

LEMMA TimeStep ==
  ASSUME CollectInv, TimePasses
  PROVE  CollectInv'
<1>1. /\ now \in Nat /\ now' = now + 1 /\ now' \in Times /\ created' = created
      /\ created \in [Messages -> Times \cup {None}] /\ Times \subseteq Nat
  BY CollectNumbers DEF TimePasses, CollectInv, CollectorsTypeOK, Times
<1>2. Later
  BY <1>1 DEF Later, TimePasses
<1>3. \A m \in Messages : created[m] # None => created[m] \in Nat /\ created[m] <= now
  BY <1>1 DEF PostedInOrder, CollectInv
<1>4. PostedInOrder'
  BY <1>1, <1>3 DEF PostedInOrder, CollectInv
<1> QED
  BY <1>1, <1>2, <1>4, WorldStep DEF TimePasses

LEMMA CollectorsStart == CollectorsInit => CollectInv
<1> SUFFICES ASSUME CollectorsInit
             PROVE  CollectInv
  OBVIOUS
<1>1. CollectorsTypeOK
  <2>1. NoState \in SyncStates /\ 1 \in Times /\ 0 \in 0..MaxFailures
    BY CollectNumbers, CollectorsAssumption DEF NoState, SyncStates, Times
  <2> QED
    BY <2>1 DEF CollectorsInit, CollectorsTypeOK
<1>2. PostedInOrder
  BY DEF CollectorsInit, PostedInOrder
<1>3. ResumeCovers
  BY DEF CollectorsInit, ResumeCovers, StateCovers, CursorCovers, TokenCovers, NoState
<1> QED
  BY <1>1, <1>2, <1>3 DEF CollectorsInit, CollectInv

LEMMA CollectorsStep ==
  ASSUME CollectInv, [CollectorsNext]_collectVars
  PROVE  CollectInv'
<1>1. CASE UNCHANGED collectVars
  BY <1>1
     DEF CollectInv, CollectorsTypeOK, PostedInOrder, ResumeCovers, StateCovers,
         CursorCovers,
     TokenCovers, RunCovers, FolderCovers, WindowCovers, Ahead, collectVars, worldVars
<1>2. ASSUME NEW t \in Collecting, Collect(t)
      PROVE  CollectInv'
  BY <1>2, RequestPageStep, RequestFailsStep, WritePageStep, ReadStateStep,
     SaveStateStep,
     CollectRaisesStep DEF Collect
<1> QED
  BY <1>1, <1>2, StartTickStep, ConsoleStep, RestartStep, PostStep, TimeStep
     DEF CollectorsNext

(* Whatever the folder and the chat hold, and for any page size, budgets,   *)
(* window and number of failures and restarts, with the tick and the        *)
(* console collecting at once: where the next collection resumes, and what  *)
(* the cursor of the messages promises, is covered by records, except       *)
(* behind a page that was cut at the item budget (SaveState: mark_success   *)
(* and mark_failure of a state that another collection may have replaced).  *)
THEOREM CollectionsCover == CollectorsSpec => []CollectInv
<1>1. CollectInv /\ [CollectorsNext]_collectVars => CollectInv'
  BY CollectorsStep
<1> QED
  BY <1>1, CollectorsStart, PTL DEF CollectorsSpec

----------------------------------------------------------------------------
(* Progress of a collection *)

LEMMA PlaceOrder ==
  /\ PlacesLeft("mark") < PlacesLeft("request")
  /\ PlacesLeft("request") < PlacesLeft("write")
  /\ PlacesLeft("mark") < PlacesLeft("write")
  /\ PlacesLeft("save") < PlacesLeft("mark")
BY DEF PlacesLeft

\* A collection that ends makes room for the documents of the tick, if any.
LEMMA EndAdvances ==
  ASSUME CollectInv, NEW t \in Collecting, run[t] # None, Become(t, AfterRun(t))
  PROVE  CollectionAdvances(t)
<1>1. run'[t] = AfterRun(t)
  BY DEF CollectInv, CollectorsTypeOK, Become
<1>2. DocumentRun.kind = "document"
  BY DEF DocumentRun, NewRun
<1> QED
  BY <1>1, <1>2 DEF CollectionAdvances, AfterRun

\* A step within a collection takes the next page or the next place.
LEMMA PlaceAdvances ==
  ASSUME CollectInv, NEW t \in Collecting, NEW r, NEW q, r = run[t], Become(t, q),
         q.kind = r.kind,
         \/ q.pages = r.pages + 1
         \/ q.pages = r.pages /\ PlacesLeft(q.pc) < PlacesLeft(r.pc)
  PROVE  CollectionAdvances(t)
<1>1. run'[t] = q
  BY DEF CollectInv, CollectorsTypeOK, Become
<1> QED
  BY <1>1 DEF CollectionAdvances

\* Every step of a collection is one of those CollectionAdvances allows.
LEMMA OwnStepOfCollection ==
  ASSUME CollectInv, NEW t \in Collecting, Collect(t), run[t] # None
  PROVE  CollectionAdvances(t)
<1>1. PICK r \in Runs : r = run[t]
  BY RunFacts
<1>2. CASE RequestPage(t)
  <2>1. PICK P, q :
          /\ q = [r EXCEPT !.pc = "write", !.pages = @ + 1, !.page = P, !.rest = @ \ P]
          /\ Become(t, q)
    BY <1>1, <1>2 DEF RequestPage
  <2>2. q.kind = r.kind /\ q.pages = r.pages + 1
    BY <2>1 DEF Runs
  <2> QED
    BY <1>1, <2>1, <2>2, PlaceAdvances
<1>3. CASE RequestFails(t)
  <2>1. PICK q : q = [r EXCEPT !.pc = "mark", !.ok = FALSE] /\ Become(t, q)
    BY <1>1, <1>3 DEF RequestFails
  <2>2. q.kind = r.kind /\ q.pages = r.pages /\ q.pc = "mark" /\ r.pc = "request"
    BY <1>1, <1>3, <2>1 DEF Runs, RequestFails, In
  <2> QED
    BY <1>1, <2>1, <2>2, PlaceOrder, PlaceAdvances
<1>4. CASE WritePage(t)
  <2>1. PICK P, after, q :
          /\ after = [r EXCEPT !.page = {}, !.items = @ + Cardinality(P), !.top = Newest(@, P)]
          /\ q = [after EXCEPT !.pc = IF ShouldStopLoop(after) THEN "mark" ELSE "request"]
          /\ Become(t, q)
    BY <1>1, <1>4 DEF WritePage
  <2>2. q.kind = r.kind /\ q.pages = r.pages /\ q.pc \in {"mark", "request"}
    <3>1. /\ after.kind = r.kind /\ after.pages = r.pages
          /\ {"kind", "pages", "pc"} \subseteq DOMAIN after
      BY <2>1 DEF Runs
    <3> QED
      BY <2>1, <3>1
  <2>3. r.pc = "write"
    BY <1>1, <1>4 DEF WritePage, In
  <2> QED
    BY <1>1, <2>1, <2>2, <2>3, PlaceOrder, PlaceAdvances
<1>5. CASE ReadState(t)
  <2>1. PICK s, q : q = [r EXCEPT !.pc = "save", !.seen = s] /\ Become(t, q)
    BY <1>1, <1>5 DEF ReadState
  <2>2. q.kind = r.kind /\ q.pages = r.pages /\ q.pc = "save" /\ r.pc = "mark"
    BY <1>1, <1>5, <2>1 DEF Runs, ReadState, In
  <2> QED
    BY <1>1, <2>1, <2>2, PlaceOrder, PlaceAdvances
<1>6. CASE SaveState(t) \/ CollectRaises(t)
  BY <1>6, EndAdvances DEF SaveState, CollectRaises
<1> QED
  BY <1>2, <1>3, <1>4, <1>5, <1>6 DEF Collect

LEMMA OthersLeaveCollection ==
  ASSUME CollectInv, NEW t \in Collecting, NEW u \in Collecting, u # t, Collect(u)
  PROVE  run'[t] = run[t]
<1>0. run \in [Collecting -> Runs \cup {None}]
  BY DEF CollectInv, CollectorsTypeOK
<1>1. ASSUME NEW r, Become(u, r)
      PROVE  run'[t] = run[t]
  BY <1>0, <1>1 DEF Become
<1>2. CASE RequestPage(u) \/ RequestFails(u) \/ ReadState(u)
  BY <1>1, <1>2 DEF RequestPage, RequestFails, ReadState
<1>3. CASE WritePage(u)
  BY <1>1, <1>3 DEF WritePage
<1>4. CASE SaveState(u) \/ CollectRaises(u)
  BY <1>1, <1>4 DEF SaveState, CollectRaises
<1> QED
  BY <1>2, <1>3, <1>4 DEF Collect

\* A collection requests at most max_pages_per_run pages and then ends; a
\* failure ends it earlier, and the other thread does not start it over
\* (should_stop_loop).
THEOREM CollectionsOnlyAdvance == CollectorsSpec => CollectionsAdvance
<1>1. ASSUME CollectInv, CollectorsNext, NEW t \in Collecting, run[t] # None, ~Collect(t)
      PROVE  CollectionAdvances(t) \/ run'[t] = run[t]
  <2>1. CASE StartTick \/ ConsoleCommand
    <3>1. PICK u \in Collecting : \E r : run[u] = None /\ Become(u, r)
      BY <2>1 DEF StartTick, ConsoleCommand, Collecting
    <3> QED
      BY <1>1, <3>1 DEF Become, CollectInv, CollectorsTypeOK
  <2>2. CASE Restart
    <3>1. run'[t] = None
      BY <2>2 DEF Restart
    <3> QED
      BY <3>1 DEF CollectionAdvances
  <2>3. ASSUME NEW u \in Collecting, Collect(u)
        PROVE  run'[t] = run[t]
    BY <1>1, <2>3, OthersLeaveCollection
  <2>4. CASE TimePasses \/ \E m \in Messages : Post(m)
    BY <2>4 DEF TimePasses, Post
  <2> QED
    BY <1>1, <2>1, <2>2, <2>3, <2>4 DEF CollectorsNext
<1>2. CollectInv /\ [CollectorsNext]_collectVars =>
        [\A t \in Collecting : run[t] # None =>
           \/ CollectionAdvances(t)
           \/ ~Collect(t) /\ run'[t] = run[t]]_collectVars
  BY <1>1, OwnStepOfCollection
<1> QED
  BY <1>2, CollectionsCover, PTL DEF CollectorsSpec, CollectionsAdvance
=============================================================================
