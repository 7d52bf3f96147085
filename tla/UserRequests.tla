---------------------------- MODULE UserRequests ----------------------------
(***************************************************************************)
(* Requests to Feishu in the owner's name, from the call of a client down  *)
(* to the token they carry (feishu/user_client.py, user_request.py,        *)
(* user_token_provider.py, user_resource.py, the Feishu tools and          *)
(* collectors/group_candidate_discovery.py).                               *)
(*                                                                         *)
(* The ticker and the console thread of the proactive service share one    *)
(* EnvConfig; a tool call loads one of its own.  The fields of a config    *)
(* are assigned one by one by the holder of _REFRESH_LOCK, and read one by *)
(* one without it.  UserTokens has the file .env, /oauth, /bind and        *)
(* crashes; here .env is written in one step.                              *)
(*                                                                         *)
(* A grant is a number: the access and refresh token, and the expiry of    *)
(* the access token, that Feishu issued together.  0 is none.  Answers     *)
(* with only some of the three are left out.                               *)
(***************************************************************************)
EXTENDS Integers

CONSTANTS
  Walkers,     \* threads of the proactive service
  Tools,       \* threads of agent tool calls
  Shared,      \* the config of the proactive service
  Nobody,
  MaxRetries,  \* DEFAULT_USER_REQUEST_MAX_RETRIES
  MaxPages,    \* MAX_DISCOVERY_PAGES
  MaxCalls,    \* bound on the calls of a thread
  MaxGrants,   \* bound on the grants Feishu issues
  MaxChanges,  \* bound on the tokens that age, die or are revoked
  MaxFaults    \* bound on the refreshes that end without a good answer

Threads == Walkers \cup Tools
Configs == Tools \cup {Shared}
ConfigOf(t) == IF t \in Tools THEN t ELSE Shared
Grants == 0..MaxGrants

ASSUME RequestsAssumption ==
  /\ Walkers \cap Tools = {}
  /\ Shared \notin Tools
  /\ Nobody \notin Threads
  /\ MaxPages \in Nat \ {0}
  /\ MaxGrants \in Nat \ {0}
  /\ {MaxRetries, MaxCalls, MaxChanges, MaxFaults} \subseteq Nat

VARIABLES
  issued,      \* the last grant Feishu issued
  accepted,    \* the grants whose refresh token Feishu accepts
  dead,        \* the grants whose access token Feishu rejects
  ageing,      \* the grants whose access token expires within 300 seconds
  env,         \* the grant in .env
  access, refresh, expires,  \* the three fields of each config
  lock,        \* the holder of _REFRESH_LOCK
  pc,          \* phase of each thread
  job,         \* what each thread was called for
  req,         \* its request
  spent,       \* history: the grants each config has exchanged and replaced
  calls, changes, faults

feishu == <<issued, accepted, dead, ageing>>
config == <<access, refresh, expires>>
bounds == <<changes, faults>>
vars == <<feishu, env, config, lock, pc, job, req, spent, calls, bounds>>

\* n counts the requests of a call: the page, or the part of a document.
\* tries are the sends of this round that failed; rejected is a history of
\* the access tokens Feishu has rejected for this request.
NewRequest(n) ==
  [n |-> n, round |-> 1, tries |-> 0, token |-> 0, forced |-> FALSE, rejected |-> {}]

Init ==
  /\ issued = 1
  /\ accepted = {1}
  /\ dead = {}
  /\ ageing = {}
  /\ env = 1
  /\ access = [c \in Configs |-> IF c = Shared THEN 1 ELSE 0]
  /\ refresh = access
  /\ expires = access
  /\ lock = Nobody
  /\ pc = [t \in Threads |-> "idle"]
  /\ job = [t \in Threads |-> "none"]
  /\ req = [t \in Threads |-> NewRequest(0)]
  /\ spent = [c \in Configs |-> {}]
  /\ calls = [t \in Threads |-> 0]
  /\ changes = 0
  /\ faults = 0

At(t, phase) == pc[t] = phase
Goto(t, phase) == pc' = [pc EXCEPT ![t] = phase]

AccessOf(t) == access[ConfigOf(t)]
RefreshOf(t) == refresh[ConfigOf(t)]

\* _token_needs_refresh: no expiry, or one that is near.
NeedsRefresh(t) == expires[ConfigOf(t)] \in ageing \cup {0}

----------------------------------------------------------------------------
\* What the callers make of the response to a request

StartRequest(t, n) ==
  /\ req' = [req EXCEPT ![t] = NewRequest(n)]
  /\ Goto(t, "read access")
  /\ UNCHANGED job

Return(t) ==
  /\ req' = [req EXCEPT ![t] = NewRequest(0)]
  /\ Goto(t, "idle")
  /\ job' = [job EXCEPT ![t] = "none"]

\* A page that is not the last one, within the budget of pages.
NextPage(t, status) ==
  /\ job[t] = "discover"
  /\ status = "ok"
  /\ req[t].n < MaxPages
  /\ StartRequest(t, req[t].n + 1)

EndDiscover(t) ==
  /\ job[t] = "discover"
  /\ Return(t)

\* The content, then the title, which may fail.
ReadDoc(t, status) ==
  /\ job[t] = "read_doc"
  /\ IF req[t].n = 1 /\ status = "ok" THEN StartRequest(t, 2) ELSE Return(t)

\* get_file_meta and search_drive: one request.
QueryDrive(t) ==
  /\ job[t] = "query_drive"
  /\ Return(t)

Respond(t, status) ==
  NextPage(t, status) \/ EndDiscover(t) \/ ReadDoc(t, status) \/ QueryDrive(t)

\* An exception that is no RuntimeError passes through request() and every
\* caller, up to the one that ends the call; a title is done without.
Raise(t) == Return(t)

----------------------------------------------------------------------------
\* A call

Begin(t, what) ==
  /\ At(t, "idle")
  /\ calls[t] < MaxCalls
  /\ calls' = [calls EXCEPT ![t] = @ + 1]
  /\ job' = [job EXCEPT ![t] = what]
  /\ req' = [req EXCEPT ![t] = NewRequest(1)]
  /\ Goto(t, "read access")
  /\ UNCHANGED <<feishu, env, lock, spent, bounds>>

Discover(t) ==
  /\ t \in Walkers
  /\ Begin(t, "discover")
  /\ UNCHANGED config

\* _build_client: the config of a tool call is loaded from .env.
CallTool(t) ==
  /\ t \in Tools
  /\ \E what \in {"read_doc", "query_drive"} : Begin(t, what)
  /\ access' = [access EXCEPT ![t] = env]
  /\ refresh' = [refresh EXCEPT ![t] = env]
  /\ expires' = [expires EXCEPT ![t] = env]

----------------------------------------------------------------------------
\* FeishuUserTokenProvider: get_token and force_refresh

ReadAccess(t) ==
  /\ At(t, "read access")
  /\ \/ AccessOf(t) = 0 /\ Respond(t, "failed")
     \/ /\ AccessOf(t) # 0
        /\ req' = [req EXCEPT ![t].token = AccessOf(t)]
        /\ Goto(t, "read expiry")
        /\ UNCHANGED job
  /\ UNCHANGED <<feishu, env, config, lock, spent, calls, bounds>>

\* The expiry may be of a later grant than the token.
ReadExpiry(t) ==
  /\ At(t, "read expiry")
  /\ Goto(t, IF NeedsRefresh(t) THEN "lock" ELSE "send")
  /\ UNCHANGED <<feishu, env, config, lock, job, req, spent, calls, bounds>>

\* Mutant: get_token does not look again under the lock.
TakeLockAndRefresh(t) ==
  /\ At(t, "lock")
  /\ lock = Nobody
  /\ lock' = t
  /\ Goto(t, "refresh")
  /\ UNCHANGED <<feishu, env, config, job, req, spent, calls, bounds>>

TakeLock(t) ==
  /\ At(t, "lock")
  /\ lock = Nobody
  /\ \/ /\ req[t].forced \/ AccessOf(t) = 0 \/ NeedsRefresh(t)
        /\ lock' = t
        /\ Goto(t, "refresh")
        /\ UNCHANGED req
     \/ /\ ~req[t].forced
        /\ AccessOf(t) # 0
        /\ ~NeedsRefresh(t)
        /\ req' = [req EXCEPT ![t].token = AccessOf(t)]
        /\ Goto(t, "send")
        /\ UNCHANGED lock
  /\ UNCHANGED <<feishu, env, config, job, spent, calls, bounds>>

Release == lock' = Nobody

\* get_token and force_refresh turn a RuntimeError into the same response.
RuntimeErrorOf(t) ==
  /\ Respond(t, "failed")
  /\ Release

RefreshTokenMissing(t) ==
  /\ At(t, "refresh")
  /\ RefreshOf(t) = 0
  /\ RuntimeErrorOf(t)
  /\ UNCHANGED <<feishu, env, config, spent, calls, bounds>>

Issue(t) ==
  /\ RefreshOf(t) \in accepted
  /\ issued < MaxGrants
  /\ issued' = issued + 1
  /\ accepted' = (accepted \ {RefreshOf(t)}) \cup {issued + 1}
  /\ UNCHANGED <<dead, ageing>>

RefreshAccepted(t) ==
  /\ At(t, "refresh")
  /\ Issue(t)
  /\ spent' = [spent EXCEPT ![ConfigOf(t)] = @ \cup {RefreshOf(t)}]
  /\ req' = [req EXCEPT ![t].token = issued + 1]
  /\ Goto(t, "save")
  /\ UNCHANGED <<env, config, lock, job, calls, bounds>>

RefreshRefused(t) ==
  /\ At(t, "refresh")
  /\ RefreshOf(t) \notin accepted \cup {0}
  /\ RuntimeErrorOf(t)
  /\ UNCHANGED <<feishu, env, config, spent, calls, bounds>>

Fault ==
  /\ faults < MaxFaults
  /\ faults' = faults + 1
  /\ UNCHANGED changes

\* No app_access_token, or a code that is not about the refresh token.
RefreshFails(t) ==
  /\ At(t, "refresh")
  /\ RefreshOf(t) # 0
  /\ Fault
  /\ RuntimeErrorOf(t)
  /\ UNCHANGED <<feishu, env, config, spent, calls>>

\* raise_for_status, or no connection.
RefreshBreaks(t) ==
  /\ At(t, "refresh")
  /\ RefreshOf(t) # 0
  /\ Fault
  /\ Raise(t)
  /\ Release
  /\ UNCHANGED <<feishu, env, config, spent, calls>>

\* Feishu issued a grant, and its response is lost.
ResponseLost(t) ==
  /\ At(t, "refresh")
  /\ Fault
  /\ Issue(t)
  /\ Raise(t)
  /\ Release
  /\ UNCHANGED <<env, config, spent, calls>>

\* A success without tokens, whatever has become of the one presented.
EmptyGrant(t) ==
  /\ At(t, "refresh")
  /\ RefreshOf(t) # 0
  /\ Fault
  /\ accepted' \in {accepted, accepted \ {RefreshOf(t)}}
  /\ req' = [req EXCEPT ![t].token = 0]
  /\ Goto(t, "save")
  /\ UNCHANGED <<issued, dead, ageing, env, config, lock, job, spent, calls>>

\* _upsert_env_lines leaves out blank values: the file keeps what it has.
UpsertEnv(g) == IF g = 0 THEN env ELSE g

\* _persist_refreshed_token: the file, then the fields of the config, which
\* take blank values like any others.
Save(t) ==
  /\ At(t, "save")
  /\ env' = UpsertEnv(req[t].token)
  /\ Goto(t, "set tokens")
  /\ UNCHANGED <<feishu, config, lock, job, req, spent, calls, bounds>>

\* save_env_values raises: the new grant is dropped.
SaveFails(t) ==
  /\ At(t, "save")
  /\ Fault
  /\ spent' = [spent EXCEPT ![ConfigOf(t)] = @ \ {RefreshOf(t)}]
  /\ Raise(t)
  /\ Release
  /\ UNCHANGED <<feishu, env, config, calls>>

\* The refresh token is only read under the lock: it changes with the access
\* token here.
SetTokens(t) ==
  /\ At(t, "set tokens")
  /\ access' = [access EXCEPT ![ConfigOf(t)] = req[t].token]
  /\ refresh' = [refresh EXCEPT ![ConfigOf(t)] = req[t].token]
  /\ Goto(t, "set expiry")
  /\ UNCHANGED <<feishu, env, expires, lock, job, req, spent, calls, bounds>>

\* get_token returns the new token; after force_refresh the request is made
\* again, and asks get_token.
AfterRefresh(t) ==
  /\ \/ /\ req[t].token = 0
        /\ Respond(t, "failed")
     \/ /\ req[t].token # 0
        /\ req' = [req EXCEPT ![t].forced = FALSE]
        /\ Goto(t, IF req[t].forced THEN "read access" ELSE "send")
        /\ UNCHANGED job

SetExpiry(t) ==
  /\ At(t, "set expiry")
  /\ expires' = [expires EXCEPT ![ConfigOf(t)] = req[t].token]
  /\ AfterRefresh(t)
  /\ Release
  /\ UNCHANGED <<feishu, env, access, refresh, spent, calls, bounds>>

----------------------------------------------------------------------------
\* FeishuUserRequestClient: _request_with_retries

Answered(t, status) ==
  /\ At(t, "send")
  /\ Respond(t, status)
  /\ UNCHANGED <<feishu, env, config, lock, spent, calls, bounds>>

\* _response_from_body; failed stands for every status that is not sent again:
\* permission_denied, not_found, api_error and invalid_response.
SendSettles(t) ==
  /\ req[t].token \notin dead
  /\ \E status \in {"ok", "failed"} : Answered(t, status)

\* timeout, transient_error and rate_limited: sent again at once, without a
\* pause, MaxRetries times.
SendAgain(t) ==
  /\ At(t, "send")
  /\ req[t].tries < MaxRetries
  /\ req' = [req EXCEPT ![t].tries = @ + 1]
  /\ UNCHANGED <<feishu, env, config, lock, pc, job, spent, calls, bounds>>

RetriesExhausted(t) ==
  /\ req[t].tries = MaxRetries
  /\ Answered(t, "failed")

\* Mutant: the second round asks get_token, as the first did.
AskTokenAgain(t) ==
  /\ At(t, "send")
  /\ req[t].token \in dead
  /\ req[t].round = 1
  /\ req' = [req EXCEPT ![t] = [@ EXCEPT !.round = 2, !.tries = 0,
                                         !.rejected = {req[t].token}]]
  /\ Goto(t, "read access")
  /\ UNCHANGED <<feishu, env, config, lock, job, spent, calls, bounds>>

\* 401, or one of the codes of an invalid token: one forced refresh.
TokenInvalid(t) ==
  /\ At(t, "send")
  /\ req[t].token \in dead
  /\ req[t].round = 1
  /\ req' = [req EXCEPT ![t] = [@ EXCEPT !.round = 2, !.tries = 0, !.forced = TRUE,
                                         !.rejected = {req[t].token}]]
  /\ Goto(t, "lock")
  /\ UNCHANGED <<feishu, env, config, lock, job, spent, calls, bounds>>

TokenInvalidAgain(t) ==
  /\ req[t].token \in dead
  /\ req[t].round = 2
  /\ Answered(t, "failed")

----------------------------------------------------------------------------
\* Feishu, and time

Change ==
  /\ changes < MaxChanges
  /\ changes' = changes + 1
  /\ UNCHANGED <<env, config, lock, pc, job, req, spent, calls, faults>>

Age ==
  /\ \E g \in (1..issued) \ ageing : ageing' = ageing \cup {g}
  /\ Change
  /\ UNCHANGED <<issued, accepted, dead>>

\* Expired, revoked, or replaced.
Die ==
  /\ \E g \in (1..issued) \ dead : dead' = dead \cup {g}
  /\ Change
  /\ UNCHANGED <<issued, accepted, ageing>>

Revoke ==
  /\ \E g \in accepted : accepted' = accepted \ {g}
  /\ Change
  /\ UNCHANGED <<issued, dead, ageing>>

----------------------------------------------------------------------------
Refresh(t) ==
  \/ RefreshTokenMissing(t) \/ RefreshAccepted(t) \/ RefreshRefused(t)
  \/ RefreshFails(t) \/ RefreshBreaks(t) \/ ResponseLost(t) \/ EmptyGrant(t)
  \/ Save(t) \/ SaveFails(t) \/ SetTokens(t) \/ SetExpiry(t)

Step(t) ==
  \/ ReadAccess(t) \/ ReadExpiry(t) \/ Refresh(t)
  \/ SendSettles(t) \/ SendAgain(t) \/ RetriesExhausted(t)
  \/ TokenInvalid(t) \/ TokenInvalidAgain(t)

Next ==
  \/ \E t \in Threads : Discover(t) \/ CallTool(t) \/ TakeLock(t) \/ Step(t)
  \/ Age \/ Die \/ Revoke

Spec == Init /\ [][Next]_vars

----------------------------------------------------------------------------
Phases == {"idle", "read access", "read expiry", "lock", "refresh", "save",
           "set tokens", "set expiry", "send"}

Requests == [n : 0..(MaxPages + 2), round : 1..2, tries : 0..MaxRetries,
             token : Grants, forced : BOOLEAN, rejected : SUBSET Grants]

TypeOK ==
  /\ issued \in Grants
  /\ accepted \cup dead \cup ageing \subseteq Grants
  /\ env \in Grants
  /\ {access, refresh, expires} \subseteq [Configs -> Grants]
  /\ lock \in Threads \cup {Nobody}
  /\ pc \in [Threads -> Phases]
  /\ req \in [Threads -> Requests]
  /\ spent \in [Configs -> SUBSET Grants]

\* Refreshes exclude each other, whichever way the last one ended.
RefreshLocked ==
  \A t \in Threads :
    lock = t <=> pc[t] \in {"refresh", "save", "set tokens", "set expiry"}

\* What Feishu rejected is not sent again.
NoRejectedTokenSent ==
  \A t \in Threads : At(t, "send") => req[t].token \notin req[t].rejected \cup {0}

\* Whatever is stored or carried, Feishu has issued, and .env never loses its grant.
IssuedOnly ==
  /\ env \in 1..issued
  /\ accepted \subseteq 1..issued
  /\ \A c \in Configs : access[c] <= issued /\ spent[c] \subseteq 1..issued
  /\ \A t \in Threads : req[t].token <= issued /\ req[t].rejected \subseteq 1..issued

\* The threads that carry a new grant to the file and the config.
Carriers(phases) == {t \in Threads : pc[t] \in phases}

\* A refresh token that was exchanged for a new grant is gone from the config and
\* from .env once the grant is set and saved, and nothing brings it back.  After an
\* answer without tokens .env keeps the token presented (config/env.py:230): it has
\* been exchanged for nothing.
SpentReplaced ==
  /\ \A c \in Configs : refresh[c] \in spent[c] =>
       \E t \in Carriers({"save", "set tokens"}) : ConfigOf(t) = c /\ req[t].token # 0
  /\ \A c \in Configs : env \in spent[c] =>
       env = refresh[c] /\ \E t \in Carriers({"save"}) : ConfigOf(t) = c
  /\ \A t \in Carriers({"save", "set tokens"}), c \in Configs : req[t].token \notin spent[c]

\* A rejected access token: the forced refresh replaces it, and no later
\* refresh brings it back into the config.
RejectedPassed ==
  \A t \in Threads :
    /\ IF req[t].forced
       THEN pc[t] \in {"lock", "refresh", "save", "set tokens", "set expiry"}
       ELSE /\ AccessOf(t) \notin req[t].rejected
            /\ \A u \in Carriers({"save", "set tokens"}) : req[u].token \notin req[t].rejected
    /\ pc[t] \in {"save", "set tokens", "set expiry"} => req[t].token \notin req[t].rejected
    /\ At(t, "set expiry") => AccessOf(t) = req[t].token
    /\ At(t, "read expiry") => req[t].token \notin req[t].rejected \cup {0}

\* Types; refreshes exclude each other; and after an access token is rejected
\* the request is made again with another one, however the threads that share
\* a config read its fields while it changes (request_with_token_retry).
RequestsInv ==
  /\ TypeOK
  /\ RefreshLocked
  /\ IssuedOnly
  /\ SpentReplaced
  /\ RejectedPassed
  /\ NoRejectedTokenSent

\* Whoever comes to refresh presents a refresh token his config has not yet
\* exchanged for another, and does it only because Feishu rejected the access
\* token or it is still near its end under the lock: threads that share a
\* config and see the same expiry refresh once (get_token looks twice).
RefreshIsDue ==
  \A t \in Threads : At(t, "refresh") =>
    /\ RefreshOf(t) \notin spent[ConfigOf(t)]
    /\ req[t].forced \/ AccessOf(t) = 0 \/ NeedsRefresh(t)

\* What a request still goes through before its next send.
PhasesLeft(phase) ==
  CASE phase = "read access" -> 7 [] phase = "read expiry" -> 6
    [] phase = "lock" -> 5 [] phase = "refresh" -> 4 [] phase = "save" -> 3
    [] phase = "set tokens" -> 2 [] phase = "set expiry" -> 1 [] OTHER -> 0

\* The next page, the second round, the end of the forced refresh, the next
\* phase or the next try; each of them starts those after it anew.
RequestAdvances(t) ==
  LET r == req[t]
      s == req'[t]
  IN \/ pc'[t] = "idle"
     \/ s.n = r.n + 1
     \/ /\ s.n = r.n
        /\ \/ s.round > r.round
           \/ /\ s.round = r.round
              /\ \/ r.forced /\ ~s.forced
                 \/ /\ s.forced = r.forced
                    /\ \/ PhasesLeft(pc'[t]) < PhasesLeft(pc[t])
                       \/ pc'[t] = pc[t] /\ s.tries = r.tries + 1

\* Every step of a call brings it nearer to its end, whatever Feishu answers
\* and whatever the thread it shares a config with does meanwhile: a refresh,
\* a rejection or a retry never starts over what is bounded by TypeOK
\* (_request_with_retries, request_with_token_retry).
RequestsAdvance ==
  [][\A t \in Threads : pc[t] # "idle" =>
       \/ RequestAdvances(t)
       \/ ~TakeLock(t) /\ ~Step(t) /\ pc'[t] = pc[t] /\ req'[t] = req[t]]_vars
=============================================================================
