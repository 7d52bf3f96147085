----------------------------- MODULE UserTokens -----------------------------
(***************************************************************************)
(* The owner's OAuth grant and the file .env that keeps it (feishu/        *)
(* oauth.py, feishu/user_token_provider.py, config/env.py).                *)
(*                                                                         *)
(* Feishu accepts a refresh token once: a refresh replaces it.  The        *)
(* application has no single copy of it: every service and every tool call *)
(* holds an EnvConfig of its own, loaded from .env, and a refresh updates  *)
(* .env and the one config it was made with.  Refreshes exclude each other *)
(* (_REFRESH_LOCK); the writes of .env, which read the file, change some   *)
(* keys and write all of it, exclude nothing.                              *)
(*                                                                         *)
(* Tokens are numbered as Feishu issues them; 0 is no token.               *)
(***************************************************************************)
EXTENDS Integers

CONSTANTS
  Tools,       \* agent tool calls: each loads .env before it calls Feishu
  Proactive,   \* the proactive service, which loaded .env at its start
  OAuth,       \* the background thread of an /oauth flow
  Bind,        \* the listener thread in _handle_bind_request
  NoCaller,
  NoEnv,
  MaxGrants,   \* bound on the tokens Feishu issues
  MaxCrashes

Callers == Tools \cup {Proactive}
Writers == Callers \cup {OAuth, Bind}

ASSUME TokensAssumption ==
  /\ Proactive \notin Tools
  /\ OAuth \notin Callers
  /\ Bind \notin Callers \cup {OAuth}
  /\ NoCaller \notin Writers
  /\ MaxGrants \in Nat
  /\ MaxCrashes \in Nat

Tokens == 0..MaxGrants
EnvFile == [token : Tokens, bound : BOOLEAN]

ASSUME NoEnvAssumption == NoEnv \notin EnvFile

VARIABLES
  issued,     \* the last token Feishu issued
  accepted,   \* the tokens Feishu accepts in a refresh
  env,        \* the file .env
  cfg,        \* the token in the config of each caller
  pc,         \* phase of each thread
  got,        \* the token a thread has received and not stored yet
  buf,        \* the copy of .env a thread has read and not written yet
  lock,       \* the holder of _REFRESH_LOCK
  bindDone,   \* history: /bind was confirmed to the user
  overlap,    \* history: .env was written between a read and its write
  lost,       \* history: a token was received, or sent, and never stored
  crashes

vars == <<issued, accepted, env, cfg, pc, got, buf, lock,
          bindDone, overlap, lost, crashes>>

Init ==
  /\ issued = 0
  /\ accepted = {}
  /\ env = [token |-> 0, bound |-> FALSE]
  /\ cfg = [c \in Callers |-> 0]
  /\ pc = [w \in Writers |-> "idle"]
  /\ got = [w \in Writers |-> 0]
  /\ buf = [w \in Writers |-> NoEnv]
  /\ lock = NoCaller
  /\ bindDone = FALSE
  /\ overlap = FALSE
  /\ lost = FALSE
  /\ crashes = 0

At(w, phase) == pc[w] = phase
Goto(w, phase) == pc' = [pc EXCEPT ![w] = phase]

\* Threads with a token that .env does not have yet.
Storing == {w \in Writers : got[w] # 0 /\ ~At(w, "apply")}

history == <<bindDone, overlap, lost, crashes>>

----------------------------------------------------------------------------
\* save_env_values: read the file, replace some keys, write the file

ReadEnv(w) ==
  /\ At(w, "read env")
  /\ buf' = [buf EXCEPT ![w] = env]
  /\ Goto(w, "write env")
  /\ UNCHANGED <<issued, accepted, env, cfg, got, lock, history>>

WriteBack(w, file) ==
  /\ At(w, "write env")
  /\ env' = file
  /\ buf' = [buf EXCEPT ![w] = NoEnv]
  /\ overlap' = (overlap \/ \E v \in Writers \ {w} : buf[v] # NoEnv)

WriteToken(w) == WriteBack(w, [buf[w] EXCEPT !.token = got[w]])

----------------------------------------------------------------------------
\* A request of a caller: FeishuUserRequestClient, FeishuUserTokenProvider

BeginCall(c) ==
  /\ At(c, "idle")
  /\ cfg' = IF c \in Tools THEN [cfg EXCEPT ![c] = env.token] ELSE cfg
  /\ Goto(c, "check")
  /\ UNCHANGED <<issued, accepted, env, got, buf, lock, history>>

\* The token is not near its expires_at, or there is none: "please send
\* /oauth".  Time is not modelled: a token may expire at any moment.
EndCall(c) ==
  /\ At(c, "check")
  /\ Goto(c, "idle")
  /\ UNCHANGED <<issued, accepted, env, cfg, got, buf, lock, history>>

\* expires_at is near, or Feishu calls the token invalid (force_refresh).
WantRefresh(c) ==
  /\ At(c, "check")
  /\ cfg[c] # 0
  /\ Goto(c, "lock")
  /\ UNCHANGED <<issued, accepted, env, cfg, got, buf, lock, history>>

\* get_token looks at expires_at again under the lock, but at that of the
\* caller's own config, which no other caller of this module writes: the answer
\* is the same.  (UserRequests has two threads that share a config.)
TakeLock(c) ==
  /\ At(c, "lock")
  /\ lock = NoCaller
  /\ lock' = c
  /\ Goto(c, "refresh")
  /\ UNCHANGED <<issued, accepted, env, cfg, got, buf, history>>

Release(c) ==
  /\ lock' = NoCaller
  /\ Goto(c, "idle")

\* Feishu issues a token in exchange for those in used (an authorisation code
\* uses none).
Issue(used) ==
  /\ issued < MaxGrants
  /\ issued' = issued + 1
  /\ accepted' = (accepted \ used) \cup {issued + 1}

Receive(w) ==
  /\ got' = [got EXCEPT ![w] = issued + 1]
  /\ Goto(w, "read env")

RefreshAccepted(c) ==
  /\ At(c, "refresh")
  /\ cfg[c] \in accepted
  /\ Issue({cfg[c]})
  /\ Receive(c)
  /\ UNCHANGED <<env, cfg, buf, lock, history>>

\* Feishu does not know the refresh token any more.
RefreshRejected(c) ==
  /\ At(c, "refresh")
  /\ cfg[c] \notin accepted
  /\ Release(c)
  /\ UNCHANGED <<issued, accepted, env, cfg, got, buf, history>>

\* No connection, or an error that is not about the token.
RefreshFails(c) ==
  /\ At(c, "refresh")
  /\ Release(c)
  /\ UNCHANGED <<issued, accepted, env, cfg, got, buf, history>>

\* Feishu refreshed, and the response did not arrive.
ResponseLost(c) ==
  /\ At(c, "refresh")
  /\ cfg[c] \in accepted
  /\ Issue({cfg[c]})
  /\ lost' = TRUE
  /\ Release(c)
  /\ UNCHANGED <<env, cfg, got, buf, bindDone, overlap, crashes>>

\* save_env_values raises: the new token is dropped.
SaveFails(c) ==
  /\ At(c, "read env")
  /\ got' = [got EXCEPT ![c] = 0]
  /\ lost' = TRUE
  /\ Release(c)
  /\ UNCHANGED <<issued, accepted, env, cfg, buf, bindDone, overlap, crashes>>

\* Mutant: the new access token is stored with the old refresh token.
PersistAccessTokenOnly(c) ==
  /\ WriteBack(c, buf[c])
  /\ Goto(c, "apply")
  /\ UNCHANGED <<issued, accepted, cfg, got, lock>>
  /\ UNCHANGED <<bindDone, lost, crashes>>

PersistRefreshedToken(c) ==
  /\ WriteToken(c)
  /\ Goto(c, "apply")
  /\ UNCHANGED <<issued, accepted, cfg, got, lock>>
  /\ UNCHANGED <<bindDone, lost, crashes>>

\* Mutant: the lock is not released.
ApplyAndKeepLock(c) ==
  /\ At(c, "apply")
  /\ cfg' = [cfg EXCEPT ![c] = got[c]]
  /\ got' = [got EXCEPT ![c] = 0]
  /\ Goto(c, "idle")
  /\ UNCHANGED <<issued, accepted, env, buf, lock, history>>

ApplyToConfig(c) ==
  /\ At(c, "apply")
  /\ cfg' = [cfg EXCEPT ![c] = got[c]]
  /\ got' = [got EXCEPT ![c] = 0]
  /\ Release(c)
  /\ UNCHANGED <<issued, accepted, env, buf, history>>

Request(c) ==
  \/ EndCall(c) \/ WantRefresh(c) \/ RefreshAccepted(c) \/ RefreshRejected(c)
  \/ RefreshFails(c) \/ ResponseLost(c) \/ SaveFails(c)
  \/ ReadEnv(c) \/ PersistRefreshedToken(c) \/ ApplyToConfig(c)

----------------------------------------------------------------------------
\* /oauth and /bind.  Both also change the config of the ingress service,
\* from which no request to Feishu takes a token.

ExchangeCode ==
  /\ At(OAuth, "idle")
  /\ Issue({})
  /\ Receive(OAuth)
  /\ UNCHANGED <<env, cfg, buf, lock, history>>

\* fetch_user_info raises after the exchange: the token is dropped.
UserInfoFails ==
  /\ At(OAuth, "read env")
  /\ got' = [got EXCEPT ![OAuth] = 0]
  /\ lost' = TRUE
  /\ Goto(OAuth, "idle")
  /\ UNCHANGED <<issued, accepted, env, cfg, buf, lock>>
  /\ UNCHANGED <<bindDone, overlap, crashes>>

PersistTokenResult ==
  /\ WriteToken(OAuth)
  /\ got' = [got EXCEPT ![OAuth] = 0]
  /\ Goto(OAuth, "idle")
  /\ UNCHANGED <<issued, accepted, cfg, lock>>
  /\ UNCHANGED <<bindDone, lost, crashes>>

BindRequest ==
  /\ At(Bind, "idle")
  /\ ~bindDone
  /\ Goto(Bind, "read env")
  /\ UNCHANGED <<issued, accepted, env, cfg, got, buf, lock, history>>

SaveBinding ==
  /\ WriteBack(Bind, [buf[Bind] EXCEPT !.bound = TRUE])
  /\ bindDone' = TRUE
  /\ Goto(Bind, "idle")
  /\ UNCHANGED <<issued, accepted, cfg, got, lock>>
  /\ UNCHANGED <<lost, crashes>>

----------------------------------------------------------------------------
\* load_env_config when the services are built again.
CrashAndRestart ==
  /\ crashes < MaxCrashes
  /\ crashes' = crashes + 1
  /\ lost' = (lost \/ Storing # {})
  /\ cfg' = [c \in Callers |-> IF c = Proactive THEN env.token ELSE 0]
  /\ pc' = [w \in Writers |-> "idle"]
  /\ got' = [w \in Writers |-> 0]
  /\ buf' = [w \in Writers |-> NoEnv]
  /\ lock' = NoCaller
  /\ UNCHANGED <<issued, accepted, env, bindDone, overlap>>

Next ==
  \/ \E c \in Callers : BeginCall(c) \/ TakeLock(c) \/ Request(c)
  \/ ExchangeCode \/ UserInfoFails \/ ReadEnv(OAuth) \/ PersistTokenResult
  \/ BindRequest \/ ReadEnv(Bind) \/ SaveBinding
  \/ CrashAndRestart

Spec == Init /\ [][Next]_vars

\* A request goes on, and a thread is not passed over for ever at the lock.
FairSpec ==
  Spec /\ \A c \in Callers : WF_vars(Request(c)) /\ SF_vars(TakeLock(c))

----------------------------------------------------------------------------
Phases == {"idle", "check", "lock", "refresh", "read env", "write env", "apply"}

TypeOK ==
  /\ issued \in Tokens
  /\ accepted \subseteq Tokens
  /\ env \in EnvFile
  /\ cfg \in [Callers -> Tokens]
  /\ pc \in [Writers -> Phases]
  /\ got \in [Writers -> Tokens]
  /\ buf \in [Writers -> EnvFile \cup {NoEnv}]
  /\ \A w \in Writers : buf[w] # NoEnv <=> At(w, "write env")
  /\ lock \in Callers \cup {NoCaller}
  /\ {bindDone, overlap, lost} \subseteq BOOLEAN
  /\ crashes \in 0..MaxCrashes

\* Once every token that was received is stored, .env has a refresh token
\* that Feishu accepts, and a confirmed binding: a restart needs neither
\* /oauth nor /bind again.  Except after two writes of .env that overlapped,
\* and after a token that was lost on its way there.
RestartFindsAll ==
  (~overlap /\ ~lost) =>
    /\ Storing = {} => (env.token \in accepted \/ issued = 0)
    /\ bindDone => env.bound

\* Types, and: the refresh lock is held by the thread that refreshes, until
\* .env and the config have the new token, and by no other, whatever fails in
\* between (user_token_provider.py, _REFRESH_LOCK).
RefreshesExclude ==
  /\ TypeOK
  /\ \A c \in Callers :
       lock = c <=> pc[c] \in {"refresh", "read env", "write env", "apply"}

\* Every request ends, whatever becomes of its refresh.
RequestsEnd == \A c \in Callers : ~At(c, "idle") ~> At(c, "idle")

=============================================================================
