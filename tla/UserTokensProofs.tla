-------------------------- MODULE UserTokensProofs --------------------------
(***************************************************************************)
(* For any number of tool calls, tokens, failures and crashes: refreshes   *)
(* exclude each other, and .env keeps a refresh token that Feishu accepts  *)
(* and a confirmed binding, unless two writes of it overlapped or a token  *)
(* never reached it.                                                       *)
(***************************************************************************)
EXTENDS UserTokens, TLAPS

HoldsToken == {"read env", "write env", "apply"}

\* Who has received a token and is not done with it.
TokensHeld ==
  /\ \A c \in Callers : got[c] # 0 <=> pc[c] \in HoldsToken
  /\ got[OAuth] # 0 <=> pc[OAuth] \in {"read env", "write env"}
  /\ ~At(OAuth, "apply") /\ got[Bind] = 0

\* Neither .env, nor a copy of it, nor a config, nor a thread of W has g.
Nowhere(g, W) ==
  /\ env.token # g
  /\ \A c \in Callers : cfg[c] # g
  /\ \A v \in Writers : buf[v] # NoEnv => buf[v].token # g
  /\ \A v \in W : got[v] # g

\* A token that was not issued is nowhere.
TokensIssued ==
  \A g \in Nat : g > issued => Nowhere(g, Writers)

\* A token on its way to .env is accepted and nowhere else: nobody can
\* present it to Feishu, and no write of .env brings it in by accident.
FreshTokens ==
  \A w \in Storing : got[w] \in accepted /\ Nowhere(got[w], Writers \ {w})

\* While no writes overlapped, a copy of .env that waits to be written back
\* is up to date.
CopiesFresh ==
  ~overlap => \A w \in Writers : buf[w] # NoEnv => buf[w] = env

TokensInv ==
  /\ RefreshesExclude
  /\ TokensHeld /\ TokensIssued
  /\ FreshTokens /\ CopiesFresh
  /\ RestartFindsAll
\* The threads are distinct, and tokens are numbers.
LEMMA TokensFacts ==
  /\ Callers \subseteq Writers /\ OAuth \in Writers /\ Bind \in Writers
  /\ OAuth \notin Callers /\ Bind \notin Callers /\ Bind # OAuth
  /\ Writers = Callers \cup {OAuth, Bind}
  /\ NoCaller \notin Writers
  /\ NoEnv \notin EnvFile
  /\ Tokens \subseteq Nat /\ 0 \in Tokens
  /\ Proactive \in Callers
  /\ MaxCrashes \in Nat /\ 0 \in 0..MaxCrashes
BY TokensAssumption, NoEnvAssumption DEF Writers, Tokens, EnvFile, Callers

LEMMA NextToken ==
  ASSUME NEW n \in Tokens
  PROVE  /\ n \in Nat /\ n + 1 \in Nat /\ n + 1 > n /\ n + 1 # 0
         /\ n < MaxGrants => n + 1 \in Tokens
         /\ \A g \in Nat : g > n + 1 => g > n /\ g # n + 1
BY TokensAssumption DEF Tokens

LEMMA NextCrash ==
  ASSUME NEW n \in 0..MaxCrashes, n < MaxCrashes
  PROVE  n + 1 \in 0..MaxCrashes
BY TokensFacts

\* A thread stores a token from the time it reads .env to the end of its
\* write.
LEMMA WhoStores ==
  TokensHeld =>
    \A w \in Writers :
      w \in Storing <=> w # Bind /\ pc[w] \in {"read env", "write env"}
<1> SUFFICES ASSUME TokensHeld, NEW w \in Writers
             PROVE  w \in Storing <=> w # Bind /\ pc[w] \in {"read env", "write env"}
  OBVIOUS
<1>1. CASE w \in Callers
  BY <1>1, TokensFacts DEF TokensHeld, HoldsToken, Storing, At
<1>2. CASE w \notin Callers
  BY <1>2, TokensFacts DEF TokensHeld, Storing, At
<1> QED
  BY <1>1, <1>2

\* A step that brings no token to a new place.
LEMMA NothingSpreads ==
  ASSUME TokensInv, issued' = issued, Storing' \subseteq Storing,
         \A v \in Storing' : got'[v] = got[v] /\ got[v] \in accepted',
         \A g \in Nat \ {0} : Nowhere(g, Writers) => Nowhere(g, Writers)',
         \A g \in Nat \ {0} : \A v \in Storing' :
           Nowhere(g, Writers \ {v}) => Nowhere(g, Writers \ {v})'
  PROVE  FreshTokens' /\ TokensIssued'
<1>1. issued \in Nat
  BY TokensFacts DEF TokensInv, RefreshesExclude, TypeOK
<1>2. ASSUME NEW v \in Storing'
      PROVE  (got[v] \in accepted /\ Nowhere(got[v], Writers \ {v}))'
  <2>1. v \in Writers /\ got[v] \in Nat \ {0}
    BY TokensFacts DEF TokensInv, RefreshesExclude, TypeOK, Storing
  <2>2. Nowhere(got[v], Writers \ {v})
    BY DEF TokensInv, FreshTokens
  <2>3. PICK g \in Nat \ {0} : g = got[v]
    BY <2>1
  <2>4. Nowhere(g, Writers \ {v})'
    BY <2>2, <2>3
  <2> QED
    BY ONLY <2>3, <2>4, v \in Storing',
            \A x \in Storing' : got'[x] = got[x] /\ got[x] \in accepted' DEF Nowhere
<1>3. FreshTokens'
  BY <1>2 DEF FreshTokens
<1>4. ASSUME NEW g \in Nat, g > issued
      PROVE  Nowhere(g, Writers)'
  <2>1. g \in Nat \ {0} /\ Nowhere(g, Writers)
    BY <1>1, <1>4 DEF TokensInv, TokensIssued
  <2> QED
    BY <2>1
<1>5. TokensIssued'
  BY <1>4 DEF TokensIssued
<1> QED
  BY <1>3, <1>5

\* A step that neither receives nor stores a token.
LEMMA QuietStep ==
  ASSUME TokensInv, TokensHeld',
         UNCHANGED <<issued, accepted, env, got, buf, bindDone, overlap, lost>>,
         \A w \in Writers : w # Bind /\ pc'[w] \in {"read env", "write env"}
                              <=> w # Bind /\ pc[w] \in {"read env", "write env"},
         \A c \in Callers : cfg'[c] \in {cfg[c], env.token}
  PROVE  FreshTokens' /\ TokensIssued' /\ CopiesFresh' /\ RestartFindsAll'
<1>1. Storing' = Storing
  <2>1. (TokensHeld => \A w \in Writers : w \in Storing <=> w # Bind /\ pc[w] \in {"read env", "write env"})'
    BY WhoStores, PTL
  <2> QED
    BY <2>1, WhoStores DEF TokensInv, Storing
<1>2. ASSUME NEW g \in Nat \ {0}, NEW W \in SUBSET Writers, Nowhere(g, W)
      PROVE  Nowhere(g, W)'
  BY <1>2 DEF Nowhere
<1>3. FreshTokens' /\ TokensIssued'
  <2>1. \A v \in Storing : got[v] \in accepted
    BY DEF TokensInv, FreshTokens
  <2>2. Writers \in SUBSET Writers /\ \A v : Writers \ {v} \in SUBSET Writers
    OBVIOUS
  <2> QED
    BY <1>1, <1>2, <2>1, <2>2, NothingSpreads
<1>4. CopiesFresh' /\ RestartFindsAll'
  BY <1>1 DEF TokensInv, CopiesFresh, RestartFindsAll
<1> QED
  BY <1>3, <1>4

\* Feishu issues a token to w, in exchange for those in used.
LEMMA ReceiveStep ==
  ASSUME TokensInv,
         NEW w \in Callers \cup {OAuth}, NEW used \in SUBSET Tokens,
         w \notin Storing, Issue(used), Receive(w),
         \A u \in used : \E c \in Callers : u = cfg[c],
         UNCHANGED <<env, cfg, buf, bindDone, overlap, lost>>
  PROVE  FreshTokens' /\ TokensIssued' /\ CopiesFresh' /\ RestartFindsAll'
<1> USE DEF Issue, Receive, At, Goto
<1>0. issued \in Tokens /\ issued < MaxGrants
  BY DEF TokensInv, RefreshesExclude, TypeOK
<1>1. /\ issued \in Nat /\ issued' = issued + 1 /\ issued + 1 # 0
      /\ w \in Writers /\ got'[w] = issued + 1
      /\ \A v \in Writers \ {w} : got'[v] = got[v] /\ pc'[v] = pc[v]
      /\ pc'[w] = "read env"
  BY <1>0, NextToken, TokensFacts DEF TokensInv, RefreshesExclude, TypeOK
<1>2. Storing' = Storing \cup {w}
  <2>2. w \in Storing'
    BY ONLY <1>1 DEF Storing, At
  <2>3. ASSUME NEW v \in Writers \ {w}
        PROVE  v \in Storing' <=> v \in Storing
    BY ONLY <1>1, <2>3 DEF Storing, At
  <2> QED
    BY <2>2, <2>3 DEF Storing
<1>3. ASSUME NEW g \in Nat, NEW W \in SUBSET Writers, g # issued + 1, Nowhere(g, W)
      PROVE  Nowhere(g, W)'
  BY ONLY <1>1, <1>3, UNCHANGED <<env, cfg, buf>> DEF Nowhere
<1>4. TokensIssued'
  <2> SUFFICES ASSUME NEW g \in Nat, g > issued + 1
               PROVE  Nowhere(g, Writers)'
    BY <1>1 DEF TokensIssued
  <2>1. g > issued /\ g # issued + 1
    BY ONLY <1>0, NextToken, g \in Nat, g > issued + 1
  <2>2. Nowhere(g, Writers)
    BY <2>1 DEF TokensInv, TokensIssued
  <2> QED
    BY <1>3, <2>1, <2>2
<1>5. Nowhere(issued + 1, Writers)
  <2>1. issued + 1 \in Nat /\ issued + 1 > issued
    BY ONLY <1>0, NextToken
  <2> QED
    BY <2>1 DEF TokensInv, TokensIssued
<1>6. FreshTokens'
  <2> SUFFICES ASSUME NEW v \in Storing'
               PROVE  (got[v] \in accepted /\ Nowhere(got[v], Writers \ {v}))'
    BY DEF FreshTokens
  <2>1. CASE v = w
    <3>1. got'[v] \in accepted'
      BY ONLY <1>1, <2>1, Issue(used) DEF Issue
    <3> QED
      BY ONLY <1>1, <1>5, <2>1, <3>1, UNCHANGED <<env, cfg, buf>> DEF Nowhere
  <2>2. CASE v # w
    <3>1. v \in Storing /\ v \in Writers /\ got'[v] = got[v]
      BY <1>1, <1>2, <2>2 DEF Storing
    <3>2. got[v] \in accepted /\ Nowhere(got[v], Writers \ {v})
      BY <3>1 DEF TokensInv, FreshTokens
    <3>3. got[v] \in Nat
      BY <3>1, TokensFacts DEF TokensInv, RefreshesExclude, TypeOK
    <3>4. got[v] # issued + 1
      BY ONLY <1>5, <3>1 DEF Nowhere
    <3>5. got[v] \notin used
      BY <3>2 DEF Nowhere
    <3>6. PICK g \in Nat : g = got[v]
      BY <3>3
    <3>7. Nowhere(g, Writers \ {v})'
      BY <1>3, <3>2, <3>4, <3>6
    <3>8. got'[v] \in accepted'
      BY ONLY <3>1, <3>2, <3>5, Issue(used) DEF Issue
    <3> QED
      BY ONLY <3>1, <3>6, <3>7, <3>8 DEF Nowhere
  <2> QED
    BY <2>1, <2>2
<1>7. CopiesFresh' /\ RestartFindsAll'
  BY <1>2 DEF TokensInv, CopiesFresh, RestartFindsAll
<1> QED
  BY <1>4, <1>6, <1>7

\* w writes its token to .env.
LEMMA StoreStep ==
  ASSUME TokensInv,
         NEW w \in Callers \cup {OAuth},
         w \in Storing, WriteToken(w), Storing' = Storing \ {w},
         \A v \in Writers \ {w} : got'[v] = got[v],
         got'[w] \in {0, got[w]},
         UNCHANGED <<issued, accepted, cfg, bindDone, lost>>
  PROVE  FreshTokens' /\ TokensIssued' /\ CopiesFresh' /\ RestartFindsAll'
<1> USE DEF WriteToken, WriteBack
<1>0. w \in Writers
  BY TokensFacts
<1>1. /\ buf[w] # NoEnv /\ buf[w] \in EnvFile
      /\ env'.token = got[w] /\ env'.bound = buf[w].bound
  BY <1>0 DEF TokensInv, RefreshesExclude, TypeOK, EnvFile
<1>2. /\ \A v \in Writers \ {w} : buf'[v] = buf[v]
      /\ buf'[w] = NoEnv
  BY <1>0 DEF TokensInv, RefreshesExclude, TypeOK
<1>3. ASSUME NEW g \in Nat \ {0}, NEW W \in SUBSET Writers, w \in W, Nowhere(g, W)
      PROVE  Nowhere(g, W)'
  BY ONLY <1>0, <1>1, <1>2, <1>3, UNCHANGED cfg, got'[w] \in {0, got[w]},
          \A v \in Writers \ {w} : got'[v] = got[v] DEF Nowhere
<1>4. FreshTokens' /\ TokensIssued'
  <2>1. \A v \in Storing' : got'[v] = got[v] /\ got[v] \in accepted
    BY DEF TokensInv, FreshTokens, Storing
  <2>2. /\ Writers \in SUBSET Writers /\ w \in Writers
        /\ \A v \in Storing' : Writers \ {v} \in SUBSET Writers /\ w \in Writers \ {v}
    BY <1>0
  <2>3. Storing' \subseteq Storing
    OBVIOUS
  <2> QED
    BY ONLY <1>3, <2>1, <2>2, <2>3, NothingSpreads, TokensInv, UNCHANGED <<issued, accepted>>
<1>5. CopiesFresh'
  BY <1>2 DEF CopiesFresh
<1>6. RestartFindsAll'
  <2>1. got[w] \in accepted
    BY DEF TokensInv, FreshTokens
  <2>2. ~overlap' => ~overlap /\ buf[w] = env
    BY <1>0, <1>1 DEF TokensInv, CopiesFresh
  <2> QED
    BY ONLY <1>1, <2>1, <2>2, TokensInv, UNCHANGED <<accepted, bindDone, lost>>
       DEF TokensInv, RestartFindsAll
<1> QED
  BY <1>4, <1>5, <1>6

----------------------------------------------------------------------------
\* Each action preserves the invariant.

LEMMA BeginCallInv ==
  ASSUME NEW c \in Callers, TokensInv, BeginCall(c)
  PROVE  TokensInv'
<1> USE TokensFacts DEF BeginCall, At, Goto, history
<1>1. RefreshesExclude'
  BY DEF TokensInv, RefreshesExclude, TypeOK, Phases, EnvFile
<1>2. TokensHeld'
  BY DEF TokensInv, RefreshesExclude, TypeOK, TokensHeld, HoldsToken
<1>3. FreshTokens' /\ TokensIssued' /\ CopiesFresh' /\ RestartFindsAll'
  <2>1. /\ UNCHANGED <<issued, accepted, env, got, buf, bindDone, overlap, lost>>
        /\ \A w \in Writers : w # Bind /\ pc'[w] \in {"read env", "write env"}
                                <=> w # Bind /\ pc[w] \in {"read env", "write env"}
        /\ \A d \in Callers : cfg'[d] \in {cfg[d], env.token}
    BY DEF TokensInv, RefreshesExclude, TypeOK
  <2> QED
    BY <1>2, <2>1, QuietStep
<1> QED
  BY <1>1, <1>2, <1>3 DEF TokensInv

LEMMA TakeLockInv ==
  ASSUME NEW c \in Callers, TokensInv, TakeLock(c)
  PROVE  TokensInv'
<1> USE TokensFacts DEF TakeLock, At, Goto, history
<1>1. RefreshesExclude'
  BY DEF TokensInv, RefreshesExclude, TypeOK, Phases
<1>2. TokensHeld'
  BY DEF TokensInv, RefreshesExclude, TypeOK, TokensHeld, HoldsToken
<1>3. FreshTokens' /\ TokensIssued' /\ CopiesFresh' /\ RestartFindsAll'
  <2>1. /\ UNCHANGED <<issued, accepted, env, got, buf, bindDone, overlap, lost>>
        /\ \A w \in Writers : w # Bind /\ pc'[w] \in {"read env", "write env"}
                                <=> w # Bind /\ pc[w] \in {"read env", "write env"}
        /\ \A d \in Callers : cfg'[d] \in {cfg[d], env.token}
    BY DEF TokensInv, RefreshesExclude, TypeOK
  <2> QED
    BY <1>2, <2>1, QuietStep
<1> QED
  BY <1>1, <1>2, <1>3 DEF TokensInv

LEMMA EndCallInv ==
  ASSUME NEW c \in Callers, TokensInv, EndCall(c)
  PROVE  TokensInv'
<1> USE TokensFacts DEF EndCall, At, Goto, history
<1>1. RefreshesExclude'
  BY DEF TokensInv, RefreshesExclude, TypeOK, Phases
<1>2. TokensHeld'
  BY DEF TokensInv, RefreshesExclude, TypeOK, TokensHeld, HoldsToken
<1>3. FreshTokens' /\ TokensIssued' /\ CopiesFresh' /\ RestartFindsAll'
  <2>1. /\ UNCHANGED <<issued, accepted, env, got, buf, bindDone, overlap, lost>>
        /\ \A w \in Writers : w # Bind /\ pc'[w] \in {"read env", "write env"}
                                <=> w # Bind /\ pc[w] \in {"read env", "write env"}
        /\ \A d \in Callers : cfg'[d] \in {cfg[d], env.token}
    BY DEF TokensInv, RefreshesExclude, TypeOK
  <2> QED
    BY <1>2, <2>1, QuietStep
<1> QED
  BY <1>1, <1>2, <1>3 DEF TokensInv

LEMMA WantRefreshInv ==
  ASSUME NEW c \in Callers, TokensInv, WantRefresh(c)
  PROVE  TokensInv'
<1> USE TokensFacts DEF WantRefresh, At, Goto, history
<1>1. RefreshesExclude'
  BY DEF TokensInv, RefreshesExclude, TypeOK, Phases
<1>2. TokensHeld'
  BY DEF TokensInv, RefreshesExclude, TypeOK, TokensHeld, HoldsToken
<1>3. FreshTokens' /\ TokensIssued' /\ CopiesFresh' /\ RestartFindsAll'
  <2>1. /\ UNCHANGED <<issued, accepted, env, got, buf, bindDone, overlap, lost>>
        /\ \A w \in Writers : w # Bind /\ pc'[w] \in {"read env", "write env"}
                                <=> w # Bind /\ pc[w] \in {"read env", "write env"}
        /\ \A d \in Callers : cfg'[d] \in {cfg[d], env.token}
    BY DEF TokensInv, RefreshesExclude, TypeOK
  <2> QED
    BY <1>2, <2>1, QuietStep
<1> QED
  BY <1>1, <1>2, <1>3 DEF TokensInv

LEMMA RefreshRejectedInv ==
  ASSUME NEW c \in Callers, TokensInv, RefreshRejected(c)
  PROVE  TokensInv'
<1> USE TokensFacts DEF RefreshRejected, Release, At, Goto, history
<1>1. RefreshesExclude'
  BY DEF TokensInv, RefreshesExclude, TypeOK, Phases
<1>2. TokensHeld'
  BY DEF TokensInv, RefreshesExclude, TypeOK, TokensHeld, HoldsToken
<1>3. FreshTokens' /\ TokensIssued' /\ CopiesFresh' /\ RestartFindsAll'
  <2>1. /\ UNCHANGED <<issued, accepted, env, got, buf, bindDone, overlap, lost>>
        /\ \A w \in Writers : w # Bind /\ pc'[w] \in {"read env", "write env"}
                                <=> w # Bind /\ pc[w] \in {"read env", "write env"}
        /\ \A d \in Callers : cfg'[d] \in {cfg[d], env.token}
    BY DEF TokensInv, RefreshesExclude, TypeOK
  <2> QED
    BY <1>2, <2>1, QuietStep
<1> QED
  BY <1>1, <1>2, <1>3 DEF TokensInv

LEMMA RefreshFailsInv ==
  ASSUME NEW c \in Callers, TokensInv, RefreshFails(c)
  PROVE  TokensInv'
<1> USE TokensFacts DEF RefreshFails, Release, At, Goto, history
<1>1. RefreshesExclude'
  BY DEF TokensInv, RefreshesExclude, TypeOK, Phases
<1>2. TokensHeld'
  BY DEF TokensInv, RefreshesExclude, TypeOK, TokensHeld, HoldsToken
<1>3. FreshTokens' /\ TokensIssued' /\ CopiesFresh' /\ RestartFindsAll'
  <2>1. /\ UNCHANGED <<issued, accepted, env, got, buf, bindDone, overlap, lost>>
        /\ \A w \in Writers : w # Bind /\ pc'[w] \in {"read env", "write env"}
                                <=> w # Bind /\ pc[w] \in {"read env", "write env"}
        /\ \A d \in Callers : cfg'[d] \in {cfg[d], env.token}
    BY DEF TokensInv, RefreshesExclude, TypeOK
  <2> QED
    BY <1>2, <2>1, QuietStep
<1> QED
  BY <1>1, <1>2, <1>3 DEF TokensInv

LEMMA BindRequestInv ==
  ASSUME TokensInv, BindRequest
  PROVE  TokensInv'
<1> USE TokensFacts DEF BindRequest, At, Goto, history
<1>1. RefreshesExclude'
  BY DEF TokensInv, RefreshesExclude, TypeOK, Phases
<1>2. TokensHeld'
  BY DEF TokensInv, RefreshesExclude, TypeOK, TokensHeld, HoldsToken
<1>3. FreshTokens' /\ TokensIssued' /\ CopiesFresh' /\ RestartFindsAll'
  <2>1. /\ UNCHANGED <<issued, accepted, env, got, buf, bindDone, overlap, lost>>
        /\ \A w \in Writers : w # Bind /\ pc'[w] \in {"read env", "write env"}
                                <=> w # Bind /\ pc[w] \in {"read env", "write env"}
        /\ \A d \in Callers : cfg'[d] \in {cfg[d], env.token}
    BY DEF TokensInv, RefreshesExclude, TypeOK
  <2> QED
    BY <1>2, <2>1, QuietStep
<1> QED
  BY <1>1, <1>2, <1>3 DEF TokensInv

LEMMA RefreshAcceptedInv ==
  ASSUME NEW c \in Callers, TokensInv, RefreshAccepted(c)
  PROVE  TokensInv'
<1> USE TokensFacts DEF RefreshAccepted, Issue, Receive, At, Goto, history
<1>0. issued + 1 \in Tokens /\ issued + 1 # 0
  <2>1. issued \in Tokens /\ issued < MaxGrants
    BY DEF TokensInv, RefreshesExclude, TypeOK
  <2> QED
    BY ONLY <2>1, NextToken
<1>1. RefreshesExclude'
  BY <1>0 DEF TokensInv, RefreshesExclude, TypeOK, Phases
<1>2. TokensHeld'
  BY <1>0 DEF TokensInv, RefreshesExclude, TypeOK, TokensHeld, HoldsToken
<1>3. FreshTokens' /\ TokensIssued' /\ CopiesFresh' /\ RestartFindsAll'
  <2>1. c \notin Storing
    BY DEF TokensInv, TokensHeld, HoldsToken, Storing
  <2>2. \A u \in {cfg[c]} : \E d \in Callers : u = cfg[d]
    OBVIOUS
  <2>3. {cfg[c]} \in SUBSET Tokens
    BY DEF TokensInv, RefreshesExclude, TypeOK
  <2>4. /\ Issue({cfg[c]}) /\ Receive(c)
        /\ UNCHANGED <<env, cfg, buf, bindDone, overlap, lost>>
    OBVIOUS
  <2> HIDE DEF Issue, Receive
  <2> QED
    BY ONLY <2>1, <2>2, <2>3, <2>4, ReceiveStep, TokensInv, c \in Callers
<1> QED
  BY <1>1, <1>2, <1>3 DEF TokensInv

LEMMA ExchangeCodeInv ==
  ASSUME TokensInv, ExchangeCode
  PROVE  TokensInv'
<1> USE TokensFacts DEF ExchangeCode, Issue, Receive, At, Goto, history
<1>0. issued + 1 \in Tokens /\ issued + 1 # 0
  <2>1. issued \in Tokens /\ issued < MaxGrants
    BY DEF TokensInv, RefreshesExclude, TypeOK
  <2> QED
    BY ONLY <2>1, NextToken
<1>1. RefreshesExclude'
  BY <1>0 DEF TokensInv, RefreshesExclude, TypeOK, Phases
<1>2. TokensHeld'
  BY <1>0 DEF TokensInv, RefreshesExclude, TypeOK, TokensHeld, HoldsToken
<1>3. FreshTokens' /\ TokensIssued' /\ CopiesFresh' /\ RestartFindsAll'
  <2>1. OAuth \notin Storing
    BY DEF TokensInv, TokensHeld, Storing
  <2>2. /\ Issue({}) /\ Receive(OAuth)
        /\ UNCHANGED <<env, cfg, buf, bindDone, overlap, lost>>
    OBVIOUS
  <2> HIDE DEF Issue, Receive
  <2> QED
    BY ONLY <2>1, <2>2, ReceiveStep, TokensInv
<1> QED
  BY <1>1, <1>2, <1>3 DEF TokensInv

LEMMA ResponseLostInv ==
  ASSUME NEW c \in Callers, TokensInv, ResponseLost(c)
  PROVE  TokensInv'
<1> USE TokensFacts DEF ResponseLost, Issue, Release, At, Goto, history
<1>0. issued + 1 \in Tokens /\ issued + 1 # 0
  <2>1. issued \in Tokens /\ issued < MaxGrants
    BY DEF TokensInv, RefreshesExclude, TypeOK
  <2> QED
    BY ONLY <2>1, NextToken
<1>1. RefreshesExclude'
  BY <1>0 DEF TokensInv, RefreshesExclude, TypeOK, Phases
<1>2. TokensHeld'
  BY <1>0 DEF TokensInv, RefreshesExclude, TypeOK, TokensHeld, HoldsToken
<1>3. FreshTokens' /\ TokensIssued' /\ CopiesFresh' /\ RestartFindsAll'
  <2>1. Storing' = Storing
    <3>1. ASSUME NEW w \in Writers
          PROVE  w \in Storing' <=> w \in Storing
      BY DEF TokensInv, RefreshesExclude, TypeOK, TokensHeld, HoldsToken, Storing
    <3> QED
      BY <3>1 DEF Storing
  <2>2. issued \in Nat
    BY DEF TokensInv, RefreshesExclude, TypeOK
  <2>3. TokensIssued'
    <3> SUFFICES ASSUME NEW g \in Nat, g > issued + 1
                 PROVE  Nowhere(g, Writers)'
      BY DEF TokensIssued
    <3>1. Nowhere(g, Writers)
      BY ONLY <2>2, g \in Nat, g > issued + 1, TokensInv DEF TokensInv, TokensIssued
    <3> QED
      BY ONLY <3>1, UNCHANGED <<env, cfg, got, buf>> DEF Nowhere
  <2>4. ASSUME NEW v \in Storing'
        PROVE  (got[v] \in accepted /\ Nowhere(got[v], Writers \ {v}))'
    <3>1. got[v] \in accepted /\ Nowhere(got[v], Writers \ {v})
      BY <2>1 DEF TokensInv, FreshTokens
    <3>2. got[v] # cfg[c]
      BY <3>1 DEF Nowhere
    <3> QED
      BY <3>1, <3>2 DEF Nowhere
  <2>5. FreshTokens'
    BY <2>4 DEF FreshTokens
  <2> QED
    BY <2>3, <2>5 DEF TokensInv, CopiesFresh, RestartFindsAll
<1> QED
  BY <1>1, <1>2, <1>3 DEF TokensInv

LEMMA SaveFailsInv ==
  ASSUME NEW c \in Callers, TokensInv, SaveFails(c)
  PROVE  TokensInv'
<1> USE TokensFacts DEF SaveFails, Release, At, Goto, history
<1>1. RefreshesExclude'
  BY DEF TokensInv, RefreshesExclude, TypeOK, Phases
<1>2. TokensHeld'
  BY DEF TokensInv, RefreshesExclude, TypeOK, TokensHeld, HoldsToken
<1>3. FreshTokens' /\ TokensIssued' /\ CopiesFresh' /\ RestartFindsAll'
  <2>1. /\ Storing' = Storing \ {c}
        /\ \A v \in Storing' : got'[v] = got[v] /\ got[v] \in accepted'
    <3>1. ASSUME NEW v \in Writers
          PROVE  v \in Storing' <=> v \in Storing /\ v # c
      BY DEF TokensInv, RefreshesExclude, TypeOK, TokensHeld, HoldsToken, Storing
    <3> QED
      BY <3>1 DEF TokensInv, RefreshesExclude, TypeOK, FreshTokens, Storing
  <2>2. ASSUME NEW g \in Nat \ {0}, NEW W \in SUBSET Writers, Nowhere(g, W)
        PROVE  Nowhere(g, W)'
    BY <2>2 DEF TokensInv, RefreshesExclude, TypeOK, Nowhere
  <2>3. FreshTokens' /\ TokensIssued'
    <3>1. /\ Writers \in SUBSET Writers
          /\ \A v \in Storing' : Writers \ {v} \in SUBSET Writers
      BY <2>1
    <3>2. \A g \in Nat \ {0} : Nowhere(g, Writers) => Nowhere(g, Writers)'
      BY <2>2, <3>1
    <3>3. \A g \in Nat \ {0} : \A v \in Storing' :
            Nowhere(g, Writers \ {v}) => Nowhere(g, Writers \ {v})'
      BY <2>2, <3>1
    <3> QED
      BY <2>1, <3>2, <3>3, NothingSpreads
  <2> QED
    BY <2>3 DEF TokensInv, CopiesFresh, RestartFindsAll
<1> QED
  BY <1>1, <1>2, <1>3 DEF TokensInv

LEMMA UserInfoFailsInv ==
  ASSUME TokensInv, UserInfoFails
  PROVE  TokensInv'
<1> USE TokensFacts DEF UserInfoFails, At, Goto, history
<1>1. RefreshesExclude'
  BY DEF TokensInv, RefreshesExclude, TypeOK, Phases
<1>2. TokensHeld'
  BY DEF TokensInv, RefreshesExclude, TypeOK, TokensHeld, HoldsToken
<1>3. FreshTokens' /\ TokensIssued' /\ CopiesFresh' /\ RestartFindsAll'
  <2>1. /\ Storing' = Storing \ {OAuth}
        /\ \A v \in Storing' : got'[v] = got[v] /\ got[v] \in accepted'
    <3>1. ASSUME NEW v \in Writers
          PROVE  v \in Storing' <=> v \in Storing /\ v # OAuth
      BY DEF TokensInv, RefreshesExclude, TypeOK, TokensHeld, HoldsToken, Storing
    <3> QED
      BY <3>1 DEF TokensInv, RefreshesExclude, TypeOK, FreshTokens, Storing
  <2>2. ASSUME NEW g \in Nat \ {0}, NEW W \in SUBSET Writers, Nowhere(g, W)
        PROVE  Nowhere(g, W)'
    BY <2>2 DEF TokensInv, RefreshesExclude, TypeOK, Nowhere
  <2>3. FreshTokens' /\ TokensIssued'
    <3>1. /\ Writers \in SUBSET Writers
          /\ \A v \in Storing' : Writers \ {v} \in SUBSET Writers
      BY <2>1
    <3>2. \A g \in Nat \ {0} : Nowhere(g, Writers) => Nowhere(g, Writers)'
      BY <2>2, <3>1
    <3>3. \A g \in Nat \ {0} : \A v \in Storing' :
            Nowhere(g, Writers \ {v}) => Nowhere(g, Writers \ {v})'
      BY <2>2, <3>1
    <3> QED
      BY <2>1, <3>2, <3>3, NothingSpreads
  <2> QED
    BY <2>3 DEF TokensInv, CopiesFresh, RestartFindsAll
<1> QED
  BY <1>1, <1>2, <1>3 DEF TokensInv

LEMMA PersistRefreshedTokenInv ==
  ASSUME NEW c \in Callers, TokensInv, PersistRefreshedToken(c)
  PROVE  TokensInv'
<1> USE TokensFacts DEF PersistRefreshedToken, WriteToken, WriteBack, At, Goto, history
<1>0. /\ buf[c] \in EnvFile /\ got[c] \in Tokens
      /\ env' = [buf[c] EXCEPT !.token = got[c]]
  BY DEF TokensInv, RefreshesExclude, TypeOK
<1>0a. env' \in EnvFile /\ env'.token = got[c]
  BY <1>0 DEF EnvFile
<1>1. RefreshesExclude'
  BY <1>0a DEF TokensInv, RefreshesExclude, TypeOK, Phases
<1>2. TokensHeld'
  BY <1>0a DEF TokensInv, RefreshesExclude, TypeOK, TokensHeld, HoldsToken
<1>3. FreshTokens' /\ TokensIssued' /\ CopiesFresh' /\ RestartFindsAll'
  <2>1. c \in Storing
    BY DEF TokensInv, TokensHeld, HoldsToken, Storing
  <2>2. Storing' = Storing \ {c}
    <3>1. ASSUME NEW v \in Writers
          PROVE  v \in Storing' <=> v \in Storing /\ v # c
      BY DEF TokensInv, RefreshesExclude, TypeOK, Storing
    <3> QED
      BY <3>1 DEF Storing
  <2>3. /\ \A v \in Writers \ {c} : got'[v] = got[v]
        /\ got'[c] \in {0, got[c]}
    BY DEF TokensInv, RefreshesExclude, TypeOK
  <2> QED
    BY ONLY <2>1, <2>2, <2>3, StoreStep, TokensInv, PersistRefreshedToken(c), c \in Callers
       DEF PersistRefreshedToken
<1> QED
  BY <1>1, <1>2, <1>3 DEF TokensInv

LEMMA PersistTokenResultInv ==
  ASSUME TokensInv, PersistTokenResult
  PROVE  TokensInv'
<1> USE TokensFacts DEF PersistTokenResult, WriteToken, WriteBack, At, Goto, history
<1>0. /\ buf[OAuth] \in EnvFile /\ got[OAuth] \in Tokens
      /\ env' = [buf[OAuth] EXCEPT !.token = got[OAuth]]
  BY DEF TokensInv, RefreshesExclude, TypeOK
<1>0a. env' \in EnvFile /\ env'.token = got[OAuth]
  BY <1>0 DEF EnvFile
<1>1. RefreshesExclude'
  BY <1>0a DEF TokensInv, RefreshesExclude, TypeOK, Phases
<1>2. TokensHeld'
  BY <1>0a DEF TokensInv, RefreshesExclude, TypeOK, TokensHeld, HoldsToken
<1>3. FreshTokens' /\ TokensIssued' /\ CopiesFresh' /\ RestartFindsAll'
  <2>1. OAuth \in Storing
    BY DEF TokensInv, TokensHeld, HoldsToken, Storing
  <2>2. Storing' = Storing \ {OAuth}
    <3>1. ASSUME NEW v \in Writers
          PROVE  v \in Storing' <=> v \in Storing /\ v # OAuth
      BY DEF TokensInv, RefreshesExclude, TypeOK, Storing
    <3> QED
      BY <3>1 DEF Storing
  <2>3. /\ \A v \in Writers \ {OAuth} : got'[v] = got[v]
        /\ got'[OAuth] \in {0, got[OAuth]}
    BY DEF TokensInv, RefreshesExclude, TypeOK
  <2> QED
    BY ONLY <2>1, <2>2, <2>3, StoreStep, TokensInv, PersistTokenResult
       DEF PersistTokenResult
<1> QED
  BY <1>1, <1>2, <1>3 DEF TokensInv

LEMMA ApplyToConfigInv ==
  ASSUME NEW c \in Callers, TokensInv, ApplyToConfig(c)
  PROVE  TokensInv'
<1> USE TokensFacts DEF ApplyToConfig, Release, At, Goto, history
<1>1. RefreshesExclude'
  BY DEF TokensInv, RefreshesExclude, TypeOK, Phases
<1>2. TokensHeld'
  BY DEF TokensInv, RefreshesExclude, TypeOK, TokensHeld, HoldsToken
<1>3. FreshTokens' /\ TokensIssued' /\ CopiesFresh' /\ RestartFindsAll'
  <2>1. /\ Storing' = Storing /\ c \notin Storing
        /\ \A v \in Storing' : got'[v] = got[v] /\ got[v] \in accepted'
    <3>1. ASSUME NEW v \in Writers
          PROVE  v \in Storing' <=> v \in Storing /\ v # c
      BY DEF TokensInv, RefreshesExclude, TypeOK, TokensHeld, HoldsToken, Storing
    <3> QED
      BY <3>1 DEF TokensInv, RefreshesExclude, TypeOK, FreshTokens, Storing
  <2>2. ASSUME NEW g \in Nat \ {0}, NEW W \in SUBSET Writers, c \in W, Nowhere(g, W)
        PROVE  Nowhere(g, W)'
    BY <2>2 DEF TokensInv, RefreshesExclude, TypeOK, Nowhere
  <2>3. FreshTokens' /\ TokensIssued'
    <3>1. /\ Writers \in SUBSET Writers
          /\ \A v \in Storing' : Writers \ {v} \in SUBSET Writers /\ c \in Writers \ {v}
      BY <2>1
    <3>2. \A g \in Nat \ {0} : Nowhere(g, Writers) => Nowhere(g, Writers)'
      BY <2>2, <3>1
    <3>3. \A g \in Nat \ {0} : \A v \in Storing' :
            Nowhere(g, Writers \ {v}) => Nowhere(g, Writers \ {v})'
      BY <2>2, <3>1
    <3> QED
      BY <2>1, <3>2, <3>3, NothingSpreads
  <2> QED
    BY <2>1, <2>3 DEF TokensInv, CopiesFresh, RestartFindsAll
<1> QED
  BY <1>1, <1>2, <1>3 DEF TokensInv

LEMMA SaveBindingInv ==
  ASSUME TokensInv, SaveBinding
  PROVE  TokensInv'
<1> USE TokensFacts DEF SaveBinding, WriteBack, At, Goto, history
<1>0. /\ buf[Bind] \in EnvFile /\ buf[Bind] # NoEnv
      /\ env' = [buf[Bind] EXCEPT !.bound = TRUE]
  BY DEF TokensInv, RefreshesExclude, TypeOK
<1>0a. env' \in EnvFile /\ env'.token = buf[Bind].token /\ env'.bound
  BY <1>0 DEF EnvFile
<1>1. RefreshesExclude'
  BY <1>0a DEF TokensInv, RefreshesExclude, TypeOK, Phases
<1>2. TokensHeld'
  BY <1>0a DEF TokensInv, RefreshesExclude, TypeOK, TokensHeld, HoldsToken
<1>3. FreshTokens' /\ TokensIssued' /\ CopiesFresh' /\ RestartFindsAll'
  <2>1. /\ Storing' = Storing
        /\ \A v \in Storing' : got'[v] = got[v] /\ got[v] \in accepted'
    <3>1. ASSUME NEW v \in Writers
          PROVE  v \in Storing' <=> v \in Storing
      BY DEF TokensInv, RefreshesExclude, TypeOK, TokensHeld, HoldsToken, Storing
    <3> QED
      BY <3>1 DEF TokensInv, RefreshesExclude, TypeOK, FreshTokens, Storing
  <2>2. ASSUME NEW g \in Nat \ {0}, NEW W \in SUBSET Writers, Nowhere(g, W)
        PROVE  Nowhere(g, W)'
    BY <1>0, <1>0a, <2>2 DEF TokensInv, RefreshesExclude, TypeOK, Nowhere
  <2>3. FreshTokens' /\ TokensIssued'
    <3>1. /\ Writers \in SUBSET Writers
          /\ \A v \in Storing' : Writers \ {v} \in SUBSET Writers
      BY <2>1
    <3>2. \A g \in Nat \ {0} : Nowhere(g, Writers) => Nowhere(g, Writers)'
      BY <2>2, <3>1
    <3>3. \A g \in Nat \ {0} : \A v \in Storing' :
            Nowhere(g, Writers \ {v}) => Nowhere(g, Writers \ {v})'
      BY <2>2, <3>1
    <3> QED
      BY <2>1, <3>2, <3>3, NothingSpreads
  <2>4. CopiesFresh'
    BY DEF TokensInv, RefreshesExclude, TypeOK, CopiesFresh
  <2>5. RestartFindsAll'
    BY <1>0, <1>0a, <2>1 DEF TokensInv, CopiesFresh, RestartFindsAll
  <2> QED
    BY <2>3, <2>4, <2>5
<1> QED
  BY <1>1, <1>2, <1>3 DEF TokensInv

LEMMA ReadEnvInv ==
  ASSUME NEW w \in Writers, TokensInv, ReadEnv(w)
  PROVE  TokensInv'
<1> USE TokensFacts DEF ReadEnv, At, Goto, history
<1>1. RefreshesExclude'
  BY DEF TokensInv, RefreshesExclude, TypeOK, Phases
<1>2. TokensHeld'
  BY DEF TokensInv, RefreshesExclude, TypeOK, TokensHeld, HoldsToken
<1>3. FreshTokens' /\ TokensIssued' /\ CopiesFresh' /\ RestartFindsAll'
  <2>1. /\ Storing' = Storing
        /\ \A v \in Storing' : got'[v] = got[v] /\ got[v] \in accepted'
    <3>1. ASSUME NEW v \in Writers
          PROVE  v \in Storing' <=> v \in Storing
      BY DEF TokensInv, RefreshesExclude, TypeOK, TokensHeld, HoldsToken, Storing
    <3> QED
      BY <3>1 DEF TokensInv, RefreshesExclude, TypeOK, FreshTokens, Storing
  <2>2. ASSUME NEW g \in Nat \ {0}, NEW W \in SUBSET Writers, Nowhere(g, W)
        PROVE  Nowhere(g, W)'
    BY <2>2 DEF TokensInv, RefreshesExclude, TypeOK, Nowhere
  <2>3. FreshTokens' /\ TokensIssued'
    <3>1. /\ Writers \in SUBSET Writers
          /\ \A v \in Storing' : Writers \ {v} \in SUBSET Writers
      BY <2>1
    <3>2. \A g \in Nat \ {0} : Nowhere(g, Writers) => Nowhere(g, Writers)'
      BY <2>2, <3>1
    <3>3. \A g \in Nat \ {0} : \A v \in Storing' :
            Nowhere(g, Writers \ {v}) => Nowhere(g, Writers \ {v})'
      BY <2>2, <3>1
    <3> QED
      BY <2>1, <3>2, <3>3, NothingSpreads
  <2>4. CopiesFresh'
    BY DEF TokensInv, RefreshesExclude, TypeOK, CopiesFresh
  <2> QED
    BY <2>1, <2>3, <2>4 DEF TokensInv, RestartFindsAll
<1> QED
  BY <1>1, <1>2, <1>3 DEF TokensInv

LEMMA CrashAndRestartInv ==
  ASSUME TokensInv, CrashAndRestart
  PROVE  TokensInv'
<1> USE TokensFacts DEF CrashAndRestart, At, Goto, history
<1>0. crashes' \in 0..MaxCrashes /\ env.token \in Tokens
  BY NextCrash DEF TokensInv, RefreshesExclude, TypeOK, EnvFile
<1>1. RefreshesExclude'
  BY <1>0 DEF TokensInv, RefreshesExclude, TypeOK, Phases
<1>2. TokensHeld'
  BY <1>0 DEF TokensInv, RefreshesExclude, TypeOK, TokensHeld, HoldsToken
<1>3. FreshTokens' /\ TokensIssued' /\ CopiesFresh' /\ RestartFindsAll'
  <2>1. Storing' = {}
    BY DEF Storing
  <2>2. ASSUME NEW g \in Nat \ {0}, Nowhere(g, Writers)
        PROVE  Nowhere(g, Writers)'
    BY <2>2 DEF Nowhere
  <2>3. FreshTokens' /\ TokensIssued'
    BY <2>1, <2>2, NothingSpreads
  <2> QED
    BY <2>1, <2>3 DEF TokensInv, CopiesFresh, RestartFindsAll
<1> QED
  BY <1>1, <1>2, <1>3 DEF TokensInv

LEMMA TokensInitially == Init => TokensInv
<1> SUFFICES ASSUME Init PROVE TokensInv
  OBVIOUS
<1> USE TokensFacts DEF Init
<1>0. env \in EnvFile /\ env.token = 0
  BY DEF EnvFile
<1>1. RefreshesExclude
  BY <1>0 DEF RefreshesExclude, TypeOK, Phases, At
<1>2. TokensHeld
  BY DEF TokensHeld, HoldsToken, At
<1>3. Storing = {}
  BY DEF Storing
<1>4. TokensIssued
  BY DEF TokensIssued, Nowhere
<1> QED
  BY <1>1, <1>2, <1>3, <1>4 DEF TokensInv, FreshTokens, CopiesFresh, RestartFindsAll

LEMMA TokensStep == TokensInv /\ [Next]_vars => TokensInv'
<1> SUFFICES ASSUME TokensInv, [Next]_vars PROVE TokensInv'
  OBVIOUS
<1>1. ASSUME NEW c \in Callers, BeginCall(c) \/ TakeLock(c) \/ Request(c)
      PROVE  TokensInv'
  BY <1>1, TokensFacts, BeginCallInv, TakeLockInv, EndCallInv, WantRefreshInv,
     RefreshAcceptedInv, RefreshRejectedInv, RefreshFailsInv, ResponseLostInv,
     SaveFailsInv, ReadEnvInv, PersistRefreshedTokenInv, ApplyToConfigInv DEF Request
<1>2. CASE ExchangeCode \/ UserInfoFails \/ ReadEnv(OAuth) \/ PersistTokenResult
  BY <1>2, TokensFacts, ExchangeCodeInv, UserInfoFailsInv, ReadEnvInv, PersistTokenResultInv
<1>3. CASE BindRequest \/ ReadEnv(Bind) \/ SaveBinding
  BY <1>3, TokensFacts, BindRequestInv, ReadEnvInv, SaveBindingInv
<1>4. CASE CrashAndRestart
  BY <1>4, CrashAndRestartInv
<1>5. CASE UNCHANGED vars
  BY <1>5 DEF vars, TokensInv, RefreshesExclude, TypeOK, TokensHeld, TokensIssued,
              Nowhere, FreshTokens, CopiesFresh, RestartFindsAll, Storing, At
<1> QED
  BY <1>1, <1>2, <1>3, <1>4, <1>5 DEF Next

\* Every reachable state has the inductive invariant: a token on its way to
\* .env is nowhere else, and no copy of .env is stale unless writes overlapped
\* (config/env.py, save_env_values).
THEOREM TokensInvariance == Spec => []TokensInv
<1>1. Init => TokensInv
  BY TokensInitially
<1>2. TokensInv /\ [Next]_vars => TokensInv'
  BY TokensStep
<1> QED
  BY <1>1, <1>2, PTL DEF Spec

\* Refreshes exclude each other, whatever fails while one holds the lock
\* (user_token_provider.py, _REFRESH_LOCK).
THEOREM RefreshExclusion == Spec => []RefreshesExclude
<1>1. TokensInv => RefreshesExclude
  BY DEF TokensInv
<1> QED
  BY <1>1, TokensInvariance, PTL

\* .env keeps what a restart needs (oauth.py, _persist_refreshed_token and
\* persist_token_result; runtime.py, _handle_bind_request).
THEOREM RestartSafe == Spec => []RestartFindsAll
<1>1. TokensInv => RestartFindsAll
  BY DEF TokensInv
<1> QED
  BY <1>1, TokensInvariance, PTL
=============================================================================
