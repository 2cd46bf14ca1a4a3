------------------------------- MODULE PageProofs -------------------------------
(***************************************************************************)
(* Three parts of a page and its backend: the session of a mounted surface *)
(* (SurfaceSession), the calls of a publisher's backend (CallbackClient)   *)
(* and what the detail page of an xapp shows (DetailPage), for any number  *)
(* of calls, tokens, attempts, xapps, reads and clicks.  With the host and *)
(* the bridge of CatalogHostProofs and WidgetBridgeProofs, the parts that  *)
(* MCHostPage composes.                                                    *)
(***************************************************************************)
EXTENDS MCHostPage, CatalogHostProofs, WidgetBridgeProofs, FiniteSetTheorems, TLAPS

(***************************************************************************)
(* SurfaceSession                                                          *)
(***************************************************************************)

\* Only tokens that were issued are kept, sent and exchanged, so that the next one is
\* new to the server; one that is sent is a token.
TokensKnown ==
  /\ consumed \subseteq 1 .. issued
  /\ stored \in 0 .. issued
  /\ exchange.token \in 0 .. issued
  /\ exchange.step # "none" => exchange.token # 0

SurfaceInv == SurfaceTypeOK /\ TokensKnown /\ TokenSpent

\* What a step may do to the calls keeps them well typed.
LEMMA AdvanceType ==
  ASSUME SurfaceTypeOK, NEW from \in CallSteps, NEW to \in CallSteps
  PROVE  Advance(from, to) \in [ApiCalls -> CallSteps]
  BY DEF SurfaceTypeOK, Advance

LEMMA SurfaceInitInv == SurfaceInit => SurfaceInv
<1> SUFFICES ASSUME SurfaceInit PROVE SurfaceInv
  OBVIOUS
<1>1. 0 \in Tokens /\ "idle" \in CallSteps
  BY SurfaceAssumption DEF Tokens, CallSteps
<1>2. SurfaceTypeOK
  BY <1>1 DEF SurfaceInit, SurfaceTypeOK, NoExchange
<1>3. TokensKnown /\ TokenSpent
  BY DEF SurfaceInit, TokensKnown, TokenSpent, NoExchange
<1> QED BY <1>2, <1>3 DEF SurfaceInv

LEMMA SurfaceMountKeeps ==
  ASSUME SurfaceInv, NEW exchanged \in BOOLEAN,
         MountFresh(exchanged) \/ \E t \in Tokens : MountStored(t, exchanged)
  PROVE  SurfaceInv'
<1> USE SurfaceAssumption DEF SurfaceInv, Tokens
<1>1. CASE MountFresh(exchanged)
  <2>1. /\ issued' = issued + 1 /\ issued' \in 1 .. MaxTokens
        /\ identity' = issued' /\ stored' = issued'
        /\ exchange' \in {SentWith(issued'), NoExchange}
        /\ surface' \in {"mounting", "mounted"}
        /\ UNCHANGED <<useHostSession, refreshing, call, logout, consumed, answered>>
    BY <1>1 DEF MountFresh, Start, SurfaceTypeOK
  <2>2. SurfaceTypeOK'
    BY <2>1 DEF SurfaceTypeOK, SentWith, NoExchange
  <2>3. TokensKnown'
    BY <2>1 DEF SurfaceTypeOK, TokensKnown, SentWith, NoExchange
  <2>4. TokenSpent'
    BY <2>1 DEF SurfaceTypeOK, TokensKnown, TokenSpent, SentWith, NoExchange
  <2> QED BY <2>2, <2>3, <2>4
<1>2. ASSUME NEW t \in Tokens, MountStored(t, exchanged) PROVE SurfaceInv'
  <2>1. /\ identity' = stored
        /\ exchange' = NoExchange \/ (stored # 0 /\ exchange' = SentWith(stored))
        /\ surface' \in {"mounting", "mounted"}
        /\ UNCHANGED <<stored, useHostSession, refreshing, call, logout, server, answered>>
    BY <1>2 DEF MountStored, Start
  <2>2. SurfaceTypeOK'
    BY <2>1 DEF SurfaceTypeOK, SentWith, NoExchange, server
  <2>3. TokensKnown'
    BY <2>1 DEF SurfaceTypeOK, TokensKnown, SentWith, NoExchange, server
  <2>4. TokenSpent'
    BY <2>1 DEF SurfaceTypeOK, TokensKnown, TokenSpent, SentWith, NoExchange, server
  <2> QED BY <2>2, <2>3, <2>4
<1> QED BY <1>1, <1>2

LEMMA UnloadKeeps ==
  ASSUME SurfaceInv, Unload
  PROVE  SurfaceInv'
<1> USE SurfaceAssumption DEF SurfaceInv, Tokens
<1>1. /\ consumed \subseteq consumed' /\ consumed' \subseteq 1 .. issued
      /\ exchange' = NoExchange /\ identity' = 0
      /\ UNCHANGED <<stored, issued, answered>>
  BY DEF Unload, SurfaceTypeOK, TokensKnown
<1>2. SurfaceTypeOK'
  <2>1. consumed' \subseteq Tokens /\ answered' \subseteq consumed'
    BY <1>1 DEF SurfaceTypeOK
  <2>2. call' \in [ApiCalls -> CallSteps] /\ exchange' \in [step : {"none"}, token : Tokens]
    BY <1>1 DEF Unload, CallSteps, NoExchange
  <2>3. UNCHANGED <<stored, issued>> /\ surface' = "off" /\ identity' = 0 /\ logout' = "none"
        /\ useHostSession' \in BOOLEAN /\ refreshing' \in BOOLEAN
    BY DEF Unload
  <2>4. exchange' \in [step : {"none", "sent", "renewing"}, token : Tokens]
    BY <2>2
  <2> QED BY <2>1, <2>2, <2>3, <2>4 DEF SurfaceTypeOK
<1>3. TokensKnown' /\ TokenSpent'
  BY <1>1 DEF SurfaceTypeOK, TokensKnown, TokenSpent, NoExchange
<1> QED BY <1>2, <1>3

\* The answer to an exchange is the step that spends a token: the page drops it.
LEMMA ExchangedKeeps ==
  ASSUME SurfaceInv, Exchanged
  PROVE  SurfaceInv'
<1> USE SurfaceAssumption DEF SurfaceInv, Tokens
<1>1. /\ exchange.token \in 1 .. issued
      /\ consumed' = consumed \cup {exchange.token} /\ answered' = answered \cup {exchange.token}
      /\ exchange' = NoExchange /\ identity' = 0 /\ stored' = 0 /\ issued' = issued
  BY DEF Exchanged, StoredAfter, SurfaceTypeOK, TokensKnown
<1>2. call' \in [ApiCalls -> CallSteps]
  BY AdvanceType DEF Exchanged, CallSteps
<1>3. /\ consumed' \subseteq 1 .. issued /\ consumed' \subseteq Tokens
      /\ answered' \subseteq consumed' /\ 0 \notin answered'
  <2>1. answered \subseteq consumed /\ consumed \subseteq 1 .. issued /\ issued \in Tokens
    BY DEF SurfaceTypeOK, TokensKnown
  <2>2. consumed' \subseteq 1 .. issued /\ answered' \subseteq consumed'
    BY <1>1, <2>1
  <2> QED BY <2>1, <2>2
<1>4. SurfaceTypeOK'
  <2>1. exchange' \in [step : {"none"}, token : Tokens]
    BY <1>1 DEF NoExchange
  <2> QED BY <1>1, <1>2, <1>3, <2>1 DEF Exchanged, SurfaceTypeOK
<1>5. TokensKnown'
  BY <1>1, <1>3 DEF SurfaceTypeOK, TokensKnown, NoExchange
<1>6. TokenSpent'
  BY <1>1, <1>3 DEF TokenSpent, NoExchange
<1> QED BY <1>4, <1>5, <1>6

LEMMA NotExchangedKeeps ==
  ASSUME SurfaceInv, ExchangeFails \/ ExchangeExpired
  PROVE  SurfaceInv'
<1> USE SurfaceAssumption DEF SurfaceInv, Tokens
<1>1. CASE ExchangeFails
  <2>1. /\ consumed \subseteq consumed' /\ consumed' \subseteq 1 .. issued
        /\ exchange' = NoExchange
        /\ UNCHANGED <<tokens, issued, answered>>
    BY <1>1 DEF ExchangeFails, GiveUpExchange, SurfaceTypeOK, TokensKnown
  <2>2. call' \in [ApiCalls -> CallSteps]
    BY <1>1, AdvanceType DEF ExchangeFails, CallSteps
  <2>3. SurfaceTypeOK'
    BY <1>1, <2>1, <2>2 DEF ExchangeFails, GiveUpExchange, SurfaceTypeOK, NoExchange, tokens
  <2>4. TokensKnown' /\ TokenSpent'
    BY <2>1 DEF SurfaceTypeOK, TokensKnown, TokenSpent, NoExchange, tokens
  <2> QED BY <2>3, <2>4
<1>2. CASE ExchangeExpired
  <2>1. exchange' \in [step : {"renewing"}, token : Tokens] /\ exchange'.token = exchange.token
    BY <1>2 DEF ExchangeExpired, SurfaceTypeOK
  <2>2. SurfaceTypeOK'
    BY <1>2, <2>1 DEF ExchangeExpired, SurfaceTypeOK, tokens, server
  <2>3. TokensKnown' /\ TokenSpent'
    BY <1>2, <2>1 DEF ExchangeExpired, SurfaceTypeOK, TokensKnown, TokenSpent, tokens, server
  <2> QED BY <2>2, <2>3
<1> QED BY <1>1, <1>2

LEMMA RefreshKeeps ==
  ASSUME SurfaceInv, Refreshed \/ RefreshFails
  PROVE  SurfaceInv'
<1> USE SurfaceAssumption DEF SurfaceInv, Tokens
<1>1. CASE Refreshed
  <2>1. /\ issued' = issued + 1 /\ issued' \in 1 .. MaxTokens
        /\ identity' = issued' /\ stored' \in {stored, issued'}
        /\ exchange' \in {SentWith(issued'), exchange}
        /\ UNCHANGED <<surface, logout, consumed, answered>>
    BY <1>1 DEF Refreshed, SurfaceTypeOK
  <2>2. call' \in [ApiCalls -> CallSteps]
    BY <1>1 DEF Refreshed, SurfaceTypeOK, CallSteps
  <2>3. refreshing' \in BOOLEAN /\ useHostSession' \in BOOLEAN
    BY <1>1 DEF Refreshed
  <2>4. SurfaceTypeOK'
    BY <2>1, <2>2, <2>3 DEF SurfaceTypeOK, SentWith
  <2>5. TokensKnown'
    BY <2>1 DEF SurfaceTypeOK, TokensKnown, SentWith
  <2>6. TokenSpent'
    BY <2>1 DEF SurfaceTypeOK, TokensKnown, TokenSpent, SentWith
  <2> QED BY <2>4, <2>5, <2>6
<1>2. CASE RefreshFails
  <2>1. /\ exchange' \in {NoExchange, exchange}
        /\ surface' \in {"off", "mounting", "mounted", "failed"}
        /\ UNCHANGED <<tokens, useHostSession, logout, server, answered>>
    BY <1>2 DEF RefreshFails, GiveUpExchange, SurfaceTypeOK
  <2>2. call' \in [ApiCalls -> CallSteps] /\ refreshing' \in BOOLEAN
    BY <1>2 DEF RefreshFails, SurfaceTypeOK, CallSteps
  <2>3. SurfaceTypeOK'
    BY <2>1, <2>2 DEF SurfaceTypeOK, NoExchange, tokens, server
  <2>4. TokensKnown' /\ TokenSpent'
    BY <2>1 DEF SurfaceTypeOK, TokensKnown, TokenSpent, NoExchange, tokens, server
  <2> QED BY <2>3, <2>4
<1> QED BY <1>1, <1>2

\* The calls of the host API and the logout issue and exchange nothing.
LEMMA ApiKeeps ==
  ASSUME SurfaceInv,
         \/ \E c \in ApiCalls :
              Send(c) \/ Answer(c) \/ \E need \in {"token", "session"} : Unauthorized(c, need)
         \/ Logout \/ \E ok \in BOOLEAN : LoggedOut(ok)
  PROVE  SurfaceInv'
<1> USE SurfaceAssumption DEF SurfaceInv, Tokens
<1>1. /\ identity' \in {identity, 0} /\ stored' \in {stored, 0}
      /\ UNCHANGED <<surface, exchange, issued, consumed, answered>>
  BY DEF Send, Answer, Unauthorized, Logout, LoggedOut, tokens, server
<1>2. /\ call' \in [ApiCalls -> CallSteps]
      /\ useHostSession' \in BOOLEAN /\ refreshing' \in BOOLEAN
      /\ logout' \in {"none", "sent", "ended"}
  BY DEF Send, Answer, Unauthorized, Logout, LoggedOut, Go, SurfaceTypeOK, CallSteps
<1>3. SurfaceTypeOK'
  BY <1>1, <1>2 DEF SurfaceTypeOK
<1>4. TokensKnown' /\ TokenSpent'
  BY <1>1 DEF SurfaceTypeOK, TokensKnown, TokenSpent
<1> QED BY <1>3, <1>4

LEMMA SurfaceNextInv == SurfaceInv /\ [SurfaceNext]_surfaceVars => SurfaceInv'
<1> SUFFICES ASSUME SurfaceInv, [SurfaceNext]_surfaceVars PROVE SurfaceInv'
  OBVIOUS
<1>1. CASE UNCHANGED surfaceVars
  BY <1>1 DEF SurfaceInv, SurfaceTypeOK, TokensKnown, TokenSpent, surfaceVars, tokens, server
<1>2. CASE SurfaceNext
  BY <1>2, SurfaceMountKeeps, UnloadKeeps, ExchangedKeeps, NotExchangedKeeps, RefreshKeeps, ApiKeeps
     DEF SurfaceNext
<1> QED BY <1>1, <1>2

LEMMA SurfaceInvHolds == SurfaceSpec => []SurfaceInv
  BY SurfaceInitInv, SurfaceNextInv, PTL DEF SurfaceSpec

\* The state of a mounted surface keeps its types.
THEOREM SurfaceTypeCorrect == SurfaceSpec => []SurfaceTypeOK
  BY SurfaceInvHolds, PTL DEF SurfaceInv

\* A token whose exchange was answered is not kept and not sent again, for any number of
\* calls and tokens (exchangeHostSession, tryRefreshIdentity).
THEOREM TokenStaysSpent == SurfaceSpec => []TokenSpent
  BY SurfaceInvHolds, PTL DEF SurfaceInv

(***************************************************************************)
(* CallbackClient                                                          *)
(***************************************************************************)

\* Where a call stands and what became of its attempts.
AttemptsMade ==
  \A c \in Sends :
    /\ send[c] = "idle" => attempt[c] = 0
    /\ send[c] = "sleeping" => attempt[c] < MaxAttempts
    /\ send[c] = "waiting" => attempt[c] >= 1
    /\ send[c] = "ok" => Done(c) # {}
    /\ \A n \in Attempts : /\ arrived[c][n] # "unsent" => n <= attempt[c]
                           /\ arrived[c][n] = "done" => Done(c) # {}

\* The effects of a call are those of attempts that were made: with a key one alone.
EffectsAsked ==
  \A e \in effects :
    /\ e[1] \in Keyed => e[2] = 0 /\ attempt[e[1]] >= 1
    /\ e[1] \notin Keyed => e[2] \in 1 .. attempt[e[1]]

ClientInv == ClientTypeOK /\ AttemptsMade /\ EffectsAsked

\* The attempts of a call are numbers, and so is their bound.
LEMMA AttemptNumbers ==
  /\ MaxAttempts \in Nat \ {0}
  /\ \A n \in Attempts : n \in Nat \ {0} /\ n <= MaxAttempts
  BY ClientAssumption DEF Attempts

LEMMA ClientInitInv == ClientInit => ClientInv
<1> SUFFICES ASSUME ClientInit PROVE ClientInv
  OBVIOUS
<1>1. ClientTypeOK
  BY AttemptNumbers DEF ClientInit, ClientTypeOK
<1>2. AttemptsMade
  BY AttemptNumbers DEF ClientInit, AttemptsMade
<1>3. EffectsAsked
  BY DEF ClientInit, EffectsAsked
<1> QED BY <1>1, <1>2, <1>3 DEF ClientInv

LEMMA AttemptKeeps ==
  ASSUME ClientInv, NEW c \in Sends, Attempt(c)
  PROVE  ClientInv'
<1> DEFINE k == attempt[c] + 1
<1> USE DEF ClientInv
<1>1. k \in Attempts /\ k \in 1 .. MaxAttempts /\ attempt[c] \in Nat
  BY AttemptNumbers DEF ClientTypeOK, AttemptsMade, Attempt, Attempts
<1>2. /\ send' \in [Sends -> {"idle", "waiting", "sleeping", "ok", "failed"}]
      /\ send'[c] = "waiting" /\ \A d \in Sends \ {c} : send'[d] = send[d]
      /\ attempt' \in [Sends -> 0 .. MaxAttempts]
      /\ attempt'[c] = k /\ \A d \in Sends \ {c} : attempt'[d] = attempt[d]
      /\ effects' = effects
  BY <1>1, AttemptNumbers DEF ClientTypeOK, Attempt
<1>3. /\ arrived' \in [Sends -> [Attempts -> {"unsent", "sent", "done", "refused"}]]
      /\ arrived'[c] = [arrived[c] EXCEPT ![k] = "sent"]
      /\ \A d \in Sends \ {c} : arrived'[d] = arrived[d]
  BY <1>1, <1>2 DEF ClientTypeOK, Attempt
<1>4. ClientTypeOK'
  BY <1>2, <1>3 DEF ClientTypeOK
<1>5. \A d \in Sends : Done(d)' = Done(d)
  BY <1>2 DEF Done
<1>6. AttemptsMade'
  <2> SUFFICES ASSUME NEW d \in Sends
               PROVE  /\ send'[d] = "idle" => attempt'[d] = 0
                      /\ send'[d] = "sleeping" => attempt'[d] < MaxAttempts
                      /\ send'[d] = "waiting" => attempt'[d] >= 1
                      /\ send'[d] = "ok" => Done(d) # {}
                      /\ \A n \in Attempts : /\ arrived'[d][n] # "unsent" => n <= attempt'[d]
                                             /\ arrived'[d][n] = "done" => Done(d) # {}
    BY <1>5 DEF AttemptsMade
  <2>1. CASE d # c
    BY <1>2, <1>3, <2>1 DEF AttemptsMade
  <2>2. CASE d = c
    <3>1. \A n \in Attempts : n # k => arrived'[c][n] = arrived[c][n]
      BY <1>3 DEF ClientTypeOK
    <3>2. arrived'[c][k] = "sent"
      BY <1>1, <1>3 DEF ClientTypeOK
    <3> QED BY <1>1, <1>2, <2>2, <3>1, <3>2, AttemptNumbers DEF AttemptsMade
  <2> QED BY <2>1, <2>2
<1>7. EffectsAsked'
  <2> SUFFICES ASSUME NEW e \in effects
               PROVE  /\ e[1] \in Keyed => e[2] = 0 /\ attempt'[e[1]] >= 1
                      /\ e[1] \notin Keyed => e[2] \in 1 .. attempt'[e[1]]
    BY <1>2 DEF EffectsAsked
  <2>1. e[1] \in Sends /\ e[2] \in Nat
    BY AttemptNumbers DEF ClientTypeOK
  <2>2. CASE e[1] = c
    BY <1>1, <1>2, <2>1, <2>2 DEF EffectsAsked
  <2>3. CASE e[1] # c
    BY <1>2, <2>1, <2>3 DEF EffectsAsked
  <2> QED BY <2>2, <2>3
<1> QED BY <1>4, <1>6, <1>7

\* The gateway takes an attempt, and does what was asked with the key once.
LEMMA TakeKeeps ==
  ASSUME ClientInv, NEW c \in Sends, NEW n \in Attempts, Take(c, n)
  PROVE  ClientInv'
<1> DEFINE e == <<c, IF c \in Keyed THEN KeyOf(c, n) ELSE n>>
<1> USE DEF ClientInv
<1>1. n <= attempt[c] /\ n \in Nat \ {0} /\ n <= MaxAttempts /\ attempt[c] \in Nat
  BY AttemptNumbers DEF ClientTypeOK, AttemptsMade, Take
<1>2. e \in Sends \X (0 .. MaxAttempts) /\ e[1] = c
      /\ e[2] = IF c \in Keyed THEN 0 ELSE n
  BY <1>1, AttemptNumbers DEF KeyOf
<1>3. PICK a \in {"done", "refused"} :
        /\ arrived' = [arrived EXCEPT ![c][n] = a]
        /\ a = "done" => effects' = effects \cup {e}
        /\ a = "refused" => effects' = effects
        /\ UNCHANGED <<send, attempt>>
  BY DEF Take
<1> HIDE DEF e
<1>4. /\ arrived' \in [Sends -> [Attempts -> {"unsent", "sent", "done", "refused"}]]
      /\ arrived'[c][n] = a
      /\ \A m \in Attempts : m # n => arrived'[c][m] = arrived[c][m]
      /\ \A d \in Sends \ {c} : arrived'[d] = arrived[d]
  BY <1>3 DEF ClientTypeOK
<1>5. effects \subseteq effects' /\ effects' \subseteq effects \cup {e}
  BY <1>3
<1>6. ClientTypeOK'
  BY <1>2, <1>3, <1>4, <1>5 DEF ClientTypeOK
<1>7. /\ \A d \in Sends : Done(d) # {} => Done(d)' # {}
      /\ a = "done" => Done(c)' # {}
  BY <1>2, <1>3, <1>5 DEF Done
<1>8. AttemptsMade'
  <2> SUFFICES ASSUME NEW d \in Sends
               PROVE  /\ send'[d] = "idle" => attempt'[d] = 0
                      /\ send'[d] = "sleeping" => attempt'[d] < MaxAttempts
                      /\ send'[d] = "waiting" => attempt'[d] >= 1
                      /\ send'[d] = "ok" => Done(d)' # {}
                      /\ \A m \in Attempts : /\ arrived'[d][m] # "unsent" => m <= attempt'[d]
                                             /\ arrived'[d][m] = "done" => Done(d)' # {}
    BY DEF AttemptsMade
  <2>1. CASE d # c
    BY <1>3, <1>4, <1>7, <2>1 DEF AttemptsMade
  <2>2. CASE d = c
    BY <1>1, <1>3, <1>4, <1>7, <2>2 DEF AttemptsMade
  <2> QED BY <2>1, <2>2
<1>9. EffectsAsked'
  <2>1. /\ c \in Keyed => e[2] = 0 /\ attempt[c] >= 1
        /\ c \notin Keyed => e[2] \in 1 .. attempt[c]
    BY <1>1, <1>2
  <2> QED BY <1>2, <1>3, <1>5, <2>1 DEF EffectsAsked
<1> QED BY <1>6, <1>8, <1>9

\* The client reads an answer, or waits for none any more.
LEMMA AnsweredKeeps ==
  ASSUME ClientInv, NEW c \in Sends, Succeed(c) \/ FailRetryable(c) \/ FailAtOnce(c)
  PROVE  ClientInv'
<1> USE DEF ClientInv
<1>1. attempt[c] \in Attempts /\ attempt[c] \in Nat
  BY AttemptNumbers
     DEF ClientTypeOK, AttemptsMade, Attempts, Succeed, FailRetryable, FailAtOnce
<1>2. PICK s \in {"ok", "failed", "sleeping"} :
        /\ send' = [send EXCEPT ![c] = s]
        /\ s = "ok" => arrived[c][attempt[c]] = "done"
        /\ s = "sleeping" => attempt[c] < MaxAttempts
        /\ UNCHANGED <<attempt, arrived, effects>>
  BY <1>1, AttemptNumbers DEF Succeed, FailRetryable, FailAtOnce, GiveUp
<1>3. /\ send' \in [Sends -> {"idle", "waiting", "sleeping", "ok", "failed"}]
      /\ send'[c] = s /\ \A d \in Sends \ {c} : send'[d] = send[d]
  BY <1>2 DEF ClientTypeOK
<1>4. \A d \in Sends : Done(d)' = Done(d)
  BY <1>2 DEF Done
<1>5. AttemptsMade'
  BY <1>1, <1>2, <1>3, <1>4 DEF AttemptsMade
<1> QED BY <1>2, <1>3, <1>5 DEF ClientTypeOK, EffectsAsked

LEMMA ClientNextInv == ClientInv /\ [ClientNext]_clientVars => ClientInv'
<1> SUFFICES ASSUME ClientInv, [ClientNext]_clientVars PROVE ClientInv'
  OBVIOUS
<1>1. CASE UNCHANGED clientVars
  BY <1>1 DEF ClientInv, ClientTypeOK, AttemptsMade, EffectsAsked, Done, clientVars
<1>2. CASE ClientNext
  BY <1>2, AttemptKeeps, TakeKeeps, AnsweredKeeps DEF ClientNext
<1> QED BY <1>1, <1>2

LEMMA ClientInvHolds == ClientSpec => []ClientInv
  BY ClientInitInv, ClientNextInv, PTL DEF ClientSpec

\* The effects of a call are told apart by the attempt that asked for them, and with a
\* key not at all.
LEMMA EffectsCounted ==
  ASSUME ClientInv, NEW c \in Sends
  PROVE  /\ IsFiniteSet(Done(c)) /\ Cardinality(Done(c)) <= attempt[c]
         /\ c \in Keyed => Cardinality(Done(c)) <= 1
<1> USE DEF ClientInv
<1>0. attempt[c] \in Nat /\ \A e \in Done(c) : e = <<c, e[2]>>
  BY AttemptNumbers DEF ClientTypeOK, Done
<1>1. CASE c \in Keyed
  <2>1. Done(c) = {} \/ Done(c) = {<<c, 0>>}
    BY <1>0, <1>1 DEF Done, EffectsAsked
  <2>2. Done(c) # {} => attempt[c] >= 1
    BY <1>1 DEF Done, EffectsAsked
  <2>3. /\ IsFiniteSet({}) /\ Cardinality({}) = 0
        /\ IsFiniteSet({<<c, 0>>}) /\ Cardinality({<<c, 0>>}) = 1
    BY FS_EmptySet, FS_Singleton
  <2> QED BY <1>0, <2>1, <2>2, <2>3
<1>2. CASE c \notin Keyed
  <2> DEFINE f == [e \in Done(c) |-> e[2]]
  <2>1. \A e \in Done(c) : e[2] \in 1 .. attempt[c]
    BY <1>2 DEF Done, EffectsAsked
  <2>2. f \in Injection(Done(c), 1 .. attempt[c])
    BY <1>0, <2>1 DEF Injection, IsInjective
  <2>3. IsFiniteSet(1 .. attempt[c]) /\ Cardinality(1 .. attempt[c]) = attempt[c]
    <3>1. 1 \in Int /\ attempt[c] \in Int
      BY <1>0
    <3>2. /\ IsFiniteSet(1 .. attempt[c])
          /\ Cardinality(1 .. attempt[c]) = IF 1 > attempt[c] THEN 0 ELSE attempt[c] - 1 + 1
      BY <3>1, FS_Interval, Zenon
    <3> QED BY <1>0, <3>2
  <2> HIDE DEF f
  <2> QED BY <1>2, <2>2, <2>3, FS_Injection
<1> QED BY <1>1, <1>2

\* The calls of the client and what the gateway did keep their types.
THEOREM ClientTypeCorrect == ClientSpec => []ClientTypeOK
  BY ClientInvHolds, PTL DEF ClientInv

\* What a call with a key asks for is done once at most, however many of its attempts
\* reach the gateway and whenever they do, for any number of calls (postJson).
THEOREM CallbackDoneOnce == ClientSpec => []CallbackOnce
<1>1. ClientInv => CallbackOnce
  BY EffectsCounted, ClientAssumption DEF CallbackOnce, ClientInv, AttemptsMade
<1> QED BY <1>1, ClientInvHolds, PTL

(***************************************************************************)
(* DetailPage                                                              *)
(***************************************************************************)

Here == [xapp |-> page, install |-> install]
DetailAnswers == {"none", "ok", "failed"}
DetailCalls == [stage : DetailStages, of : Keys \cup {Nobody}, package : Packages \cup {Nobody},
          answer : DetailAnswers, seen : SUBSET Grants]

\* A call that is under way is for a page, and one that pays or finalizes for a package.
Placed(x) ==
  /\ x.stage \notin {"idle", "over"} => x.of \in Keys
  /\ x.stage \in {"prepare", "create", "finalize"} => x.package \in Packages
CallsPlaced == \A c \in Awaited : Placed(awaits[c])

\* The effect that has not been cleaned up finalizes a return of the page there is.
EffectHere ==
  ~cancelled /\ awaits[Effect].stage \notin {"idle", "over"} => awaits[Effect].of = Here

DetailInv == DetailTypeOK /\ CallsPlaced /\ EffectHere /\ AccessCurrent

\* What the actions set a call to.
LEMMA SentType ==
  ASSUME NEW to \in DetailStages \ {"idle", "over"}, NEW key \in Keys,
         NEW p \in Packages \cup {Nobody},
         to \in {"prepare", "create", "finalize"} => p \in Packages
  PROVE  /\ Sent(to, key, p) \in DetailCalls /\ Placed(Sent(to, key, p))
         /\ Sent(to, key, p).stage = to /\ Sent(to, key, p).of = key
  BY DEF Sent, Idle, DetailCalls, Placed, DetailAnswers

LEMMA EndsType ==
  ASSUME NEW c
  PROVE  Ends(c) \in DetailCalls /\ Placed(Ends(c)) /\ Ends(c).stage \in {"idle", "over"}
<1>1. /\ Idle \in DetailCalls /\ Placed(Idle) /\ Idle.stage = "idle"
      /\ Spent \in DetailCalls /\ Placed(Spent) /\ Spent.stage = "over"
  BY DEF Idle, Spent, DetailCalls, Placed, DetailStages, DetailAnswers
<1> QED BY <1>1 DEF Ends

LEMMA HereIsKey ==
  ASSUME DetailTypeOK, page # Nobody
  PROVE  page \in Xapps /\ Here \in Keys
  BY DEF DetailTypeOK, Here, Keys

LEMMA AwaitsType ==
  ASSUME DetailInv
  PROVE  /\ awaits \in [Awaited -> DetailCalls] /\ Effect \in Awaited
         /\ Loads \cup Checkouts \cup Changes \subseteq Awaited
         /\ \A c \in Awaited : awaits[c] \in DetailCalls /\ Placed(awaits[c])
  BY DEF DetailInv, DetailTypeOK, DetailCalls, DetailAnswers, CallsPlaced, Awaited

\* The call c becomes x, and the page stays as it is.
Becomes(c, x) ==
  /\ awaits' = [awaits EXCEPT ![c] = x]
  /\ x \in DetailCalls /\ Placed(x)
  /\ UNCHANGED <<page, install>>

LEMMA BecomesType ==
  ASSUME DetailInv, NEW c \in Awaited, NEW x, Becomes(c, x)
  PROVE  /\ awaits' \in [Awaited -> DetailCalls] /\ CallsPlaced'
         /\ awaits'[c] = x /\ \A d \in Awaited \ {c} : awaits'[d] = awaits[d]
         /\ Here' = Here
  BY AwaitsType DEF Becomes, CallsPlaced, Here

LEMMA ThenBecomes ==
  ASSUME DetailInv, NEW c \in Awaited, NEW to \in DetailStages \ {"idle", "over"},
         awaits[c].stage \notin {"idle", "over"},
         to \in {"prepare", "create", "finalize"} =>
           awaits[c].stage \in {"prepare", "create", "finalize"},
         Then(c, to), UNCHANGED <<page, install>>
  PROVE  \E x : Becomes(c, x) /\ x.stage = to /\ x.of = awaits[c].of
<1> DEFINE x == Sent(to, awaits[c].of, awaits[c].package)
<1>1. /\ awaits[c].of \in Keys /\ awaits[c].package \in Packages \cup {Nobody}
      /\ to \in {"prepare", "create", "finalize"} => awaits[c].package \in Packages
  BY AwaitsType DEF DetailCalls, Placed
<1>2. x \in DetailCalls /\ Placed(x) /\ x.stage = to /\ x.of = awaits[c].of
  BY <1>1, SentType
<1>3. awaits' = [awaits EXCEPT ![c] = x]
  BY AwaitsType DEF Then
<1> QED BY <1>2, <1>3 DEF Becomes

LEMMA OverBecomes ==
  ASSUME DetailInv, NEW c \in Awaited, Over(c), UNCHANGED <<page, install>>
  PROVE  \E x : Becomes(c, x) /\ x.stage \in {"idle", "over"}
  BY EndsType DEF Over, Becomes

LEMMA SentBecomes ==
  ASSUME DetailInv, NEW c \in Awaited, NEW to \in DetailStages \ {"idle", "over"},
         NEW p \in Packages \cup {Nobody},
         to \in {"prepare", "create", "finalize"} => p \in Packages,
         page # Nobody, awaits' = [awaits EXCEPT ![c] = Sent(to, Here, p)],
         UNCHANGED <<page, install>>
  PROVE  \E x : Becomes(c, x) /\ x.stage = to /\ x.of = Here
<1> DEFINE x == Sent(to, Here, p)
<1>1. Here \in Keys
  BY HereIsKey DEF DetailInv
<1>2. x \in DetailCalls /\ Placed(x) /\ x.stage = to /\ x.of = Here
  BY <1>1, SentType
<1>3. awaits' = [awaits EXCEPT ![c] = x]
  OBVIOUS
<1> HIDE DEF x
<1> QED BY <1>2, <1>3 DEF Becomes

\* The rest of the state keeps its types.
RestType ==
  /\ page \in Xapps \cup {Nobody} /\ install \in Installations \cup {Nobody}
  /\ return \in [Xapps -> Paid \cup {Nobody}]
  /\ handled \in [xapp : Xapps, return : Paid] \cup {Nobody}
  /\ shown \in [of : Keys, owned : SUBSET Grants] \cup {Nobody}
  /\ notice \in {"none", "finalizing", "finalized", "cancelled"} /\ error \in BOOLEAN
  /\ busy \in Packages \cup {Nobody} /\ acting \in BOOLEAN /\ confirm \in BOOLEAN
  /\ cancelled \in BOOLEAN /\ late \in BOOLEAN
  /\ owned \in [Xapps -> SUBSET Grants]
  /\ paying \in [xapp : Xapps, package : Packages] \cup {Nobody}

LEMMA TypeParts == DetailTypeOK <=> RestType /\ awaits \in [Awaited -> DetailCalls]
  BY DEF DetailTypeOK, RestType, DetailCalls, DetailAnswers

\* A step of the call c that keeps what is shown: c was not a read under way, or it goes
\* on for the page it was for, and the effect begins nothing for another page.
LEMMA QuietKeeps ==
  ASSUME DetailInv, NEW c \in Awaited, NEW x, Becomes(c, x), RestType',
         c \in Loads => \/ awaits[c].stage # "read"
                        \/ x.stage = "read" /\ x.of = awaits[c].of,
         c = Effect => \/ x.stage \in {"idle", "over"}
                       \/ awaits[c].stage \notin {"idle", "over"} /\ x.of = awaits[c].of,
         UNCHANGED <<shown, late, cancelled>>
  PROVE  DetailInv'
<1> USE DEF DetailInv
<1>1. /\ awaits' \in [Awaited -> DetailCalls] /\ CallsPlaced'
      /\ awaits'[c] = x /\ \A d \in Awaited \ {c} : awaits'[d] = awaits[d]
      /\ Here' = Here
  BY BecomesType
<1>2. DetailTypeOK'
  BY <1>1, TypeParts DEF DetailTypeOK, RestType, DetailCalls, DetailAnswers
<1>3. EffectHere'
  BY <1>1, AwaitsType DEF EffectHere
<1>4. AccessCurrent'
  <2>1. shown # Nobody /\ shown.of # Here =>
          late \/ \E l \in Loads : awaits[l].stage = "read" /\ awaits[l].of = Here
    BY DEF AccessCurrent, Here
  <2>2. \A l \in Loads : awaits[l].stage = "read" =>
          awaits'[l].stage = "read" /\ awaits'[l].of = awaits[l].of
    BY <1>1, AwaitsType
  <2> QED BY <1>1, <2>1, <2>2 DEF AccessCurrent, Here
<1> QED BY <1>1, <1>2, <1>3, <1>4

\* A step of the call c that writes what is shown, for the page or else late.
LEMMA WriteKeeps ==
  ASSUME DetailInv, NEW c \in Awaited, NEW x, Becomes(c, x), RestType',
         \/ shown' = Nobody
         \/ shown'.of = Here
         \/ late',
         c = Effect => x.stage \in {"idle", "over"},
         UNCHANGED cancelled
  PROVE  DetailInv'
<1> USE DEF DetailInv
<1>1. /\ awaits' \in [Awaited -> DetailCalls] /\ CallsPlaced'
      /\ awaits'[c] = x /\ \A d \in Awaited \ {c} : awaits'[d] = awaits[d]
      /\ Here' = Here
  BY BecomesType
<1>2. DetailTypeOK'
  BY <1>1 DEF DetailTypeOK, RestType, DetailCalls, DetailAnswers
<1>3. EffectHere'
  BY <1>1, AwaitsType DEF EffectHere
<1>4. AccessCurrent'
  BY <1>1 DEF AccessCurrent, Here
<1> QED BY <1>1, <1>2, <1>3, <1>4

\* What is written is the answer to a call of some page, told apart from the one there is.
LEMMA WriteType ==
  ASSUME DetailInv, NEW c \in Awaited, awaits[c].stage \notin {"idle", "over"}, Write(c)
  PROVE  /\ shown' \in [of : Keys, owned : SUBSET Grants] /\ late' \in BOOLEAN
         /\ shown'.of = awaits[c].of
         /\ c # Effect => shown'.of = Here \/ late'
<1>1. awaits[c].of \in Keys /\ awaits[c].seen \in SUBSET Grants
  BY AwaitsType DEF DetailCalls, Placed
<1> QED BY <1>1 DEF Write, Here

-----------------------------------------------------------------------------
\* The render, which the read of its effect follows.
LEMMA RenderKeeps ==
  ASSUME DetailInv, NEW l \in Loads, NEW x \in Xapps, NEW i \in Installations \cup {Nobody},
         NEW r \in Paid \cup {Nobody}, NEW mounted \in BOOLEAN,
         Render(l, x, i, r, mounted), awaits[l] = Idle,
         mounted \/ <<x, i>> # <<page, install>>,
         shown' \in {shown, Nobody}, owned' = owned,
         busy' \in {busy, Nobody}, acting' \in BOOLEAN, confirm' \in BOOLEAN,
         paying' \in {paying, Nobody}
  PROVE  DetailInv'
<1> DEFINE key == [xapp |-> x, install |-> i]
           new == r # Nobody /\ (mounted \/ handled # [xapp |-> x, return |-> r])
           reads == mounted \/ <<x, i>> # <<page, install>>
           old == IF mounted THEN [c \in Awaited |-> Ends(c)] ELSE awaits
<1> USE DEF DetailInv
<1>0. /\ key \in Keys /\ key' = key /\ Here' = key /\ page' = x /\ install' = i
      /\ l \in Awaited /\ l # Effect /\ Effect \in Awaited
  BY AwaitsType, DetailAssumption DEF Keys, Here, Render
<1>1. /\ cancelled' = ~(new /\ r.status = "paid")
      /\ awaits' = [c \in Awaited |->
           IF c = l /\ reads THEN Sent("read", key, Nobody)
           ELSE IF c = Effect /\ new /\ r.status = "paid" THEN Sent("finalize", key, r.package)
           ELSE old[c]]
  BY DEF Render
<1>2. \A c \in Awaited : old[c] \in DetailCalls /\ Placed(old[c])
  BY AwaitsType, EndsType
<1>3. Sent("read", key, Nobody) \in DetailCalls /\ Placed(Sent("read", key, Nobody))
      /\ Sent("read", key, Nobody).stage = "read" /\ Sent("read", key, Nobody).of = key
  BY <1>0, SentType DEF DetailStages
<1>4. r # Nobody =>
        /\ Sent("finalize", key, r.package) \in DetailCalls
        /\ Placed(Sent("finalize", key, r.package))
        /\ Sent("finalize", key, r.package).of = key
  <2>1. r # Nobody => r.package \in Packages
    BY DEF Paid
  <2> QED BY <1>0, <2>1, SentType DEF DetailStages
<1>5. /\ awaits' \in [Awaited -> DetailCalls] /\ CallsPlaced'
      /\ awaits'[l].stage = "read" /\ awaits'[l].of = key
      /\ ~cancelled' => awaits'[Effect].of = key
  <2> HIDE DEF key, old
  <2>1. awaits'[l] = Sent("read", key, Nobody)
    BY <1>0, <1>1
  <2>2. ~cancelled' => r # Nobody /\ awaits'[Effect] = Sent("finalize", key, r.package)
    BY <1>0, <1>1
  <2>3. \A c \in Awaited :
          \/ awaits'[c] = Sent("read", key, Nobody)
          \/ r # Nobody /\ awaits'[c] = Sent("finalize", key, r.package)
          \/ awaits'[c] = old[c]
    BY <1>1
  <2>4. \A c \in Awaited : awaits'[c] \in DetailCalls /\ Placed(awaits'[c])
    BY <1>2, <1>3, <1>4, <2>3
  <2> QED BY <1>1, <1>3, <1>4, <2>1, <2>2, <2>4 DEF CallsPlaced
<1>6. RestType'
  <2>1. /\ return' \in [Xapps -> Paid \cup {Nobody}]
        /\ handled' \in [xapp : Xapps, return : Paid] \cup {Nobody}
    BY DEF Render, DetailTypeOK
  <2>2. notice' \in {"none", "finalizing", "finalized", "cancelled"} /\ error' \in BOOLEAN
    BY DEF Render, DetailTypeOK
  <2>3. cancelled' \in BOOLEAN /\ late' \in BOOLEAN
    BY <1>1 DEF Render
  <2> HIDE DEF key
  <2> QED BY <1>0, <2>1, <2>2, <2>3 DEF DetailTypeOK, RestType
<1>7. DetailTypeOK'
  BY <1>5, <1>6 DEF DetailTypeOK, RestType, DetailCalls, DetailAnswers
<1>8. EffectHere'
  BY <1>0, <1>5 DEF EffectHere
<1>9. AccessCurrent'
  BY <1>0, <1>5 DEF AccessCurrent, Here
<1> QED BY <1>5, <1>7, <1>8, <1>9

LEMMA PageKeeps ==
  ASSUME DetailInv, NEW l \in Loads, NEW i \in Installations \cup {Nobody},
         \/ \E x \in Xapps, r \in Paid \cup {Nobody} : Open(l, x, i, r)
         \/ \E x \in Xapps : Navigate(l, x, i)
         \/ InstallationChanges(l, i)
  PROVE  DetailInv'
<1> USE DEF DetailInv
<1>1. ASSUME NEW x \in Xapps, NEW r \in Paid \cup {Nobody}, Open(l, x, i, r) PROVE DetailInv'
  BY <1>1, RenderKeeps DEF Open
<1>2. ASSUME NEW x \in Xapps, Navigate(l, x, i) PROVE DetailInv'
  BY <1>2, RenderKeeps DEF Navigate, DetailTypeOK
<1>3. CASE InstallationChanges(l, i)
  BY <1>3, RenderKeeps, HereIsKey DEF InstallationChanges, DetailTypeOK
<1> QED BY <1>1, <1>2, <1>3

LEMMA VisibleKeeps ==
  ASSUME DetailInv, NEW l \in Loads, Visible(l)
  PROVE  DetailInv'
<1>1. l \in Awaited /\ l # Effect /\ awaits[l].stage = "idle"
  BY DetailAssumption DEF Awaited, Visible, Idle
<1>2. /\ page # Nobody /\ UNCHANGED <<page, install>>
      /\ awaits' = [awaits EXCEPT ![l] = Sent("read", Here, Nobody)]
  BY DEF Visible, Here
<1>3. PICK x : Becomes(l, x)
  BY <1>1, <1>2, SentBecomes DEF DetailStages
<1>4. RestType' /\ UNCHANGED <<shown, late, cancelled>>
  BY DEF Visible, DetailInv, DetailTypeOK, RestType, display
<1> QED BY <1>1, <1>3, <1>4, QuietKeeps

\* The server answers a call and may grant an access.
LEMMA ServerKeeps ==
  ASSUME DetailInv, NEW c \in Awaited, ServerHandles(c)
  PROVE  DetailInv'
<1> DEFINE asked == awaits[c]
<1>1. /\ asked \in DetailCalls /\ asked.stage \notin {"idle", "over"} /\ asked.of \in Keys
      /\ asked.stage = "finalize" => asked.package \in Packages
      /\ owned \in [Xapps -> SUBSET Grants] /\ asked.of.xapp \in Xapps
  BY AwaitsType DEF ServerHandles, Placed, Keys, DetailInv, DetailTypeOK
<1>2. PICK answer \in {"ok", "failed"} :
        awaits' = [awaits EXCEPT ![c].answer = answer, ![c].seen = owned[asked.of.xapp]]
  BY DEF ServerHandles
<1> DEFINE x == [asked EXCEPT !.answer = answer, !.seen = owned[asked.of.xapp]]
<1>3. x \in DetailCalls /\ x.stage = asked.stage /\ x.of = asked.of /\ x.package = asked.package
  BY <1>1 DEF DetailCalls, DetailAnswers
<1>4. awaits' = [awaits EXCEPT ![c] = x]
  BY <1>2, AwaitsType
<1>5. Becomes(c, x)
  <2>1. Placed(x)
    BY <1>1, <1>3, AwaitsType DEF Placed
  <2> HIDE DEF x
  <2> QED BY <1>3, <1>4, <2>1 DEF Becomes, ServerHandles
<1>6. owned' \in [Xapps -> SUBSET Grants]
  BY <1>1 DEF ServerHandles, Grants
<1>7. RestType' /\ UNCHANGED <<shown, late, cancelled>>
  BY <1>6 DEF ServerHandles, DetailInv, DetailTypeOK, RestType, display
<1> HIDE DEF x
<1> QED BY <1>1, <1>3, <1>5, <1>7, QuietKeeps

LEMMA LoadedKeeps ==
  ASSUME DetailInv, NEW l \in Loads, Loaded(l)
  PROVE  DetailInv'
<1>0. l \in Awaited /\ l # Effect /\ awaits[l].stage = "read"
  BY DetailAssumption DEF Awaited, Loaded, Answered, Rejected
<1>1. PICK x : Becomes(l, x) /\ x.stage \in {"idle", "over"}
  BY <1>0, OverBecomes DEF Loaded
<1>2. /\ shown' \in [of : Keys, owned : SUBSET Grants] \cup {Nobody} /\ late' \in BOOLEAN
      /\ shown' = Nobody \/ shown'.of = Here \/ late'
  BY <1>0, WriteType DEF Loaded
<1>3. RestType' /\ UNCHANGED cancelled
  BY <1>2 DEF Loaded, DetailInv, DetailTypeOK, RestType, display
<1> QED BY <1>0, <1>1, <1>2, <1>3, WriteKeeps

-----------------------------------------------------------------------------
\* The finalization of a return: the effect writes only if it was not cleaned up.
LEMMA ReturnKeeps ==
  ASSUME DetailInv, ReturnFinalized \/ ReturnShown \/ ReturnFailed
  PROVE  DetailInv'
<1> USE DEF DetailInv
<1>0. Effect \in Awaited /\ Effect \notin Loads
  BY DetailAssumption DEF Awaited
<1>1. CASE ReturnFinalized
  <2>1. awaits[Effect].stage = "finalize" /\ Then(Effect, "read") /\ UNCHANGED <<page, install>>
    BY <1>1 DEF ReturnFinalized, Answered
  <2>2. PICK x : Becomes(Effect, x) /\ x.of = awaits[Effect].of
    BY <1>0, <2>1, ThenBecomes DEF DetailStages
  <2>3. RestType' /\ UNCHANGED <<shown, late, cancelled>>
    BY <1>1 DEF ReturnFinalized, DetailTypeOK, RestType, display
  <2> QED BY <1>0, <2>1, <2>2, <2>3, QuietKeeps
<1>2. CASE ReturnShown
  <2>1. awaits[Effect].stage = "read" /\ UNCHANGED <<page, install, cancelled>>
    BY <1>2 DEF ReturnShown, Answered
  <2>2. PICK x : Becomes(Effect, x) /\ x.stage \in {"idle", "over"}
    BY <1>0, <1>2, <2>1, OverBecomes DEF ReturnShown
  <2>3. CASE StillLive
    <3>1. awaits[Effect].of = Here
      BY <2>1, <2>3 DEF EffectHere, StillLive
    <3>2. /\ shown' \in [of : Keys, owned : SUBSET Grants] /\ late' \in BOOLEAN
          /\ shown'.of = Here
      BY <1>0, <1>2, <2>1, <2>3, <3>1, WriteType DEF ReturnShown
    <3>3. RestType'
      BY <1>2, <2>1, <2>3, <3>2 DEF ReturnShown, DetailTypeOK, RestType
    <3> QED BY <1>0, <2>1, <2>2, <3>2, <3>3, WriteKeeps
  <2>4. CASE ~StillLive
    <3>1. RestType' /\ UNCHANGED <<shown, late, cancelled>>
      BY <1>2, <2>4 DEF ReturnShown, DetailTypeOK, RestType
    <3> QED BY <1>0, <2>2, <3>1, QuietKeeps
  <2> QED BY <2>3, <2>4
<1>3. CASE ReturnFailed
  <2>1. PICK x : Becomes(Effect, x) /\ x.stage \in {"idle", "over"}
    BY <1>0, <1>3, OverBecomes DEF ReturnFailed
  <2>2. notice' \in {"none", notice} /\ error' \in BOOLEAN
    BY <1>3 DEF ReturnFailed, DetailTypeOK
  <2>3. RestType' /\ UNCHANGED <<shown, late, cancelled>>
    BY <1>3, <2>2 DEF ReturnFailed, DetailTypeOK, RestType
  <2> QED BY <1>0, <2>1, <2>3, QuietKeeps
<1> QED BY <1>1, <1>2, <1>3

-----------------------------------------------------------------------------
\* The checkouts.
LEMMA StartKeeps ==
  ASSUME DetailInv, NEW c \in Checkouts, NEW p \in Packages, StartCheckout(c, p)
  PROVE  DetailInv'
<1>0. c \in Awaited /\ c # Effect /\ c \notin Loads
  BY DetailAssumption DEF Awaited
<1>1. PICK x : Becomes(c, x)
  BY <1>0, SentBecomes DEF StartCheckout, Here, DetailStages
<1>2. RestType' /\ UNCHANGED <<shown, late, cancelled>>
  BY DEF StartCheckout, DetailInv, DetailTypeOK, RestType
<1> QED BY <1>0, <1>1, <1>2, QuietKeeps

LEMMA CheckoutGoesOn ==
  ASSUME DetailInv, NEW c \in Awaited, Prepared(c) \/ PaidAlready(c) \/ Purchased(c)
  PROVE  DetailInv'
<1>1. PICK to \in {"create", "finalize", "read"} :
        /\ Then(c, to)
        /\ awaits[c].stage \in {"prepare", "create", "finalize"}
  BY DEF Prepared, PaidAlready, Purchased, Answered
<1>2. UNCHANGED <<page, install, shown, late, cancelled>>
  BY DEF Prepared, PaidAlready, Purchased
<1>3. PICK x : Becomes(c, x) /\ x.of = awaits[c].of
  BY <1>1, <1>2, ThenBecomes DEF DetailStages
<1>4. /\ notice' \in {"finalizing", notice} /\ error' \in BOOLEAN
      /\ UNCHANGED <<return, handled, busy, acting, confirm, owned, paying>>
  BY DEF Prepared, PaidAlready, Purchased, DetailInv, DetailTypeOK, display
<1>5. RestType'
  BY <1>2, <1>4 DEF DetailInv, DetailTypeOK, RestType
<1> QED BY <1>1, <1>2, <1>3, <1>5, QuietKeeps

LEMMA RedirectedKeeps ==
  ASSUME DetailInv, NEW c \in Awaited, Redirected(c)
  PROVE  DetailInv'
<1>1. awaits[c].of.xapp \in Xapps /\ awaits[c].package \in Packages
  BY AwaitsType DEF Redirected, Answered, Placed, Keys
<1>2. RestType'
  BY <1>1 DEF Redirected, DetailInv, DetailTypeOK, RestType
<1>3. /\ awaits' \in [Awaited -> DetailCalls] /\ CallsPlaced'
      /\ Effect \in Awaited /\ awaits'[Effect].stage \in {"idle", "over"}
  BY EndsType, AwaitsType DEF Redirected, CallsPlaced
<1>4. DetailTypeOK'
  BY <1>2, <1>3 DEF DetailTypeOK, RestType, DetailCalls, DetailAnswers
<1>5. EffectHere' /\ AccessCurrent'
  BY <1>3 DEF EffectHere, AccessCurrent, Redirected
<1> QED BY <1>3, <1>4, <1>5 DEF DetailInv

LEMMA CheckoutEnds ==
  ASSUME DetailInv, NEW c \in Awaited, PurchaseShown(c) \/ CheckoutFailed(c)
  PROVE  DetailInv'
<1>0. c # Effect /\ c \notin Loads /\ UNCHANGED <<page, install, cancelled>>
  BY DetailAssumption DEF PurchaseShown, CheckoutFailed
<1>1. PICK x : Becomes(c, x) /\ x.stage \in {"idle", "over"}
  BY <1>0, OverBecomes DEF PurchaseShown, CheckoutFailed
<1>2. CASE PurchaseShown(c)
  <2>1. awaits[c].stage = "read" /\ Write(c)
    BY <1>2 DEF PurchaseShown, Answered
  <2>2. /\ shown' \in [of : Keys, owned : SUBSET Grants] /\ late' \in BOOLEAN
        /\ shown'.of = Here \/ late'
    BY <1>0, <2>1, WriteType
  <2>3. RestType'
    BY <1>2, <2>2 DEF PurchaseShown, DetailInv, DetailTypeOK, RestType
  <2> QED BY <1>0, <1>1, <2>2, <2>3, WriteKeeps
<1>3. CASE CheckoutFailed(c)
  <2>1. RestType' /\ UNCHANGED <<shown, late>>
    BY <1>3 DEF CheckoutFailed, DetailInv, DetailTypeOK, RestType
  <2> QED BY <1>0, <1>1, <2>1, QuietKeeps
<1> QED BY <1>2, <1>3

-----------------------------------------------------------------------------
\* The subscription.
LEMMA DialogKeeps ==
  ASSUME DetailInv, AskCancel \/ DismissCancel
  PROVE  DetailInv'
<1>1. UNCHANGED <<page, install, shown, awaits, cancelled, late>>
  BY DEF AskCancel, DismissCancel
<1>2. DetailTypeOK'
  BY DEF AskCancel, DismissCancel, DetailInv, DetailTypeOK
<1> QED BY <1>1, <1>2 DEF DetailInv, CallsPlaced, EffectHere, AccessCurrent, Here

LEMMA ChangeKeeps ==
  ASSUME DetailInv, NEW c \in Changes, ChangeSubscription(c)
  PROVE  DetailInv'
<1>0. c \in Awaited /\ c # Effect /\ c \notin Loads
  BY DetailAssumption DEF Awaited
<1>1. /\ page # Nobody /\ UNCHANGED <<page, install>>
      /\ awaits' = [awaits EXCEPT ![c] = Sent("contract", Here, Nobody)]
      /\ awaits[c].stage = "idle"
  BY DEF ChangeSubscription, Here, Idle
<1>2. PICK x : Becomes(c, x)
  BY <1>0, <1>1, SentBecomes DEF DetailStages
<1>3. RestType' /\ UNCHANGED <<shown, late, cancelled>>
  BY DEF ChangeSubscription, DetailInv, DetailTypeOK, RestType
<1> QED BY <1>0, <1>2, <1>3, QuietKeeps

LEMMA ChangedKeeps ==
  ASSUME DetailInv, NEW c \in Awaited, SubscriptionChanged(c) \/ ChangeOver(c)
  PROVE  DetailInv'
<1>0. c # Effect /\ c \notin Loads /\ UNCHANGED <<page, install, cancelled>>
  BY DetailAssumption DEF SubscriptionChanged, ChangeOver
<1>1. CASE SubscriptionChanged(c)
  <2>1. PICK to \in {"read", "history"} :
          Then(c, to) /\ awaits[c].stage \in {"contract", "read"}
    BY <1>1 DEF SubscriptionChanged, Answered, Rejected
  <2>2. PICK x : Becomes(c, x)
    BY <1>0, <2>1, ThenBecomes DEF DetailStages
  <2>3. CASE UNCHANGED <<shown, late>>
    <3>1. RestType'
      BY <1>1, <2>3 DEF SubscriptionChanged, DetailInv, DetailTypeOK, RestType, display
    <3> QED BY <1>0, <2>2, <2>3, <3>1, QuietKeeps
  <2>4. CASE Write(c) \/ (shown' = Nobody /\ late' = FALSE)
    <3>1. /\ shown' \in [of : Keys, owned : SUBSET Grants] \cup {Nobody} /\ late' \in BOOLEAN
          /\ shown' = Nobody \/ shown'.of = Here \/ late'
      BY <1>0, <2>1, <2>4, WriteType
    <3>2. RestType'
      BY <1>1, <3>1 DEF SubscriptionChanged, DetailInv, DetailTypeOK, RestType, display
    <3> QED BY <1>0, <2>2, <3>1, <3>2, WriteKeeps
  <2> QED BY <1>1, <2>3, <2>4 DEF SubscriptionChanged
<1>2. CASE ChangeOver(c)
  <2>1. PICK x : Becomes(c, x) /\ x.stage \in {"idle", "over"}
    BY <1>0, <1>2, OverBecomes DEF ChangeOver
  <2>2. acting' = FALSE /\ confirm' \in BOOLEAN
    BY <1>2 DEF ChangeOver, DetailInv, DetailTypeOK
  <2>3. /\ page' = page /\ install' = install /\ return' = return /\ handled' = handled
        /\ shown' = shown /\ notice' = notice /\ error' = error /\ busy' = busy
        /\ cancelled' = cancelled /\ owned' = owned /\ paying' = paying /\ late' = late
    BY <1>2 DEF ChangeOver
  <2>4. RestType
    BY TypeParts DEF DetailInv
  <2>5. RestType'
    BY <2>2, <2>3, <2>4 DEF RestType
  <2> QED BY <1>0, <2>1, <2>3, <2>5, QuietKeeps
<1> QED BY <1>1, <1>2

-----------------------------------------------------------------------------
LEMMA DetailInitInv == DetailInit => DetailInv
<1> SUFFICES ASSUME DetailInit PROVE DetailInv
  OBVIOUS
<1>1. Idle \in DetailCalls /\ Placed(Idle) /\ Idle.stage = "idle"
  BY DEF Idle, DetailCalls, Placed, DetailStages, DetailAnswers
<1>2. DetailTypeOK
  BY <1>1 DEF DetailInit, DetailTypeOK, Grants, DetailCalls, DetailAnswers
<1>3. CallsPlaced /\ EffectHere
  BY <1>1 DEF DetailInit, CallsPlaced, EffectHere, Awaited
<1> QED BY <1>2, <1>3 DEF DetailInit, DetailInv, AccessCurrent

LEMMA DetailNextInv == DetailInv /\ [DetailNext]_detailVars => DetailInv'
<1> SUFFICES ASSUME DetailInv, [DetailNext]_detailVars PROVE DetailInv'
  OBVIOUS
<1>1. CASE UNCHANGED detailVars
  BY <1>1 DEF DetailInv, DetailTypeOK, CallsPlaced, EffectHere, AccessCurrent, Here,
              detailVars, display
<1>2. ASSUME NEW c \in Awaited, Proceed(c) PROVE DetailInv'
  BY <1>2, ServerKeeps, LoadedKeeps, ReturnKeeps, CheckoutGoesOn, RedirectedKeeps, CheckoutEnds,
     ChangedKeeps DEF Proceed
<1>3. CASE DetailNext
  BY <1>2, <1>3, PageKeeps, VisibleKeeps, StartKeeps, DialogKeeps, ChangeKeeps DEF DetailNext
<1> QED BY <1>1, <1>3

LEMMA DetailInvHolds == DetailSpec => []DetailInv
  BY DetailInitInv, DetailNextInv, PTL DEF DetailSpec

\* The state of the detail page keeps its types.
THEOREM DetailTypeCorrect == DetailSpec => []DetailTypeOK
  BY DetailInvHolds, PTL DEF DetailInv

\* The page shows the access for another xapp or installation only while its own read is
\* under way or because a call begun before ended late, and the effect that finalizes a
\* return never makes it so, for any xapps, reads, checkouts and changes.
THEOREM AccessStaysCurrent == DetailSpec => []AccessCurrent
  BY DetailInvHolds, PTL DEF DetailInv

(***************************************************************************)
(* The page: the five parts side by side, as MCHostPage composes them.     *)
(***************************************************************************)

\* Each part keeps its invariant: it takes its own steps or none.
PageInv == HostInv /\ IInv /\ SurfaceInv /\ ClientInv /\ DetailInv

LEMMA PageStep == PageInv /\ [PageNext]_pageVars => PageInv'
<1> SUFFICES ASSUME PageInv, [PageNext]_pageVars PROVE PageInv'
  OBVIOUS
<1>1. [HostNext]_hostVars /\ [BridgeNext]_bridgeVars
  BY DEF PageNext, pageVars
<1>2. [SurfaceNext]_surfaceVars /\ [ClientNext]_clientVars /\ [DetailNext]_detailVars
  BY DEF PageNext, pageVars
<1> QED BY <1>1, <1>2, HostNextInv, StepIInv, SurfaceNextInv, ClientNextInv, DetailNextInv
       DEF PageInv

\* The parts of the page are well typed side by side, for any hosts, calls, tokens,
\* attempts and xapps (CatalogHost, WidgetBridge, SurfaceSession, CallbackClient,
\* DetailPage).
THEOREM PageTypeCorrect == PageSpec => []PageTypeOK
<1>1. PageInit => PageInv
  BY HostInitInv, InitIInv, SurfaceInitInv, ClientInitInv, DetailInitInv DEF PageInit, PageInv
<1>2. PageInv => PageTypeOK
  BY DEF PageInv, PageTypeOK, HostInv, IInv, SurfaceInv, ClientInv, DetailInv
<1> QED BY <1>1, <1>2, PageStep, PTL DEF PageSpec
=============================================================================
