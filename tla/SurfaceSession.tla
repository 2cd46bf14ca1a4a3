---------------------------- MODULE SurfaceSession ----------------------------
(***************************************************************************)
(* The session of a mounted surface of browser-host (mountXappsSurface in  *)
(* embed-surface.ts): the bootstrap token in memory and in local storage,  *)
(* its exchange for a session cookie, the refresh of the identity and the  *)
(* calls of the host API that need them.                                   *)
(*                                                                         *)
(* Refresh and exchange are shared: whoever comes while one is under way   *)
(* waits for it, and all who wait go on at once (promise callbacks run     *)
(* before the next answer of the network).  Tokens are numbered as they    *)
(* are issued, 0 is no token.  The host's server is external.              *)
(*                                                                         *)
(* Assumed of the application: an identity that it gives to a mount has a  *)
(* new token.  The code keeps and sends the one it is given, spent or not. *)
(***************************************************************************)
EXTENDS Naturals

CONSTANTS
  ApiCalls,    \* calls of the host API (fetchWithBootstrap)
  MaxTokens    \* bound: bootstrap tokens issued

ASSUME SurfaceAssumption == MaxTokens \in Nat

VARIABLES
  surface,     \* "off", "mounting", "mounted" or "failed"
  identity,    \* the token of currentIdentity
  stored,      \* the token of the stored identity, which outlives the page
  useHostSession,
  refreshing,  \* refreshInFlight
  exchange,    \* exchangeHostSessionInFlight: its step, and the token it was sent with
  call,        \* where a call stands
  logout,      \* "none", "sent" or "ended" (sessionEnded)
  issued,      \* server: the last token issued
  consumed,    \* server: the tokens exchanged
  answered     \* history: those whose exchange the page knows of

tokens      == <<identity, stored>>
server      == <<issued, consumed>>
surfaceVars == <<surface, tokens, useHostSession, refreshing, exchange, call, logout,
                 server, answered>>

-----------------------------------------------------------------------------
Tokens == 0 .. MaxTokens
NoExchange == [step |-> "none", token |-> 0]
SentWith(t) == [step |-> "sent", token |-> t]

\* "token" and "session" wait for a refresh, "exchange" for the renewed session; "again"
\* is the last attempt.
CallSteps == {"idle", "sent", "token", "session", "exchange", "again", "done"}

SurfaceTypeOK ==
  /\ surface \in {"off", "mounting", "mounted", "failed"}
  /\ identity \in Tokens /\ stored \in Tokens
  /\ useHostSession \in BOOLEAN /\ refreshing \in BOOLEAN
  /\ exchange \in [step : {"none", "sent", "renewing"}, token : Tokens]
  /\ call \in [ApiCalls -> CallSteps]
  /\ logout \in {"none", "sent", "ended"}
  /\ issued \in Tokens
  /\ consumed \subseteq Tokens /\ answered \subseteq consumed

\* The calls that stand at one of the given steps go on to the next.
Advance(from, to) == [c \in ApiCalls |-> IF call[c] = from THEN to ELSE call[c]]

SurfaceInit ==
  /\ surface = "off" /\ identity = 0 /\ stored = 0
  /\ useHostSession = FALSE /\ refreshing = FALSE
  /\ exchange = NoExchange
  /\ call = [c \in ApiCalls |-> "idle"]
  /\ logout = "none"
  /\ issued = 0 /\ consumed = {} /\ answered = {}

-----------------------------------------------------------------------------
\* Mounting.  With a bootstrap URL the token is exchanged first.

Start(t, exchanged) ==
  /\ identity' = t
  /\ surface' = IF exchanged /\ t # 0 THEN "mounting" ELSE "mounted"
  /\ exchange' = IF exchanged /\ t # 0 THEN SentWith(t) ELSE NoExchange

\* A stored identity is used, with its token unless that has expired.
MountStored(t, exchanged) ==
  /\ surface = "off"
  /\ t = stored /\ (exchanged => t # 0)
  /\ Start(t, exchanged)
  /\ UNCHANGED <<stored, useHostSession, refreshing, call, logout, server, answered>>

\* Otherwise one is given with a new token, bootstrapped or refreshed.
MountFresh(exchanged) ==
  /\ surface = "off" /\ issued < MaxTokens
  /\ issued' = issued + 1
  /\ Start(issued', exchanged)
  /\ stored' = issued'
  /\ UNCHANGED <<useHostSession, refreshing, call, logout, consumed, answered>>

\* The page is left or loaded again; the server may still answer what was sent.
Unload ==
  /\ surface # "off"
  /\ surface' = "off" /\ identity' = 0
  /\ useHostSession' = FALSE /\ refreshing' = FALSE
  /\ exchange' = NoExchange
  /\ call' = [c \in ApiCalls |-> "idle"]
  /\ logout' = "none"
  /\ consumed' \in {consumed} \cup
       (IF exchange.step = "sent" THEN {consumed \cup {exchange.token}} ELSE {})
  /\ UNCHANGED <<stored, issued, answered>>

-----------------------------------------------------------------------------
\* The exchange.

\* Mutant of StoredAfter: the token is taken out of memory only.
StoredAfterMemoryOnly == stored

\* stripBootstrapState, written to the storage.
StoredAfter == 0

Exchanged ==
  /\ exchange.step = "sent" /\ exchange.token \notin consumed
  /\ consumed' = consumed \cup {exchange.token}
  /\ answered' = answered \cup {exchange.token}
  /\ exchange' = NoExchange
  /\ useHostSession' = TRUE
  /\ identity' = 0 /\ stored' = StoredAfter
  /\ surface' = IF surface = "mounting" THEN "mounted" ELSE surface
  /\ call' = Advance("exchange", "again")
  /\ UNCHANGED <<refreshing, logout, issued>>

\* The exchange throws: a mount fails with it, the calls keep their first answer.
GiveUpExchange ==
  /\ exchange' = NoExchange
  /\ surface' = IF surface = "mounting" THEN "failed" ELSE surface

\* Refused (a token consumed before is), not available, or the answer is lost.
ExchangeFails ==
  /\ exchange.step = "sent"
  /\ consumed' \in {consumed, consumed \cup {exchange.token}}
  /\ GiveUpExchange
  /\ call' = Advance("exchange", "done")
  /\ UNCHANGED <<tokens, useHostSession, refreshing, logout, issued, answered>>

\* 401, with a token that has expired.
ExchangeExpired ==
  /\ exchange.step = "sent"
  /\ exchange' = [exchange EXCEPT !.step = "renewing"]
  /\ refreshing' = TRUE
  /\ UNCHANGED <<surface, tokens, useHostSession, call, logout, server, answered>>

-----------------------------------------------------------------------------
\* tryRefreshIdentity

\* All who wait go on with the new token, whatever has come between: those who wait for
\* a session by one exchange.
Refreshed ==
  LET renew == \E c \in ApiCalls : call[c] = "session" IN
  /\ refreshing /\ issued < MaxTokens
  /\ refreshing' = FALSE
  /\ issued' = issued + 1
  /\ identity' = issued'
  /\ stored' \in {stored, issued'}
  /\ useHostSession' = (useHostSession /\ ~renew)
  /\ exchange' = IF exchange.step = "renewing" \/ (renew /\ exchange.step = "none")
                 THEN SentWith(issued') ELSE exchange
  /\ call' = [c \in ApiCalls |-> CASE call[c] = "token" -> "again"
                                [] call[c] = "session" -> "exchange"
                                [] OTHER -> call[c]]
  /\ UNCHANGED <<surface, logout, consumed, answered>>

RefreshFails ==
  /\ refreshing
  /\ refreshing' = FALSE
  /\ IF exchange.step = "renewing" THEN GiveUpExchange ELSE UNCHANGED <<exchange, surface>>
  /\ call' = [c \in ApiCalls |->
       IF \/ call[c] \in {"token", "session"}
          \/ call[c] = "exchange" /\ exchange.step = "renewing"
       THEN "done" ELSE call[c]]
  /\ UNCHANGED <<tokens, useHostSession, logout, server, answered>>

-----------------------------------------------------------------------------
\* ApiCalls of the host API, and logout.

Go(c, step) == call' = [call EXCEPT ![c] = step]

Send(c) ==
  /\ surface = "mounted" /\ call[c] = "idle"
  /\ Go(c, "sent")
  /\ UNCHANGED <<surface, tokens, useHostSession, refreshing, exchange, logout, server, answered>>

\* The answer to the first attempt or to the last.
Answer(c) ==
  /\ call[c] \in {"sent", "again"}
  /\ Go(c, "done")
  /\ UNCHANGED <<surface, tokens, useHostSession, refreshing, exchange, logout, server, answered>>

\* 401 for the token, or for the session if one is in use as the answer comes.
Unauthorized(c, need) ==
  /\ call[c] = "sent"
  /\ need = "session" => useHostSession
  /\ Go(c, need)
  /\ refreshing' = TRUE
  /\ UNCHANGED <<surface, tokens, useHostSession, exchange, logout, server, answered>>

Logout ==
  /\ surface = "mounted" /\ logout = "none"
  /\ logout' = "sent"
  /\ UNCHANGED <<surface, tokens, useHostSession, refreshing, exchange, call, server, answered>>

LoggedOut(ok) ==
  /\ logout = "sent"
  /\ logout' = IF ok THEN "ended" ELSE "none"
  /\ IF ok THEN useHostSession' = FALSE /\ identity' = 0 /\ stored' = 0
     ELSE UNCHANGED <<tokens, useHostSession>>
  /\ UNCHANGED <<surface, refreshing, exchange, call, server, answered>>

SurfaceNext ==
  \/ \E exchanged \in BOOLEAN : MountFresh(exchanged) \/ \E t \in Tokens : MountStored(t, exchanged)
  \/ Unload \/ Exchanged \/ ExchangeFails \/ ExchangeExpired \/ Refreshed \/ RefreshFails
  \/ \E c \in ApiCalls : Send(c) \/ Answer(c) \/ \E need \in {"token", "session"} : Unauthorized(c, need)
  \/ Logout \/ \E ok \in BOOLEAN : LoggedOut(ok)

SurfaceSpec == SurfaceInit /\ [][SurfaceNext]_surfaceVars

-----------------------------------------------------------------------------
\* A token whose exchange has been answered is spent: it is not in memory, not in the
\* storage that the next mount reads, and not sent again, whatever refreshes, logouts and
\* calls overlap with the exchange (exchangeHostSession, tryRefreshIdentity).
TokenSpent ==
  answered \cap {identity, stored, exchange.token} = {}
=============================================================================
