----------------------------- MODULE HostSession -----------------------------
(***************************************************************************)
(* Host sessions of backend-kit: the routes of                             *)
(* routes/gateway/hostApiCore.ts and hostApiLifecycle.ts that exchange a   *)
(* bootstrap token for a session cookie, authenticate with that cookie and *)
(* log it out, over the records that fileHostStore.ts or redisHostStore.ts *)
(* keep.                                                                   *)
(*                                                                         *)
(* A request is a handler running in the event loop of some replica: it    *)
(* goes on from one awaited store call to the next, so that the calls of   *)
(* different requests, and the clock, interleave between any two of them.  *)
(* One store call is one step here (one critical section of the file lock, *)
(* one Redis command or Lua script); what happens inside a call is the     *)
(* matter of FileStateLock.                                                *)
(*                                                                         *)
(* A record [jti |-> expiry] of a store is a function to the second at     *)
(* which the record stops counting, 0 when there is none.  Tokens are      *)
(* represented by their jti; signatures, origins and the payload beside    *)
(* jti and exp are left out: a forged token never gets past verification.  *)
(***************************************************************************)
EXTENDS Naturals

CONSTANTS
  Requests,          \* concurrent handlers, each serving one request at a time
  BootTokens,        \* jtis of host bootstrap tokens
  Sessions,          \* jtis of host sessions
  Nobody,            \* stands for "no token" in a request or a session
  Backend,           \* "file" or "redis": the helper that keeps the records
  BootstrapTtl,      \* host.bootstrap.ttlSeconds
  AbsoluteTtl,       \* host.session.absoluteTtlSeconds
  IdleTtls,          \* values of host.session.idleTtlSeconds, 0: no idle expiry
  ReplayFallback,    \* fallbackTtlSeconds of the replay consumer
  RevokeFallback,    \* lifetime of a revocation of an expired session (1800)
  Grace,             \* graceSeconds of the Redis helpers
  MaxLatency,        \* bound: seconds a handler is in flight at most
  MaxTime            \* bound: the last second of the clock

ASSUME BackendAssumption ==
  /\ Backend \in {"file", "redis"}
  /\ Nobody \notin BootTokens \cup Sessions
ASSUME TtlAssumption ==
  /\ {BootstrapTtl, AbsoluteTtl, ReplayFallback, RevokeFallback} \subseteq Nat \ {0}
  /\ IdleTtls \subseteq Nat
  /\ {Grace, MaxLatency, MaxTime} \subseteq Nat
ASSUME FileHasNoGrace == Backend = "file" => Grace = 0

VARIABLES
  idleTtl,     \* the idleTtlSeconds of this deployment
  now,         \* Math.floor(Date.now() / 1000), the same on every replica
  bootExp,     \* exp of an issued bootstrap token, 0 before it is issued
  sessExp,     \* exp of a minted session token, 0 before it is minted
  delivered,   \* the sessions whose cookie was sent to the browser
  replay,      \* replay records, by bootstrap jti
  revoked,     \* revocation records, by session jti
  idle,        \* idleExpiresAt of the session state records, by session jti
  req,         \* what each handler is doing
  consumed,    \* history: bootstrap tokens consumeJti ever accepted
  minted,      \* history: the bootstrap token a session was minted from
  everRevoked, \* history: sessions whose revocation was ever recorded
  lastActive   \* history: when a session was last activated or touched

records == <<replay, revoked, idle>>
tokens  == <<idleTtl, bootExp, sessExp, delivered>>
history == <<consumed, minted, everRevoked, lastActive>>
vars    == <<now, tokens, records, req, history>>

-----------------------------------------------------------------------------
Kinds == {"exchange", "api", "logout"}
Busy  == {"consume", "build", "activate", "checkRevoked", "touch",
          "accepted", "delete", "report", "rejected"}

HandlerState == [pc : {"idle"} \cup Busy, kind : Kinds,
                 boot : BootTokens \cup {Nobody}, sess : Sessions \cup {Nobody},
                 at : Nat, late : BOOLEAN]

Resting == [pc |-> "idle", kind |-> "api", boot |-> Nobody, sess |-> Nobody,
            at |-> 0, late |-> FALSE]

\* Mutant of Least: Math.max for Math.min.
Greatest(a, b) == IF a < b THEN b ELSE a

Least(a, b) == IF a < b THEN a ELSE b

\* A record is in force while its expiry is in the future.
InForce(record) == record > now

\* The records a file keeps when it is rewritten; Redis expires its keys by itself.
Pruned(record) ==
  IF Backend = "file"
  THEN [jti \in DOMAIN record |-> IF InForce(record[jti]) THEN record[jti] ELSE 0]
  ELSE record

\* Mutants of RecordUntil: the grace is forgotten; the fallback is always used; a
\* lifetime is stored where a date is due.
RecordUntilBare(exp, fallback) == IF exp > now THEN exp ELSE now + fallback
RecordUntilFallback(exp, fallback) == now + fallback
RecordUntilRelative(exp, fallback) == IF exp > now THEN exp - now ELSE fallback

\* The expiry given to the record of a token: its own, or a fallback when the
\* token is already expired, and the grace of the Redis helper on top.
RecordUntil(exp, fallback) ==
  (IF exp > now THEN exp ELSE now + fallback) + Grace

\* Mutant of UnexpiredState: the entries of the file are not carried over.
UnexpiredStateFresh == [s \in Sessions |-> 0]

\* The session state entries that a file write keeps.
UnexpiredState == [s \in Sessions |-> IF sessExp[s] > now THEN idle[s] ELSE 0]
ActiveState    == [s \in Sessions |->
                     IF sessExp[s] > now /\ InForce(idle[s]) THEN idle[s] ELSE 0]

Goto(r, pc) == req' = [req EXCEPT ![r].pc = pc]

\* Mutant of Begin: the two tokens are swapped.
BeginSwapped(r, kind, boot, sess, valid, pc, late) ==
  req' = [req EXCEPT ![r] =
            [pc |-> IF valid THEN pc ELSE "rejected", kind |-> kind,
             boot |-> sess, sess |-> boot, at |-> now, late |-> late]]

\* A request on a token is taken up: it goes on at pc when the token is valid.
Begin(r, kind, boot, sess, valid, pc, late) ==
  req' = [req EXCEPT ![r] =
            [pc |-> IF valid THEN pc ELSE "rejected", kind |-> kind,
             boot |-> boot, sess |-> sess, at |-> now, late |-> late]]

\* The reply is sent; the handler is free for another request.
Reply(r) == req' = [req EXCEPT ![r] = Resting]

-----------------------------------------------------------------------------
TypeOK ==
  /\ idleTtl \in IdleTtls
  /\ now \in Nat
  /\ bootExp \in [BootTokens -> Nat]
  /\ sessExp \in [Sessions -> Nat]
  /\ delivered \subseteq Sessions
  /\ replay \in [BootTokens -> Nat]
  /\ revoked \in [Sessions -> Nat]
  /\ idle \in [Sessions -> Nat]
  /\ req \in [Requests -> HandlerState]
  /\ consumed \subseteq BootTokens
  /\ minted \in [Sessions -> BootTokens \cup {Nobody}]
  /\ everRevoked \subseteq Sessions
  /\ lastActive \in [Sessions -> Nat]

Init ==
  /\ idleTtl \in IdleTtls
  /\ now = 0
  /\ bootExp = [b \in BootTokens |-> 0]
  /\ sessExp = [s \in Sessions |-> 0]
  /\ delivered = {}
  /\ replay = [b \in BootTokens |-> 0]
  /\ revoked = [s \in Sessions |-> 0]
  /\ idle = [s \in Sessions |-> 0]
  /\ req = [r \in Requests |-> Resting]
  /\ consumed = {}
  /\ minted = [s \in Sessions |-> Nobody]
  /\ everRevoked = {}
  /\ lastActive = [s \in Sessions |-> 0]

-----------------------------------------------------------------------------
(* POST /api/host-bootstrap: a tenant backend is given a bootstrap token.    *)
IssueBootstrap(b) ==
  /\ bootExp[b] = 0
  /\ bootExp' = [bootExp EXCEPT ![b] = now + BootstrapTtl]
  /\ UNCHANGED <<idleTtl, now, sessExp, delivered, records, req, history>>

(* POST /api/host-session/exchange: the token is verified (its expiry with   *)
(* it), then, after the rate limiter, consumed.                              *)
VerifyBootstrap(r, b) ==
  /\ req[r].pc = "idle"
  /\ bootExp[b] # 0
  /\ Begin(r, "exchange", b, Nobody, now < bootExp[b], "consume", FALSE)
  /\ UNCHANGED <<now, tokens, records, history>>

\* consumeJti: refused when a replay record of the token is in force.
ConsumeBootstrap(r) ==
  LET b == req[r].boot IN
  /\ req[r].pc = "consume"
  /\ \/ /\ InForce(replay[b])
        /\ Goto(r, "rejected")
        /\ UNCHANGED <<replay, consumed>>
     \/ /\ ~InForce(replay[b])
        /\ replay' = [Pruned(replay) EXCEPT ![b] = RecordUntil(bootExp[b], ReplayFallback)]
        /\ consumed' = consumed \cup {b}
        /\ Goto(r, "build")
  /\ UNCHANGED <<now, tokens, revoked, idle, minted, everRevoked, lastActive>>

\* buildHostSessionExchangeResult: a session with a fresh jti is signed.
MintSession(r, s) ==
  /\ req[r].pc = "build"
  /\ sessExp[s] = 0
  /\ sessExp' = [sessExp EXCEPT ![s] = now + AbsoluteTtl]
  /\ minted' = [minted EXCEPT ![s] = req[r].boot]
  /\ req' = [req EXCEPT ![r].pc = "activate", ![r].sess = s]
  /\ UNCHANGED <<idleTtl, now, bootExp, delivered, records, consumed, everRevoked, lastActive>>

\* activateHostSession, then the reply that sets the cookie.
ActivateSession(r) ==
  LET s == req[r].sess IN
  /\ req[r].pc = "activate"
  /\ IF idleTtl = 0
     THEN UNCHANGED idle
     ELSE idle' = [(IF Backend = "file" THEN UnexpiredState ELSE idle)
                     EXCEPT ![s] = Least(sessExp[s], now + idleTtl)]
  /\ delivered' = delivered \cup {s}
  /\ lastActive' = [lastActive EXCEPT ![s] = now]
  /\ Reply(r)
  /\ UNCHANGED <<idleTtl, now, bootExp, sessExp, replay, revoked, consumed, minted, everRevoked>>

-----------------------------------------------------------------------------
(* Every route that reads the cookie starts with readHostSessionContext:     *)
(* verify the token, ask isRevoked, touch the session.                       *)
VerifySession(r, s, kind) ==
  /\ req[r].pc = "idle"
  /\ s \in delivered
  /\ Begin(r, kind, Nobody, s, now < sessExp[s], "checkRevoked", s \in everRevoked)
  /\ UNCHANGED <<now, tokens, records, history>>

CheckRevoked(r) ==
  /\ req[r].pc = "checkRevoked"
  /\ revoked' = Pruned(revoked)
  /\ \/ InForce(revoked[req[r].sess]) /\ Goto(r, "rejected")
     \/ ~InForce(revoked[req[r].sess]) /\ idleTtl > 0 /\ Goto(r, "touch")
     \/ ~InForce(revoked[req[r].sess]) /\ idleTtl = 0 /\ Goto(r, "accepted")
  /\ UNCHANGED <<now, tokens, replay, idle, history>>

\* Mutant of Touchable: a touch writes an entry whether or not there is one.
TouchableUpsert(s) == sessExp[s] > now

\* Both helpers drop the state of an expired session; only Redis looks at the
\* revocation record again.
Touchable(s) ==
  /\ sessExp[s] > now
  /\ InForce(idle[s])
  /\ Backend = "redis" => ~InForce(revoked[s])

TouchSession(r) ==
  LET s == req[r].sess
      kept == IF Backend = "file" THEN ActiveState ELSE idle
  IN
  /\ req[r].pc = "touch"
  /\ \/ /\ Touchable(s)
        /\ idle' = [kept EXCEPT ![s] = Least(sessExp[s], now + idleTtl)]
        /\ lastActive' = [lastActive EXCEPT ![s] = now]
        /\ Goto(r, "accepted")
     \/ /\ ~Touchable(s)
        /\ idle' = [kept EXCEPT ![s] = 0]
        /\ Goto(r, "rejected")
        /\ UNCHANGED lastActive
  /\ UNCHANGED <<now, tokens, replay, revoked, consumed, minted, everRevoked>>

(* POST /api/host-session/logout, once its session is accepted.              *)
RevokeSession(r) ==
  LET s == req[r].sess IN
  /\ req[r].pc = "accepted"
  /\ req[r].kind = "logout"
  /\ revoked' = [Pruned(revoked) EXCEPT ![s] = RecordUntil(sessExp[s], RevokeFallback)]
  /\ everRevoked' = everRevoked \cup {s}
  /\ \/ Backend = "file" /\ Goto(r, "delete") /\ UNCHANGED idle
     \/ Backend = "redis" /\ Goto(r, "report") /\ idle' = [idle EXCEPT ![s] = 0]
  /\ UNCHANGED <<now, tokens, replay, consumed, minted, lastActive>>

\* The file store removes the state under the lock of another file.
DeleteState(r) ==
  /\ req[r].pc = "delete"
  /\ idle' = [UnexpiredState EXCEPT ![req[r].sess] = 0]
  /\ Goto(r, "report")
  /\ UNCHANGED <<now, tokens, replay, revoked, history>>

\* Mutant of ReportRevocation: the report is repeated until the gateway takes it.
ReportRetried(r) ==
  /\ req[r].pc = "report"
  /\ Goto(r, "report")
  /\ UNCHANGED <<now, tokens, records, history>>

\* The gateway is told, best effort: an error is logged and the reply is sent.
ReportRevocation(r) ==
  /\ req[r].pc = "report"
  /\ Reply(r)
  /\ UNCHANGED <<now, tokens, records, history>>

-----------------------------------------------------------------------------
\* A store call throws (the file cannot be locked, Redis is away), the rate
\* limiter refuses, or the exchange has no signing secret.
StepFails(r) ==
  /\ req[r].pc \in Busy \ {"report", "rejected"}
  /\ Reply(r)
  /\ UNCHANGED <<now, tokens, records, history>>

\* A refused request gets its 401 or 409; an accepted one is served.
Respond(r) ==
  /\ req[r].pc = "rejected" \/ (req[r].pc = "accepted" /\ req[r].kind = "api")
  /\ Reply(r)
  /\ UNCHANGED <<now, tokens, records, history>>

\* Redis drops the keys whose EX has run out.
Expired(record) ==
  IF Backend = "redis"
  THEN [jti \in DOMAIN record |-> IF record[jti] > now + 1 THEN record[jti] ELSE 0]
  ELSE record

Tick ==
  /\ now < MaxTime
  /\ \A r \in Requests : req[r].pc # "idle" => now < req[r].at + MaxLatency
  /\ now' = now + 1
  /\ replay' = Expired(replay)
  /\ revoked' = Expired(revoked)
  /\ UNCHANGED <<tokens, idle, req, history>>

Handler(r) ==
  \/ ConsumeBootstrap(r)
  \/ \E s \in Sessions : MintSession(r, s)
  \/ ActivateSession(r)
  \/ CheckRevoked(r)
  \/ TouchSession(r)
  \/ RevokeSession(r)
  \/ DeleteState(r)
  \/ ReportRevocation(r)
  \/ StepFails(r)
  \/ Respond(r)

Next ==
  \/ \E b \in BootTokens : IssueBootstrap(b)
  \/ \E r \in Requests, b \in BootTokens : VerifyBootstrap(r, b)
  \/ \E r \in Requests, s \in Sessions, kind \in {"api", "logout"} :
       VerifySession(r, s, kind)
  \/ \E r \in Requests : Handler(r)
  \/ Tick

Spec == Init /\ [][Next]_vars
FairSpec == Spec /\ \A r \in Requests : WF_vars(Handler(r))

-----------------------------------------------------------------------------
\* One bootstrap token is good for one session at most, however many exchanges
\* of it run at once on however many replicas (createFile- and
\* createRedisHostBootstrapReplayConsumer).
SingleMint ==
  \A s, t \in Sessions : minted[s] # Nobody /\ minted[s] = minted[t] => s = t

\* A request that starts once the revocation of its session is recorded never
\* gets past readHostSessionContext, also when the session expires on its way.
RevocationFinal ==
  \A r \in Requests : req[r].late => req[r].pc \in {"checkRevoked", "touch", "rejected"}

\* The record of a revocation outlives the token it revokes: pruning and key
\* expiry never bring a logged out session back.
RevocationOutlivesToken ==
  \A s \in everRevoked : now < sessExp[s] => InForce(revoked[s])

\* The state of a revoked session, once deleted, is not written again by a touch
\* or an activation still in flight.
NoResurrection ==
  [][\A s \in everRevoked : idle[s] = 0 => idle'[s] = 0]_vars

\* A touch is accepted only within idleTtl of the last activity of its session
\* and before the session's absolute end, wherever that activity was.
IdleWindow ==
  [][\A r \in Requests :
       req[r].pc = "touch" /\ req'[r].pc = "accepted" =>
         LET s == req[r].sess IN
           /\ now < lastActive[s] + idleTtl
           /\ now < sessExp[s]]_vars

\* No request is turned away by the records of others: a refused exchange means
\* the token was consumed, a refused session that it was revoked or has expired.
NoSpuriousReject ==
  [][\A r \in Requests :
       req[r].pc # "idle" /\ req[r].pc # "rejected" /\ req'[r].pc = "rejected" =>
         LET s == req[r].sess IN
           IF req[r].kind = "exchange"
           THEN req[r].boot \in consumed
           ELSE \/ s \in everRevoked
                \/ now >= sessExp[s]
                \/ now >= lastActive[s] + idleTtl]_vars

\* Every request is answered in the end: no handler waits on another.
RequestsAnswered ==
  \A r \in Requests : req[r].pc # "idle" ~> req[r].pc = "idle"
=============================================================================
