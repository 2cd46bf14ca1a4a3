---------------------------- MODULE RedisHostStore ----------------------------
(***************************************************************************)
(* The records of one host session in Redis (redisHostStore.ts): touch and *)
(* revoke of the session store, and the consumer of its bootstrap token.   *)
(*                                                                         *)
(* A command is sent in several argument forms, one after the other, until *)
(* one does not throw: a form may be refused, or applied with the answer   *)
(* lost.  Without EVAL, touch and revoke fall back to commands one by one, *)
(* between which other calls, the clock and the end of the process come.   *)
(* The clients share a clock; values other than times are left out.        *)
(***************************************************************************)
EXTENDS Integers

CONSTANTS
  Touches,     \* calls of touch
  Revokes,     \* calls of revoke
  Consumers,   \* calls of the replay consumer
  Exp,         \* exp of the session, and of its bootstrap token
  IdleTtl,     \* idleTtlSeconds
  Grace,       \* graceSeconds
  Fallback,    \* lifetime of records about a token that is over
  MaxTime      \* bound: the last second of the clock

ASSUME StoreAssumption ==
  /\ {Exp, IdleTtl, Grace, Fallback} \subseteq Nat \ {0}
  /\ MaxTime \in Nat

VARIABLES
  now,          \* seconds; the session is activated at 0
  state,        \* idleExpiresAt of the state record, and when the record expires
  revokedUntil, \* when the revocation record expires, 0 without one
  replayUntil,  \* when the record of the bootstrap token expires
  touch, revoke, consume   \* where the calls stand

storeVars == <<now, state, revokedUntil, replayUntil, touch, revoke, consume>>

-----------------------------------------------------------------------------
Forms == 1 .. 3      \* the argument forms of EVAL; SET has two

\* Mutant of MoreForms: one form too many.
MoreFormsLate(form) == form <= 3

MoreForms(form) == form < 3

AtMost(a, b) == IF a <= b THEN a ELSE b
AtLeast(a, b) == IF a >= b THEN a ELSE b

TouchSteps  == {"idle", "eval", "isRevoked", "read", "recheck", "write", "confirm", "drop"}
RevokeSteps == {"idle", "eval", "mark", "forget"}
CallEnds    == {"true", "false"}

Absent == [idle |-> 0, until |-> 0]
Present == state.until > 0
Revoked == revokedUntil > 0

Begun(at) == [step |-> "eval", form |-> 1, at |-> at]
Ended(e) == [step |-> e, form |-> 1, at |-> 0]

\* The lifetime of a record of the token, written at time at.
Lifetime(at) == AtLeast(1, (IF Exp > at THEN Exp - at ELSE Fallback) + Grace)
StateUntil(at) == now + AtLeast(1, Exp - at + Grace)

StoreTypeOK ==
  /\ now \in 0 .. MaxTime
  /\ state \in [idle : Nat, until : Nat]
  /\ revokedUntil \in Nat /\ replayUntil \in Nat
  /\ touch \in [Touches -> [step : TouchSteps \cup CallEnds, form : Forms, at : Nat]]
  /\ revoke \in [Revokes -> [step : RevokeSteps \cup CallEnds, form : Forms, at : Nat]]
  /\ consume \in [Consumers -> [step : {"idle", "set", "late"} \cup CallEnds,
                                form : Forms, at : Nat]]

\* activate has been awaited before the session's token leaves the server.
StoreInit ==
  /\ now = 0
  /\ state = [idle |-> AtMost(Exp, IdleTtl), until |-> AtLeast(1, Exp + Grace)]
  /\ revokedUntil = 0 /\ replayUntil = 0
  /\ touch = [t \in Touches |-> Ended("idle")]
  /\ revoke = [r \in Revokes |-> Ended("idle")]
  /\ consume = [c \in Consumers |-> Ended("idle")]

\* Redis drops what expires.
Tick ==
  /\ now < MaxTime /\ now' = now + 1
  /\ state' = IF state.until <= now' THEN Absent ELSE state
  /\ revokedUntil' = IF revokedUntil <= now' THEN 0 ELSE revokedUntil
  /\ replayUntil' = IF replayUntil <= now' THEN 0 ELSE replayUntil
  /\ UNCHANGED <<touch, revoke, consume>>

-----------------------------------------------------------------------------
\* touch

GoTouch(t, s) == touch' = [touch EXCEPT ![t].step = s]
EndTouch(t, ok) == touch' = [touch EXCEPT ![t] = Ended(IF ok THEN "true" ELSE "false")]

BeginTouch(t) ==
  /\ touch[t].step = "idle"
  /\ touch' = [touch EXCEPT ![t] = Begun(now)]
  /\ UNCHANGED <<now, state, revokedUntil, replayUntil, revoke, consume>>

\* TOUCH_SESSION_STATE_LUA: the record is there, not revoked and in its idle time.
Touchable(at) == Present /\ ~Revoked /\ at < Exp /\ at < state.idle
TouchScript(at) ==
  state' = IF Touchable(at) THEN [idle |-> AtMost(Exp, at + IdleTtl), until |-> StateUntil(at)]
           ELSE Absent

EvalTouch(t) ==
  /\ touch[t].step = "eval"
  /\ TouchScript(touch[t].at)
  /\ EndTouch(t, Touchable(touch[t].at))
  /\ UNCHANGED <<now, revokedUntil, replayUntil, revoke, consume>>

\* It throws, applied or not: the next form, and then commands one by one.
EvalTouchThrows(t) ==
  /\ touch[t].step = "eval"
  /\ UNCHANGED state \/ TouchScript(touch[t].at)
  /\ IF MoreForms(touch[t].form) THEN touch' = [touch EXCEPT ![t].form = @ + 1]
     ELSE touch' = [touch EXCEPT ![t].step = "isRevoked", ![t].form = 1]
  /\ UNCHANGED <<now, revokedUntil, replayUntil, revoke, consume>>

\* The looks at the revocation record before the read, before the write and after it.
Check(t, at, next) ==
  /\ touch[t].step = at
  /\ GoTouch(t, IF Revoked THEN "drop" ELSE next)
  /\ UNCHANGED <<now, state, revokedUntil, replayUntil, revoke, consume>>

\* Mutant of Confirm: the write is the last step.
ConfirmNothing(t) ==
  /\ touch[t].step = "confirm" /\ EndTouch(t, TRUE)
  /\ UNCHANGED <<now, state, revokedUntil, replayUntil, revoke, consume>>

Confirm(t) ==
  /\ touch[t].step = "confirm"
  /\ IF Revoked THEN GoTouch(t, "drop") ELSE EndTouch(t, TRUE)
  /\ UNCHANGED <<now, state, revokedUntil, replayUntil, revoke, consume>>

ReadState(t) ==
  /\ touch[t].step = "read"
  /\ \/ ~Present /\ EndTouch(t, FALSE)
     \/ Present /\ (now >= Exp \/ now >= state.idle) /\ GoTouch(t, "drop")
     \/ /\ Present /\ now < Exp /\ now < state.idle
        /\ touch' = [touch EXCEPT ![t].step = "recheck", ![t].at = now]
  /\ UNCHANGED <<now, state, revokedUntil, replayUntil, revoke, consume>>

\* SET EX of what was read and decided before; a first form may be applied and throw.
WriteState(t) ==
  /\ touch[t].step = "write"
  /\ state' = [idle |-> AtMost(Exp, touch[t].at + IdleTtl), until |-> StateUntil(touch[t].at)]
  /\ \/ GoTouch(t, "confirm")
     \/ touch[t].form = 1 /\ touch' = [touch EXCEPT ![t].form = 2]
  /\ UNCHANGED <<now, revokedUntil, replayUntil, revoke, consume>>
WriteThrows(t) ==
  /\ touch[t].step = "write" /\ touch[t].form = 1
  /\ touch' = [touch EXCEPT ![t].form = 2]
  /\ UNCHANGED <<now, state, revokedUntil, replayUntil, revoke, consume>>

Drop(t) ==
  /\ touch[t].step = "drop"
  /\ state' = Absent
  /\ EndTouch(t, FALSE)
  /\ UNCHANGED <<now, revokedUntil, replayUntil, revoke, consume>>

\* A command throws in its last form, or the process ends: whoever called is not served.
StopTouch(t) ==
  /\ touch[t].step \in TouchSteps \ {"idle"}
  /\ touch' = [touch EXCEPT ![t] = Ended("false")]
  /\ UNCHANGED <<now, state, revokedUntil, replayUntil, revoke, consume>>

-----------------------------------------------------------------------------
\* revoke

GoRevoke(r, s) == revoke' = [revoke EXCEPT ![r].step = s]

BeginRevoke(r) ==
  /\ revoke[r].step = "idle"
  /\ revoke' = [revoke EXCEPT ![r] = Begun(now)]
  /\ UNCHANGED <<now, state, revokedUntil, replayUntil, touch, consume>>

MarkRevoked(at) == revokedUntil' = now + Lifetime(at)

\* REVOKE_SESSION_STATE_LUA
EvalRevoke(r) ==
  /\ revoke[r].step = "eval"
  /\ MarkRevoked(revoke[r].at) /\ state' = Absent
  /\ revoke' = [revoke EXCEPT ![r] = Ended("true")]
  /\ UNCHANGED <<now, replayUntil, touch, consume>>
EvalRevokeThrows(r) ==
  /\ revoke[r].step = "eval"
  /\ \/ UNCHANGED <<state, revokedUntil>>
     \/ MarkRevoked(revoke[r].at) /\ state' = Absent
  /\ IF MoreForms(revoke[r].form) THEN revoke' = [revoke EXCEPT ![r].form = @ + 1]
     ELSE revoke' = [revoke EXCEPT ![r].step = "mark", ![r].form = 1]
  /\ UNCHANGED <<now, replayUntil, touch, consume>>

MarkByCommand(r) ==
  /\ revoke[r].step = "mark"
  /\ MarkRevoked(revoke[r].at)
  /\ \/ GoRevoke(r, "forget")
     \/ revoke[r].form = 1 /\ revoke' = [revoke EXCEPT ![r].form = 2]
  /\ UNCHANGED <<now, state, replayUntil, touch, consume>>
MarkThrows(r) ==
  /\ revoke[r].step = "mark" /\ revoke[r].form = 1
  /\ revoke' = [revoke EXCEPT ![r].form = 2]
  /\ UNCHANGED <<now, state, revokedUntil, replayUntil, touch, consume>>

ForgetState(r) ==
  /\ revoke[r].step = "forget"
  /\ state' = Absent
  /\ revoke' = [revoke EXCEPT ![r] = Ended("true")]
  /\ UNCHANGED <<now, revokedUntil, replayUntil, touch, consume>>

StopRevoke(r) ==
  /\ revoke[r].step \in RevokeSteps \ {"idle"}
  /\ revoke' = [revoke EXCEPT ![r] = Ended("false")]
  /\ UNCHANGED <<now, state, revokedUntil, replayUntil, touch, consume>>

-----------------------------------------------------------------------------
\* The replay consumer

BeginConsume(c) ==
  /\ consume[c].step = "idle"
  /\ consume' = [consume EXCEPT ![c] = [step |-> "set", form |-> 1, at |-> now]]
  /\ UNCHANGED <<now, state, revokedUntil, replayUntil, touch, revoke>>

\* Mutant of MaySet: the second form lacks NX.
MaySetPlain(c) == replayUntil = 0 \/ consume[c].form = 2

\* SET NX EX, in each of its forms: the record is written where there is none.
MaySet(c) == replayUntil = 0

\* Whoever writes the record has consumed the token; "late" once no record outlives it.
Consume(c) ==
  /\ consume[c].step = "set"
  /\ \/ /\ MaySet(c)
        /\ replayUntil' = now + Lifetime(consume[c].at)
        /\ consume' = [consume EXCEPT ![c] = Ended(IF now < Exp + Grace THEN "true" ELSE "late")]
     \/ /\ ~MaySet(c)
        /\ consume' = [consume EXCEPT ![c] = Ended("false")]
        /\ UNCHANGED replayUntil
  /\ UNCHANGED <<now, state, revokedUntil, touch, revoke>>

\* The first form throws, applied or not.
ConsumeThrows(c) ==
  /\ consume[c].step = "set" /\ consume[c].form = 1
  /\ consume' = [consume EXCEPT ![c].form = 2]
  /\ \/ UNCHANGED replayUntil
     \/ MaySet(c) /\ replayUntil' = now + Lifetime(consume[c].at)
  /\ UNCHANGED <<now, state, revokedUntil, touch, revoke>>

StopConsume(c) ==
  /\ consume[c].step = "set"
  /\ consume' = [consume EXCEPT ![c] = Ended("false")]
  /\ UNCHANGED <<now, state, revokedUntil, replayUntil, touch, revoke>>

SessionNext ==
  \/ \E t \in Touches :
       \/ BeginTouch(t) \/ EvalTouch(t) \/ EvalTouchThrows(t) \/ ReadState(t)
       \/ Check(t, "isRevoked", "read") \/ Check(t, "recheck", "write") \/ Confirm(t)
       \/ WriteState(t) \/ WriteThrows(t) \/ Drop(t) \/ StopTouch(t)
  \/ \E r \in Revokes :
       \/ BeginRevoke(r) \/ EvalRevoke(r) \/ EvalRevokeThrows(r)
       \/ MarkByCommand(r) \/ MarkThrows(r) \/ ForgetState(r) \/ StopRevoke(r)

ReplayNext ==
  \E c \in Consumers : BeginConsume(c) \/ Consume(c) \/ ConsumeThrows(c) \/ StopConsume(c)

StoreNext == Tick \/ SessionNext \/ ReplayNext

StoreSpec == StoreInit /\ [][StoreNext]_storeVars

-----------------------------------------------------------------------------
\* While its token lives, and as long as the records outlive it, a bootstrap token is
\* consumed by one exchange at most, whatever is lost and sent again (redisSetWithNxEx).
ConsumedOnce ==
  \A c, d \in Consumers : consume[c].step = "true" /\ consume[d].step = "true" => c = d

\* What a session, a touch and a revoke are to the callers of the store.
SessionNow == IF now >= Exp THEN "over" ELSE IF Revoked THEN "revoked" ELSE "live"
AskedOf(call) ==
  CASE call.step = "idle" -> "idle"
    [] call.step = "true" -> "admitted"
    [] call.step = "false" -> "refused"
    [] OTHER -> IF call.at >= Exp THEN "late" ELSE "open"
ToldOf(call) ==
  CASE call.step = "idle" -> "idle"
    [] call.step = "true" -> "done"
    [] call.step = "false" -> "failed"
    [] OTHER -> "open"

\* What SessionStore promises holds without EVAL and with lost answers: commands one by
\* one are as good as the scripts (touch and revoke of createRedisHostSessionStore).
Store == INSTANCE SessionStore WITH
  session <- SessionNow,
  asked <- [t \in Touches |-> AskedOf(touch[t])],
  told <- [r \in Revokes |-> ToldOf(revoke[r])]
StorePromise == Store!Spec
=============================================================================
