---------------------------- MODULE CallbackClient ----------------------------
(***************************************************************************)
(* The callback client of server-sdk (createCallbackClient): a publisher's *)
(* backend sends events and the completion of a request to the gateway,    *)
(* and sends them again when an attempt fails.                             *)
(*                                                                         *)
(* An attempt may fail and reach the gateway all the same: while the next  *)
(* is under way, after the call was given up, or with an answer that was   *)
(* lost or could not be read.  The gateway is external: it is taken to do  *)
(* what is asked with one Idempotency-Key once.                            *)
(***************************************************************************)
EXTENDS FiniteSets, Naturals

CONSTANTS
  Sends,         \* calls of sendEvent and complete
  Keyed,         \* those with an idempotency key, from the caller or the factory
  MaxAttempts    \* maxAttempts of the retry policy

ASSUME ClientAssumption == Keyed \subseteq Sends /\ MaxAttempts \in 1 .. 6

VARIABLES
  send,       \* where a call stands
  attempt,    \* the attempt it makes
  arrived,    \* what became of each attempt at the gateway
  effects     \* gateway: what was done: the key, or the attempt without one

clientVars == <<send, attempt, arrived, effects>>

-----------------------------------------------------------------------------
Attempts == 1 .. MaxAttempts

\* Mutant of KeyOf: every attempt has a key of its own.
KeyOfAttempt(c, n) == n

\* The key of a call is found before its first attempt; 0 is none.
KeyOf(c, n) == 0

ClientTypeOK ==
  /\ send \in [Sends -> {"idle", "waiting", "sleeping", "ok", "failed"}]
  /\ attempt \in [Sends -> 0 .. MaxAttempts]
  /\ arrived \in [Sends -> [Attempts -> {"unsent", "sent", "done", "refused"}]]
  /\ effects \subseteq Sends \X (0 .. MaxAttempts)

ClientInit ==
  /\ send = [c \in Sends |-> "idle"]
  /\ attempt = [c \in Sends |-> 0]
  /\ arrived = [c \in Sends |-> [n \in Attempts |-> "unsent"]]
  /\ effects = {}

\* postJsonOnce: at once, and after the delay of a retry.
Attempt(c) ==
  /\ send[c] \in {"idle", "sleeping"}
  /\ send' = [send EXCEPT ![c] = "waiting"]
  /\ attempt' = [attempt EXCEPT ![c] = @ + 1]
  /\ arrived' = [arrived EXCEPT ![c][attempt'[c]] = "sent"]
  /\ UNCHANGED effects

\* The gateway takes an attempt, the last or an earlier one, and does it or refuses it.
Take(c, n) ==
  /\ arrived[c][n] = "sent"
  /\ \/ /\ arrived' = [arrived EXCEPT ![c][n] = "done"]
        /\ effects' = effects \cup {<<c, IF c \in Keyed THEN KeyOf(c, n) ELSE n>>}
     \/ /\ arrived' = [arrived EXCEPT ![c][n] = "refused"]
        /\ UNCHANGED effects
  /\ UNCHANGED <<send, attempt>>

\* The answer is read.
Succeed(c) ==
  /\ send[c] = "waiting" /\ arrived[c][attempt[c]] = "done"
  /\ send' = [send EXCEPT ![c] = "ok"]
  /\ UNCHANGED <<attempt, arrived, effects>>

\* Mutant of GiveUp: one more attempt.
GiveUpLate(c) == attempt[c] > MaxAttempts

GiveUp(c) == attempt[c] >= MaxAttempts

\* No answer, one that cannot be read, or a status of retryOnStatus, whatever the
\* gateway did or will do.
FailRetryable(c) ==
  /\ send[c] = "waiting"
  /\ send' = [send EXCEPT ![c] = IF GiveUp(c) THEN "failed" ELSE "sleeping"]
  /\ UNCHANGED <<attempt, arrived, effects>>

\* Another status: no retry.
FailAtOnce(c) ==
  /\ send[c] = "waiting" /\ arrived[c][attempt[c]] = "refused"
  /\ send' = [send EXCEPT ![c] = "failed"]
  /\ UNCHANGED <<attempt, arrived, effects>>

ClientNext ==
  \E c \in Sends :
    \/ Attempt(c) \/ Succeed(c) \/ FailRetryable(c) \/ FailAtOnce(c)
    \/ \E n \in Attempts : Take(c, n)

ClientSpec == ClientInit /\ [][ClientNext]_clientVars

-----------------------------------------------------------------------------
\* However many attempts a call with a key makes, and whichever of them reach the gateway
\* late, what it asks for is done once at most; a call that succeeded was done; and one
\* without a key is done no more often than it was attempted (postJson).
Done(c) == {e \in effects : e[1] = c}
CallbackOnce ==
  /\ \A c \in Sends : send[c] = "ok" => Done(c) # {}
  /\ \A c \in Keyed : Cardinality(Done(c)) <= 1
  /\ \A c \in Sends : Cardinality(Done(c)) <= attempt[c]
=============================================================================
