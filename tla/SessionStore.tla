----------------------------- MODULE SessionStore -----------------------------
(***************************************************************************)
(* What the store of a host session promises to the routes that ask it     *)
(* (the HostSessionStore of backend-kit): a request that began before the  *)
(* session's token was over is let through only when the session is not    *)
(* revoked as it is answered, one that began later is not let through, and *)
(* who is told that the session is revoked can rely on it.                 *)
(***************************************************************************)
CONSTANTS Touches, Revokes

VARIABLES
  session,   \* "live", "revoked" or "over"
  asked,     \* the state of a touch: "late" when it began with the token over
  told       \* the state of a revoke

vars == <<session, asked, told>>

Init ==
  /\ session = "live"
  /\ asked = [t \in Touches |-> "idle"]
  /\ told = [r \in Revokes |-> "idle"]

Begin(t) ==
  /\ asked[t] = "idle"
  /\ asked' = [asked EXCEPT ![t] = IF session = "over" THEN "late" ELSE "open"]
  /\ UNCHANGED <<session, told>>

Admit(t) ==
  /\ asked[t] = "open" /\ session # "revoked"
  /\ asked' = [asked EXCEPT ![t] = "admitted"]
  /\ UNCHANGED <<session, told>>

Refuse(t) ==
  /\ asked[t] \in {"open", "late"}
  /\ asked' = [asked EXCEPT ![t] = "refused"]
  /\ UNCHANGED <<session, told>>

Revoke ==
  /\ session = "live" /\ session' = "revoked"
  /\ \E r \in Revokes : told[r] = "open"
  /\ UNCHANGED asked

Call(r) ==
  /\ told[r] = "idle"
  /\ told' = [told EXCEPT ![r] = "open"]
  /\ UNCHANGED <<session, asked>>

Answer(r, ok) ==
  /\ told[r] = "open"
  /\ ok => session # "live"
  /\ told' = [told EXCEPT ![r] = IF ok THEN "done" ELSE "failed"]
  /\ UNCHANGED <<session, asked>>

\* One atomic revocation, recorded and answered at once.
RevokeAtOnce(r) ==
  /\ told[r] = "open"
  /\ told' = [told EXCEPT ![r] = "done"]
  /\ session' = IF session = "live" THEN "revoked" ELSE session
  /\ UNCHANGED asked

Expire ==
  /\ session # "over" /\ session' = "over"
  /\ UNCHANGED <<asked, told>>

Next ==
  \/ \E t \in Touches : Begin(t) \/ Admit(t) \/ Refuse(t)
  \/ \E r \in Revokes : Call(r) \/ RevokeAtOnce(r) \/ \E ok \in BOOLEAN : Answer(r, ok)
  \/ Revoke \/ Expire

Spec == Init /\ [][Next]_vars
=============================================================================
