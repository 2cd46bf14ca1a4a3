-------------------------- MODULE RedisHostStoreProofs --------------------------
(***************************************************************************)
(* The records in Redis keep the promise of the session store, with and    *)
(* without EVAL, and let a bootstrap token be consumed once, for any       *)
(* number of calls and any lifetimes.                                      *)
(***************************************************************************)
EXTENDS RedisHostStore, TLAPS

\* Calls began before now, and a touch that has read the state did so with the token
\* alive.
CallsBegun ==
  /\ \A t \in Touches : /\ touch[t].at <= now
                        /\ touch[t].step \in {"recheck", "write", "confirm"} => touch[t].at < Exp
  /\ \A r \in Revokes : revoke[r].at <= now
  /\ \A c \in Consumers : consume[c].at <= now

\* The records outlive the token they are about.
RecordsOutlive ==
  /\ Revoked /\ now < Exp => revokedUntil > Exp
  /\ \A r \in Revokes : revoke[r].step \in {"forget", "true"} /\ now < Exp => Revoked
  /\ \A c \in Consumers : consume[c].step = "true" /\ now < Exp + Grace => replayUntil >= Exp + Grace

StoreInv == StoreTypeOK /\ CallsBegun /\ RecordsOutlive /\ ConsumedOnce

TouchRecords   == [step : TouchSteps \cup CallEnds, form : Forms, at : Nat]
RevokeRecords  == [step : RevokeSteps \cup CallEnds, form : Forms, at : Nat]
ConsumeRecords == [step : {"idle", "set", "late"} \cup CallEnds, form : Forms, at : Nat]

-----------------------------------------------------------------------------
\* The lifetimes.

\* A record written now, for a call that began before, outlives the token and its grace.
LEMMA LifetimeLong ==
  ASSUME NEW at \in Nat, StoreTypeOK, at <= now
  PROVE  Lifetime(at) \in Nat /\ Lifetime(at) >= 1 /\ now + Lifetime(at) >= Exp + Grace
  BY StoreAssumption DEF StoreTypeOK, Lifetime, AtLeast

LEMMA StateTimes ==
  ASSUME NEW at \in Nat, StoreTypeOK
  PROVE  StateUntil(at) \in Nat /\ AtMost(Exp, at + IdleTtl) \in Nat
  BY StoreAssumption DEF StoreTypeOK, StateUntil, AtLeast, AtMost

LEMMA ScriptType ==
  ASSUME NEW at \in Nat, StoreTypeOK, TouchScript(at)
  PROVE  state' \in [idle : Nat, until : Nat]
  BY StateTimes DEF TouchScript, Absent

-----------------------------------------------------------------------------
\* A step of a touch leaves the clock and the records of revocation and replay alone; to
\* its caller it begins, ends or goes on.

TouchMayBe(t, x) ==
  \/ AskedOf(x) = AskedOf(touch[t])
  \/ AskedOf(touch[t]) = "idle" /\ AskedOf(x) = (IF now >= Exp THEN "late" ELSE "open")
  \/ AskedOf(touch[t]) = "open" /\ AskedOf(x) = "admitted" /\ SessionNow # "revoked"
  \/ AskedOf(touch[t]) \in {"open", "late"} /\ AskedOf(x) = "refused"

TouchMoves(t) ==
  /\ \E x \in TouchRecords :
       /\ touch' = [touch EXCEPT ![t] = x] /\ x.at <= now /\ TouchMayBe(t, x)
       /\ x.step \in {"recheck", "write", "confirm"} => x.at < Exp
  /\ state' \in [idle : Nat, until : Nat]
  /\ UNCHANGED <<now, revokedUntil, replayUntil, revoke, consume>>

LEMMA TouchKeeps ==
  ASSUME StoreInv, NEW t \in Touches, TouchMoves(t)
  PROVE  StoreInv' /\ [Store!Next]_(Store!vars)
<1> USE DEF StoreInv
<1>1. PICK x \in TouchRecords : /\ touch' = [touch EXCEPT ![t] = x] /\ x.at <= now
                                /\ TouchMayBe(t, x)
                                /\ x.step \in {"recheck", "write", "confirm"} => x.at < Exp
  BY DEF TouchMoves
<1>2. StoreTypeOK'
  BY <1>1 DEF StoreTypeOK, TouchMoves, TouchRecords
<1>3. CallsBegun'
  BY <1>1 DEF StoreTypeOK, CallsBegun, TouchMoves
<1>4. RecordsOutlive' /\ ConsumedOnce'
  BY DEF RecordsOutlive, ConsumedOnce, TouchMoves, Revoked
<1>5. [Store!Next]_(Store!vars)
  <2> DEFINE asked == [u \in Touches |-> AskedOf(touch[u])]
  <2>1. /\ asked' = [asked EXCEPT ![t] = AskedOf(x)] /\ asked[t] = AskedOf(touch[t])
        /\ AskedOf(x) = AskedOf(touch[t]) => asked' = asked
    BY <1>1 DEF StoreTypeOK
  <2>2. UNCHANGED <<SessionNow, [r \in Revokes |-> ToldOf(revoke[r])]>>
    BY DEF TouchMoves, SessionNow, Revoked
  <2>3. SessionNow = "over" <=> now >= Exp
    BY DEF SessionNow
  <2> HIDE DEF asked
  <2>4. CASE AskedOf(x) = AskedOf(touch[t])
    BY <2>1, <2>2, <2>4 DEF Store!vars, asked
  <2>5. CASE AskedOf(touch[t]) = "idle" /\ AskedOf(x) = (IF now >= Exp THEN "late" ELSE "open")
    BY <2>1, <2>2, <2>3, <2>5 DEF Store!Next, Store!Begin, asked
  <2>6. CASE AskedOf(touch[t]) = "open" /\ AskedOf(x) = "admitted" /\ SessionNow # "revoked"
    BY <2>1, <2>2, <2>6 DEF Store!Next, Store!Admit, asked
  <2>7. CASE AskedOf(touch[t]) \in {"open", "late"} /\ AskedOf(x) = "refused"
    BY <2>1, <2>2, <2>7 DEF Store!Next, Store!Refuse, asked
  <2> QED BY <1>1, <2>4, <2>5, <2>6, <2>7 DEF TouchMayBe
<1> QED BY <1>2, <1>3, <1>4, <1>5

LEMMA TouchStep ==
  ASSUME StoreInv, NEW t \in Touches,
         \/ BeginTouch(t) \/ EvalTouch(t) \/ EvalTouchThrows(t) \/ ReadState(t)
         \/ Check(t, "isRevoked", "read") \/ Check(t, "recheck", "write") \/ Confirm(t)
         \/ WriteState(t) \/ WriteThrows(t) \/ Drop(t) \/ StopTouch(t)
  PROVE  TouchMoves(t)
<1> USE DEF StoreInv
<1>0. /\ touch[t] \in TouchRecords /\ touch[t].at \in Nat /\ touch[t].at <= now /\ now \in Nat
      /\ touch[t].step \in {"recheck", "write", "confirm"} => touch[t].at < Exp
      /\ touch \in [Touches -> TouchRecords] /\ state \in [idle : Nat, until : Nat]
      /\ Exp \in Nat
  BY StoreAssumption DEF StoreTypeOK, CallsBegun, TouchRecords
<1>e. \A e \in {"true", "false"} :
        /\ Ended(e) \in TouchRecords /\ Ended(e).at <= now /\ Ended(e).step = e
        /\ AskedOf(Ended(e)) = IF e = "true" THEN "admitted" ELSE "refused"
  BY <1>0 DEF TouchRecords, Ended, CallEnds, Forms, AskedOf
<1>o. \A x : x.step \in TouchSteps \ {"idle"} =>
        AskedOf(x) = IF x.at >= Exp THEN "late" ELSE "open"
  BY DEF AskedOf, TouchSteps
<1>1. CASE BeginTouch(t)
  <2>1. Begun(now) \in TouchRecords /\ Begun(now).at = now /\ Begun(now).step = "eval"
    BY <1>0 DEF Begun, TouchRecords, TouchSteps, Forms
  <2>2. TouchMayBe(t, Begun(now))
    BY <1>1, <1>o, <2>1 DEF BeginTouch, TouchMayBe, AskedOf, TouchSteps
  <2>3. touch' = [touch EXCEPT ![t] = Begun(now)] /\ state' \in [idle : Nat, until : Nat]
        /\ UNCHANGED <<now, revokedUntil, replayUntil, revoke, consume>>
    BY <1>0, <1>1 DEF BeginTouch
  <2> DEFINE x == Begun(now)
  <2>4. /\ x \in TouchRecords /\ x.at <= now /\ TouchMayBe(t, x)
        /\ touch' = [touch EXCEPT ![t] = x]
        /\ x.step \in {"recheck", "write", "confirm"} => x.at < Exp
    BY <1>0, <2>1, <2>2, <2>3
  <2> HIDE DEF x
  <2> QED BY <2>3, <2>4 DEF TouchMoves
<1>2. CASE EvalTouch(t)
  <2> DEFINE e == IF Touchable(touch[t].at) THEN "true" ELSE "false"
  <2>1. touch' = [touch EXCEPT ![t] = Ended(e)]
    BY <1>2 DEF EvalTouch, EndTouch
  <2>2. TouchMayBe(t, Ended(e))
    BY <1>0, <1>2, <1>e, <1>o DEF EvalTouch, TouchMayBe, TouchSteps, Touchable, SessionNow
  <2>3. state' \in [idle : Nat, until : Nat]
    BY <1>0, <1>2, ScriptType DEF EvalTouch
  <2> QED BY <1>e, <1>2, <2>1, <2>2, <2>3 DEF EvalTouch, TouchMoves
<1>3. CASE EvalTouchThrows(t)
  <2> DEFINE x == IF MoreForms(touch[t].form) THEN [touch[t] EXCEPT !.form = @ + 1]
                  ELSE [touch[t] EXCEPT !.step = "isRevoked", !.form = 1]
  <2>1. touch' = [touch EXCEPT ![t] = x]
    BY <1>0, <1>3 DEF EvalTouchThrows
  <2>2. x \in TouchRecords /\ x.at = touch[t].at /\ x.step \in {"eval", "isRevoked"}
    BY <1>0, <1>3 DEF EvalTouchThrows, MoreForms, TouchRecords, TouchSteps, CallEnds, Forms
  <2>3. state' \in [idle : Nat, until : Nat]
    BY <1>0, <1>3, ScriptType DEF EvalTouchThrows
  <2>4. touch[t].step \in TouchSteps \ {"idle"} /\ x.step \in TouchSteps \ {"idle"}
    BY <1>3, <2>2 DEF EvalTouchThrows, TouchSteps
  <2> HIDE DEF x
  <2>5. TouchMayBe(t, x)
    BY <1>o, <2>2, <2>4 DEF TouchMayBe
  <2> QED BY <1>0, <1>3, <2>1, <2>2, <2>3, <2>5 DEF EvalTouchThrows, TouchMoves
<1>4. CASE ReadState(t)
  <2>1. CASE EndTouch(t, FALSE)
    <3>1. TouchMayBe(t, Ended("false"))
      BY <1>0, <1>4, <1>e, <1>o DEF ReadState, TouchMayBe, TouchSteps
    <3> QED BY <1>0, <1>4, <1>e, <2>1, <3>1 DEF ReadState, EndTouch, TouchMoves
  <2>2. CASE GoTouch(t, "drop")
    <3> DEFINE x == [touch[t] EXCEPT !.step = "drop"]
    <3>1. x \in TouchRecords /\ x.at = touch[t].at /\ x.step = "drop"
      BY <1>0 DEF TouchRecords, TouchSteps
    <3>2. TouchMayBe(t, x)
      BY <1>4, <1>o, <3>1 DEF ReadState, TouchMayBe, TouchSteps
    <3>3. touch' = [touch EXCEPT ![t] = x]
      BY <1>0, <2>2 DEF GoTouch
    <3> QED BY <1>0, <1>4, <3>1, <3>2, <3>3 DEF ReadState, TouchMoves
  <2>3. CASE now < Exp /\ touch' = [touch EXCEPT ![t].step = "recheck", ![t].at = now]
    <3> DEFINE x == [touch[t] EXCEPT !.step = "recheck", !.at = now]
    <3>1. x \in TouchRecords /\ x.at = now /\ x.step = "recheck"
      BY <1>0 DEF TouchRecords, TouchSteps
    <3>2. touch[t].step \in TouchSteps \ {"idle"} /\ x.step \in TouchSteps \ {"idle"}
      BY <1>4, <3>1 DEF ReadState, TouchSteps
    <3>3. touch[t].at < Exp /\ x.at < Exp /\ x.at <= now
      BY <1>0, <2>3, <3>1
    <3>4. touch' = [touch EXCEPT ![t] = x]
      BY <1>0, <2>3
    <3>5. UNCHANGED <<now, state, revokedUntil, replayUntil, revoke, consume>>
      BY <1>4 DEF ReadState
    <3> HIDE DEF x
    <3>6. TouchMayBe(t, x)
      <4>1. AskedOf(x) = "open" /\ AskedOf(touch[t]) = "open"
        <5>1. x.at \in Nat
          BY <3>1 DEF TouchRecords
        <5> QED BY <1>0, <1>o, <3>2, <3>3, <5>1
      <4> QED BY <4>1 DEF TouchMayBe
    <3> QED BY <1>0, <3>1, <3>3, <3>4, <3>5, <3>6 DEF TouchMoves
  <2> QED BY <1>4, <2>1, <2>2, <2>3 DEF ReadState
<1>5. ASSUME NEW s \in {"read", "write", "confirm", "drop"}, GoTouch(t, s),
             touch[t].step \in TouchSteps \ {"idle"}, s \in {"write", "confirm"} => touch[t].at < Exp,
             state' \in [idle : Nat, until : Nat],
             UNCHANGED <<now, revokedUntil, replayUntil, revoke, consume>>
      PROVE  TouchMoves(t)
  <2> DEFINE x == [touch[t] EXCEPT !.step = s]
  <2>1. x \in TouchRecords /\ x.at = touch[t].at /\ x.step = s /\ s \in TouchSteps \ {"idle"}
    BY <1>0 DEF TouchRecords, TouchSteps
  <2>2. TouchMayBe(t, x)
    BY <1>5, <1>o, <2>1 DEF TouchMayBe
  <2>3. touch' = [touch EXCEPT ![t] = x]
    BY <1>0, <1>5 DEF GoTouch
  <2> QED BY <1>0, <1>5, <2>1, <2>2, <2>3 DEF TouchMoves
<1>6. CASE Check(t, "isRevoked", "read") \/ Check(t, "recheck", "write")
  <2>1. touch[t].step \in {"isRevoked", "recheck"} /\ touch[t].step \in TouchSteps \ {"idle"}
    BY <1>6 DEF Check, TouchSteps
  <2>2. \E s \in {"read", "write", "drop"} :
          GoTouch(t, s) /\ (s = "write" => touch[t].step = "recheck")
    BY <1>6 DEF Check
  <2> QED BY <1>0, <1>5, <1>6, <2>1, <2>2 DEF Check
<1>7. CASE Confirm(t)
  <2>1. touch[t].step = "confirm" /\ touch[t].step \in TouchSteps \ {"idle"}
    BY <1>7 DEF Confirm, TouchSteps
  <2>2. CASE Revoked
    BY <1>0, <1>5, <1>7, <2>1, <2>2 DEF Confirm
  <2>3. CASE ~Revoked
    <3>1. TouchMayBe(t, Ended("true"))
      BY <1>0, <1>e, <1>o, <2>1, <2>3 DEF TouchMayBe, SessionNow
    <3> QED BY <1>0, <1>7, <1>e, <2>3, <3>1 DEF Confirm, EndTouch, TouchMoves
  <2> QED BY <2>2, <2>3
<1>8. CASE WriteState(t) \/ WriteThrows(t)
  <2>1. /\ touch[t].step = "write" /\ touch[t].step \in TouchSteps \ {"idle"}
        /\ state' \in [idle : Nat, until : Nat]
    BY <1>0, <1>8, StateTimes DEF WriteState, WriteThrows, TouchSteps
  <2>2. CASE GoTouch(t, "confirm")
    BY <1>0, <1>5, <1>8, <2>1, <2>2 DEF WriteState, WriteThrows
  <2>3. CASE touch' = [touch EXCEPT ![t].form = 2]
    <3> DEFINE x == [touch[t] EXCEPT !.form = 2]
    <3>1. x \in TouchRecords /\ x.at = touch[t].at /\ x.step = touch[t].step
      BY <1>0 DEF TouchRecords, Forms
    <3>2. TouchMayBe(t, x)
      BY <1>o, <2>1, <3>1 DEF TouchMayBe
    <3>3. touch' = [touch EXCEPT ![t] = x]
      BY <1>0, <2>3
    <3> QED BY <1>0, <1>8, <2>1, <3>1, <3>2, <3>3 DEF WriteState, WriteThrows, TouchMoves
  <2> QED BY <1>8, <2>2, <2>3 DEF WriteState, WriteThrows
<1>9. CASE Drop(t) \/ StopTouch(t)
  <2>1. touch' = [touch EXCEPT ![t] = Ended("false")] /\ touch[t].step \in TouchSteps \ {"idle"}
    BY <1>9 DEF Drop, StopTouch, EndTouch, TouchSteps
  <2>2. TouchMayBe(t, Ended("false"))
    BY <1>0, <1>e, <1>o, <2>1 DEF TouchMayBe
  <2>3. state' \in [idle : Nat, until : Nat]
    <3>1. Absent \in [idle : Nat, until : Nat]
      BY DEF Absent
    <3>2. state' = Absent \/ state' = state
      BY <1>9 DEF Drop, StopTouch
    <3> QED BY <1>0, <3>1, <3>2
  <2> QED BY <1>e, <1>9, <2>1, <2>2, <2>3 DEF Drop, StopTouch, TouchMoves
<1> QED BY <1>1, <1>2, <1>3, <1>4, <1>6, <1>7, <1>8, <1>9

-----------------------------------------------------------------------------
\* A step of a revoke leaves the clock and the replay record alone; it writes the
\* revocation record or not, and whoever is told of it can rely on it.

Marks == revokedUntil' \in Nat /\ revokedUntil' >= Exp + Grace

RevokeMayBe(r, x) ==
  \/ ToldOf(x) = ToldOf(revoke[r]) /\ UNCHANGED revokedUntil
  \/ ToldOf(x) = "open" /\ ToldOf(revoke[r]) = "open" /\ Marks
  \/ ToldOf(x) = "open" /\ ToldOf(revoke[r]) = "idle" /\ UNCHANGED revokedUntil
  \/ ToldOf(x) = "done" /\ ToldOf(revoke[r]) = "open" /\ Marks
  \/ /\ ToldOf(x) = "done" /\ ToldOf(revoke[r]) = "open"
     /\ UNCHANGED revokedUntil /\ (now < Exp => Revoked)
  \/ ToldOf(x) = "failed" /\ ToldOf(revoke[r]) = "open" /\ UNCHANGED revokedUntil

RevokeMoves(r) ==
  /\ \E x \in RevokeRecords :
       /\ revoke' = [revoke EXCEPT ![r] = x] /\ x.at <= now /\ RevokeMayBe(r, x)
       /\ x.step \in {"forget", "true"} => Marks \/ (UNCHANGED revokedUntil /\ (now < Exp => Revoked))
  /\ state' \in [idle : Nat, until : Nat]
  /\ UNCHANGED <<now, replayUntil, touch, consume>>

LEMMA RevokeKeeps ==
  ASSUME StoreInv, NEW r \in Revokes, RevokeMoves(r)
  PROVE  StoreInv' /\ [Store!Next]_(Store!vars)
<1> USE DEF StoreInv
<1>1. PICK x \in RevokeRecords :
        /\ revoke' = [revoke EXCEPT ![r] = x] /\ x.at <= now /\ RevokeMayBe(r, x)
        /\ x.step \in {"forget", "true"} => Marks \/ (UNCHANGED revokedUntil /\ (now < Exp => Revoked))
  BY DEF RevokeMoves
<1>2. UNCHANGED <<now, replayUntil, touch, consume>> /\ state' \in [idle : Nat, until : Nat]
  BY DEF RevokeMoves
<1>3. UNCHANGED revokedUntil \/ Marks
  BY <1>1 DEF RevokeMayBe
<1>4. /\ Exp \in Nat /\ Grace \in Nat /\ Exp >= 1 /\ Grace >= 1 /\ now \in Nat
      /\ revokedUntil \in Nat
  BY StoreAssumption DEF StoreTypeOK
<1>5. StoreTypeOK'
  BY <1>1, <1>2, <1>3 DEF StoreTypeOK, RevokeRecords, Marks
<1>6. CallsBegun'
  BY <1>1, <1>2 DEF StoreTypeOK, CallsBegun
<1>7. RecordsOutlive'
  <2>1. Revoked => Revoked'
    BY <1>3, <1>4 DEF Revoked, Marks
  <2>2. Marks => Revoked' /\ revokedUntil' > Exp
    BY <1>4 DEF Revoked, Marks
  <2>3. (Revoked /\ now < Exp => revokedUntil > Exp)'
    BY <1>2, <1>3, <2>2 DEF RecordsOutlive, Revoked
  <2>4. ASSUME NEW q \in Revokes, revoke'[q].step \in {"forget", "true"}, now' < Exp
        PROVE  Revoked'
    <3>1. CASE q = r
      <4>1. x.step \in {"forget", "true"}
        BY <1>1, <2>4, <3>1 DEF StoreTypeOK
      <4> QED BY <1>1, <1>2, <2>1, <2>2, <2>4, <4>1
    <3>2. CASE q # r
      <4>1. revoke[q].step \in {"forget", "true"}
        BY <1>1, <2>4, <3>2 DEF StoreTypeOK
      <4> QED BY <1>2, <2>1, <2>4, <4>1 DEF RecordsOutlive
    <3> QED BY <3>1, <3>2
  <2>5. (\A c \in Consumers : consume[c].step = "true" /\ now < Exp + Grace
                                => replayUntil >= Exp + Grace)'
    BY <1>2 DEF RecordsOutlive
  <2> QED BY <2>3, <2>4, <2>5 DEF RecordsOutlive
<1>8. ConsumedOnce'
  BY <1>2 DEF ConsumedOnce
<1>9. [Store!Next]_(Store!vars)
  <2> DEFINE told == [q \in Revokes |-> ToldOf(revoke[q])]
             asked == [t \in Touches |-> AskedOf(touch[t])]
  <2>1. /\ told' = [told EXCEPT ![r] = ToldOf(x)] /\ told[r] = ToldOf(revoke[r])
        /\ ToldOf(x) = ToldOf(revoke[r]) => told' = told
    BY <1>1 DEF StoreTypeOK
  <2>2. asked' = asked
    BY <1>2
  <2>3. /\ UNCHANGED revokedUntil => UNCHANGED SessionNow
        /\ Marks => SessionNow' = IF SessionNow = "live" THEN "revoked" ELSE SessionNow
        /\ (now < Exp => Revoked) => SessionNow # "live"
    BY <1>2, <1>4 DEF SessionNow, Revoked, Marks
  <2> HIDE DEF told, asked
  <2>4. CASE ToldOf(x) = ToldOf(revoke[r]) /\ UNCHANGED revokedUntil
    BY <2>1, <2>2, <2>3, <2>4 DEF Store!vars, told, asked
  <2>5. CASE ToldOf(x) = "open" /\ ToldOf(revoke[r]) = "open" /\ Marks
    <3>1. CASE SessionNow = "live"
      BY <2>1, <2>2, <2>3, <2>5, <3>1 DEF Store!Next, Store!Revoke, told, asked
    <3>2. CASE SessionNow # "live"
      BY <2>1, <2>2, <2>3, <2>5, <3>2 DEF Store!vars, told, asked
    <3> QED BY <3>1, <3>2
  <2>6. CASE ToldOf(x) = "open" /\ ToldOf(revoke[r]) = "idle" /\ UNCHANGED revokedUntil
    BY <2>1, <2>2, <2>3, <2>6 DEF Store!Next, Store!Call, told, asked
  <2>7. CASE ToldOf(x) = "done" /\ ToldOf(revoke[r]) = "open" /\ Marks
    BY <2>1, <2>2, <2>3, <2>7 DEF Store!Next, Store!RevokeAtOnce, told, asked
  <2>8. CASE /\ ToldOf(x) = "done" /\ ToldOf(revoke[r]) = "open"
             /\ UNCHANGED revokedUntil /\ (now < Exp => Revoked)
    BY <2>1, <2>2, <2>3, <2>8 DEF Store!Next, Store!RevokeAtOnce, told, asked
  <2>9. CASE ToldOf(x) = "failed" /\ ToldOf(revoke[r]) = "open" /\ UNCHANGED revokedUntil
    <3>1. Store!Answer(r, FALSE)
      BY <2>1, <2>2, <2>3, <2>9 DEF Store!Answer, told, asked
    <3> QED BY <3>1 DEF Store!Next
  <2> QED BY <1>1, <2>4, <2>5, <2>6, <2>7, <2>8, <2>9 DEF RevokeMayBe
<1> QED BY <1>5, <1>6, <1>7, <1>8, <1>9

LEMMA RevokeStep ==
  ASSUME StoreInv, NEW r \in Revokes,
         \/ BeginRevoke(r) \/ EvalRevoke(r) \/ EvalRevokeThrows(r)
         \/ MarkByCommand(r) \/ MarkThrows(r) \/ ForgetState(r) \/ StopRevoke(r)
  PROVE  RevokeMoves(r)
<1> USE DEF StoreInv
<1>0. /\ revoke[r] \in RevokeRecords /\ revoke[r].at \in Nat /\ revoke[r].at <= now /\ now \in Nat
      /\ revoke \in [Revokes -> RevokeRecords] /\ state \in [idle : Nat, until : Nat]
      /\ revokedUntil \in Nat
      /\ revoke[r].step \in {"forget", "true"} /\ now < Exp => Revoked
  BY StoreAssumption DEF StoreTypeOK, CallsBegun, RecordsOutlive, RevokeRecords
<1>e. \A e \in {"true", "false"} :
        /\ Ended(e) \in RevokeRecords /\ Ended(e).at <= now /\ Ended(e).step = e
        /\ ToldOf(Ended(e)) = IF e = "true" THEN "done" ELSE "failed"
  BY <1>0 DEF RevokeRecords, Ended, CallEnds, Forms, ToldOf
<1>o. \A x : x.step \in RevokeSteps \ {"idle"} => ToldOf(x) = "open"
  BY DEF ToldOf, RevokeSteps
<1>m. MarkRevoked(revoke[r].at) => Marks
  BY <1>0, LifetimeLong, StoreAssumption DEF MarkRevoked, Marks
<1>s. Absent \in [idle : Nat, until : Nat]
  BY DEF Absent
<1>g. ASSUME NEW x \in RevokeRecords, revoke' = [revoke EXCEPT ![r] = x], x.at = revoke[r].at,
             revoke[r].step \in RevokeSteps \ {"idle"}, x.step \in RevokeSteps \ {"idle"},
             UNCHANGED revokedUntil \/ Marks,
             x.step = "forget" => Marks,
             state' \in [idle : Nat, until : Nat],
             UNCHANGED <<now, replayUntil, touch, consume>>
      PROVE  RevokeMoves(r)
  <2>1. RevokeMayBe(r, x)
    BY <1>o, <1>g DEF RevokeMayBe
  <2>2. x.at <= now /\ x.step # "true"
    BY <1>0, <1>g DEF RevokeSteps
  <2> QED BY <1>g, <2>1, <2>2 DEF RevokeMoves
<1>f. ASSUME NEW e \in {"true", "false"}, revoke' = [revoke EXCEPT ![r] = Ended(e)],
             revoke[r].step \in RevokeSteps \ {"idle"},
             IF e = "true" THEN Marks \/ (UNCHANGED revokedUntil /\ (now < Exp => Revoked))
                           ELSE UNCHANGED revokedUntil,
             state' \in [idle : Nat, until : Nat],
             UNCHANGED <<now, replayUntil, touch, consume>>
      PROVE  RevokeMoves(r)
  <2>1. RevokeMayBe(r, Ended(e))
    BY <1>e, <1>o, <1>f DEF RevokeMayBe
  <2> QED BY <1>e, <1>f, <2>1 DEF RevokeMoves
<1>1. CASE BeginRevoke(r)
  <2> DEFINE x == Begun(now)
  <2>1. x \in RevokeRecords /\ x.at = now /\ x.step = "eval"
    BY <1>0 DEF Begun, RevokeRecords, RevokeSteps, Forms
  <2>2. /\ revoke' = [revoke EXCEPT ![r] = x] /\ state' \in [idle : Nat, until : Nat]
        /\ UNCHANGED <<now, revokedUntil, replayUntil, touch, consume>>
    BY <1>0, <1>1 DEF BeginRevoke
  <2>3. ToldOf(revoke[r]) = "idle"
    BY <1>1 DEF BeginRevoke, ToldOf
  <2> HIDE DEF x
  <2>4. RevokeMayBe(r, x)
    <3>1. ToldOf(x) = "open"
      BY <1>o, <2>1 DEF RevokeSteps
    <3> QED BY <2>2, <2>3, <3>1 DEF RevokeMayBe
  <2>5. x.at <= now /\ x.step \notin {"forget", "true"}
    BY <1>0, <2>1
  <2> QED BY <2>1, <2>2, <2>4, <2>5 DEF RevokeMoves
<1>2. CASE EvalRevoke(r)
  <2>1. revoke[r].step \in RevokeSteps \ {"idle"}
    BY <1>2 DEF EvalRevoke, RevokeSteps
  <2> QED BY <1>2, <1>f, <1>m, <1>s, <2>1 DEF EvalRevoke
<1>3. CASE EvalRevokeThrows(r)
  <2> DEFINE x == IF MoreForms(revoke[r].form) THEN [revoke[r] EXCEPT !.form = @ + 1]
                  ELSE [revoke[r] EXCEPT !.step = "mark", !.form = 1]
  <2>1. revoke' = [revoke EXCEPT ![r] = x]
    BY <1>0, <1>3 DEF EvalRevokeThrows
  <2>2. x \in RevokeRecords /\ x.at = revoke[r].at /\ x.step \in {"eval", "mark"}
    BY <1>0, <1>3 DEF EvalRevokeThrows, MoreForms, RevokeRecords, RevokeSteps, CallEnds, Forms
  <2>3. /\ UNCHANGED revokedUntil \/ Marks
        /\ UNCHANGED <<now, replayUntil, touch, consume>>
    BY <1>3, <1>m DEF EvalRevokeThrows
  <2>4. state' = state \/ state' = Absent
    BY <1>3 DEF EvalRevokeThrows
  <2>5. revoke[r].step \in RevokeSteps \ {"idle"} /\ x.step \in RevokeSteps \ {"idle"}
    BY <1>3, <2>2 DEF EvalRevokeThrows, RevokeSteps
  <2> HIDE DEF x
  <2> QED BY <1>0, <1>g, <1>s, <2>1, <2>2, <2>3, <2>4, <2>5
<1>4. CASE MarkByCommand(r) \/ MarkThrows(r)
  <2>1. /\ revoke[r].step = "mark" /\ revoke[r].step \in RevokeSteps \ {"idle"}
        /\ UNCHANGED <<now, state, replayUntil, touch, consume>>
        /\ UNCHANGED revokedUntil \/ Marks
    BY <1>4, <1>m DEF MarkByCommand, MarkThrows, RevokeSteps
  <2>2. CASE GoRevoke(r, "forget") /\ Marks
    <3> DEFINE x == [revoke[r] EXCEPT !.step = "forget"]
    <3>1. x \in RevokeRecords /\ x.at = revoke[r].at /\ x.step \in RevokeSteps \ {"idle"}
      BY <1>0 DEF RevokeRecords, RevokeSteps
    <3>2. revoke' = [revoke EXCEPT ![r] = x]
      BY <1>0, <2>2 DEF GoRevoke
    <3> HIDE DEF x
    <3> QED BY <1>0, <1>g, <2>1, <2>2, <3>1, <3>2
  <2>3. CASE revoke' = [revoke EXCEPT ![r].form = 2]
    <3> DEFINE x == [revoke[r] EXCEPT !.form = 2]
    <3>1. /\ x \in RevokeRecords /\ x.at = revoke[r].at /\ x.step = "mark"
          /\ x.step \in RevokeSteps \ {"idle"}
      BY <1>0, <2>1 DEF RevokeRecords, RevokeSteps, Forms
    <3>2. revoke' = [revoke EXCEPT ![r] = x]
      BY <1>0, <2>3
    <3> HIDE DEF x
    <3> QED BY <1>0, <1>g, <2>1, <3>1, <3>2
  <2> QED BY <1>4, <1>m, <2>2, <2>3 DEF MarkByCommand, MarkThrows
<1>5. CASE ForgetState(r)
  <2>1. revoke[r].step = "forget" /\ revoke[r].step \in RevokeSteps \ {"idle"}
    BY <1>5 DEF ForgetState, RevokeSteps
  <2> QED BY <1>0, <1>5, <1>f, <1>s, <2>1 DEF ForgetState
<1>6. CASE StopRevoke(r)
  BY <1>0, <1>6, <1>f DEF StopRevoke
<1> QED BY <1>1, <1>2, <1>3, <1>4, <1>5, <1>6

-----------------------------------------------------------------------------
\* The clock, the consumers and the theorems.

LEMMA TickKeeps ==
  ASSUME StoreInv, Tick
  PROVE  StoreInv' /\ [Store!Next]_(Store!vars)
<1> USE DEF StoreInv
<1>1. /\ now \in Nat /\ now' = now + 1 /\ revokedUntil \in Nat /\ replayUntil \in Nat
      /\ Exp \in Nat /\ Grace \in Nat /\ Grace >= 1
      /\ revokedUntil' = (IF revokedUntil <= now' THEN 0 ELSE revokedUntil)
      /\ replayUntil' = (IF replayUntil <= now' THEN 0 ELSE replayUntil)
      /\ UNCHANGED <<touch, revoke, consume>>
  BY StoreAssumption DEF StoreTypeOK, Tick
<1>2. StoreTypeOK'
  <2>1. state' \in [idle : Nat, until : Nat] /\ now' \in 0 .. MaxTime
    BY StoreAssumption DEF StoreTypeOK, Tick, Absent
  <2> QED BY <1>1, <2>1 DEF StoreTypeOK
<1>3. CallsBegun'
  BY <1>1 DEF StoreTypeOK, CallsBegun
<1>4. now' < Exp => (Revoked' <=> Revoked)
  BY <1>1 DEF RecordsOutlive, Revoked
<1>5. RecordsOutlive'
  <2>1. (Revoked /\ now < Exp => revokedUntil > Exp)'
    BY <1>1, <1>4 DEF RecordsOutlive, Revoked
  <2>2. (\A r \in Revokes : revoke[r].step \in {"forget", "true"} /\ now < Exp => Revoked)'
    BY <1>1, <1>4 DEF RecordsOutlive
  <2>3. (\A c \in Consumers : consume[c].step = "true" /\ now < Exp + Grace
                                => replayUntil >= Exp + Grace)'
    BY <1>1 DEF RecordsOutlive
  <2> QED BY <2>1, <2>2, <2>3 DEF RecordsOutlive
<1>6. ConsumedOnce'
  BY <1>1 DEF ConsumedOnce
<1>7. [Store!Next]_(Store!vars)
  <2>1. UNCHANGED <<[t \in Touches |-> AskedOf(touch[t])], [r \in Revokes |-> ToldOf(revoke[r])]>>
    BY <1>1
  <2>2. CASE now' >= Exp
    <3>1. SessionNow' = "over"
      BY <2>2 DEF SessionNow
    <3> QED BY <2>1, <3>1 DEF Store!Next, Store!Expire, Store!vars
  <2>3. CASE now' < Exp
    <3>1. SessionNow' = SessionNow
      BY <1>1, <1>4, <2>3 DEF SessionNow
    <3> QED BY <2>1, <3>1 DEF Store!vars
  <2> QED BY <1>1, <2>2, <2>3
<1> QED BY <1>2, <1>3, <1>5, <1>6, <1>7

LEMMA ConsumeKeeps ==
  ASSUME StoreInv, NEW c \in Consumers,
         BeginConsume(c) \/ Consume(c) \/ ConsumeThrows(c) \/ StopConsume(c)
  PROVE  StoreInv' /\ [Store!Next]_(Store!vars)
<1> USE DEF StoreInv
<1>1. /\ UNCHANGED <<now, state, revokedUntil, touch, revoke>>
      /\ Exp \in Nat /\ Grace \in Nat /\ Exp >= 1 /\ now \in Nat /\ replayUntil \in Nat
      /\ consume \in [Consumers -> ConsumeRecords]
      /\ consume[c] \in ConsumeRecords /\ consume[c].at \in Nat /\ consume[c].at <= now
  BY StoreAssumption
     DEF StoreTypeOK, CallsBegun, ConsumeRecords, BeginConsume, Consume, ConsumeThrows, StopConsume
<1> DEFINE Writes == replayUntil = 0 /\ replayUntil' \in Nat /\ replayUntil' >= Exp + Grace
<1>w. replayUntil' = now + Lifetime(consume[c].at) /\ MaySet(c) => Writes
  BY <1>1, LifetimeLong DEF MaySet
<1>2. PICK x \in ConsumeRecords :
        /\ consume' = [consume EXCEPT ![c] = x] /\ x.at <= now
        /\ UNCHANGED replayUntil \/ Writes
        /\ x.step = "true" => Writes /\ now < Exp + Grace
  <2>1. CASE BeginConsume(c)
    <3> DEFINE x == [step |-> "set", form |-> 1, at |-> now]
    <3>1. x \in ConsumeRecords /\ x.at <= now /\ x.step # "true"
      BY <1>1 DEF ConsumeRecords, Forms
    <3> QED BY <2>1, <3>1 DEF BeginConsume
  <2>e. \A e \in {"true", "false", "late"} :
          Ended(e) \in ConsumeRecords /\ Ended(e).at <= now /\ Ended(e).step = e
    BY <1>1 DEF ConsumeRecords, Ended, CallEnds, Forms
  <2>2. CASE Consume(c)
    <3>1. CASE MaySet(c)
      <4> DEFINE e == IF now < Exp + Grace THEN "true" ELSE "late"
      <4>1. consume' = [consume EXCEPT ![c] = Ended(e)] /\ Writes
        BY <1>w, <2>2, <3>1 DEF Consume
      <4> QED BY <2>e, <4>1
    <3>2. CASE ~MaySet(c)
      BY <2>e, <2>2, <3>2 DEF Consume
    <3> QED BY <3>1, <3>2
  <2>3. CASE ConsumeThrows(c)
    <3> DEFINE x == [consume[c] EXCEPT !.form = 2]
    <3>1. x \in ConsumeRecords /\ x.at <= now /\ x.step # "true" /\ consume' = [consume EXCEPT ![c] = x]
      BY <1>1, <2>3 DEF ConsumeThrows, ConsumeRecords, Forms
    <3>2. UNCHANGED replayUntil \/ Writes
      BY <1>w, <2>3 DEF ConsumeThrows
    <3> QED BY <3>1, <3>2
  <2>4. CASE StopConsume(c)
    BY <2>e, <2>4 DEF StopConsume
  <2> QED BY <2>1, <2>2, <2>3, <2>4
<1>3. \A d \in Consumers : consume'[d] = IF d = c THEN x ELSE consume[d]
  BY <1>1, <1>2
<1>4. StoreTypeOK'
  BY <1>1, <1>2 DEF StoreTypeOK, ConsumeRecords
<1>5. CallsBegun'
  BY <1>1, <1>2, <1>3 DEF CallsBegun
<1>6. Writes => \A d \in Consumers : consume[d].step = "true" => ~(now < Exp + Grace)
  BY <1>1 DEF RecordsOutlive
<1>7. RecordsOutlive'
  <2>1. \A d \in Consumers : consume'[d].step = "true" /\ now < Exp + Grace
                              => replayUntil' >= Exp + Grace
    BY <1>1, <1>2, <1>3, <1>6 DEF RecordsOutlive
  <2> QED BY <1>1, <2>1 DEF RecordsOutlive, Revoked
<1>8. ConsumedOnce'
  BY <1>1, <1>2, <1>3, <1>6 DEF ConsumedOnce
<1>9. UNCHANGED Store!vars
  BY <1>1 DEF Store!vars, SessionNow, Revoked
<1> QED BY <1>4, <1>5, <1>7, <1>8, <1>9

LEMMA StoreInitOK ==
  StoreInit => StoreInv /\ Store!Init
<1> SUFFICES ASSUME StoreInit PROVE StoreInv /\ Store!Init
  OBVIOUS
<1>1. now = 0 /\ revokedUntil = 0 /\ Exp \in Nat /\ Exp >= 1 /\ Grace \in Nat /\ MaxTime \in Nat
  BY StoreAssumption DEF StoreInit
<1>2. Ended("idle") = [step |-> "idle", form |-> 1, at |-> 0]
  BY DEF Ended
<1>3. StoreTypeOK
  BY <1>1, <1>2, StoreAssumption
     DEF StoreInit, StoreTypeOK, AtMost, AtLeast, TouchSteps, RevokeSteps, CallEnds, Forms
<1>4. CallsBegun /\ RecordsOutlive /\ ConsumedOnce
  BY <1>1, <1>2 DEF StoreInit, CallsBegun, RecordsOutlive, ConsumedOnce, Revoked
<1>5. Store!Init
  BY <1>1, <1>2 DEF StoreInit, Store!Init, SessionNow, Revoked, AskedOf, ToldOf
<1> QED BY <1>3, <1>4, <1>5 DEF StoreInv

LEMMA StoreStep ==
  StoreInv /\ [StoreNext]_storeVars => StoreInv' /\ [Store!Next]_(Store!vars)
<1> SUFFICES ASSUME StoreInv, [StoreNext]_storeVars
             PROVE  StoreInv' /\ [Store!Next]_(Store!vars)
  OBVIOUS
<1>1. CASE Tick
  BY <1>1, TickKeeps
<1>2. CASE SessionNext
  <2>1. ASSUME NEW t \in Touches,
               \/ BeginTouch(t) \/ EvalTouch(t) \/ EvalTouchThrows(t) \/ ReadState(t)
               \/ Check(t, "isRevoked", "read") \/ Check(t, "recheck", "write") \/ Confirm(t)
               \/ WriteState(t) \/ WriteThrows(t) \/ Drop(t) \/ StopTouch(t)
        PROVE  StoreInv' /\ [Store!Next]_(Store!vars)
    BY <2>1, TouchStep, TouchKeeps
  <2>2. ASSUME NEW r \in Revokes,
               \/ BeginRevoke(r) \/ EvalRevoke(r) \/ EvalRevokeThrows(r)
               \/ MarkByCommand(r) \/ MarkThrows(r) \/ ForgetState(r) \/ StopRevoke(r)
        PROVE  StoreInv' /\ [Store!Next]_(Store!vars)
    BY <2>2, RevokeStep, RevokeKeeps
  <2> QED BY <1>2, <2>1, <2>2 DEF SessionNext
<1>3. CASE ReplayNext
  BY <1>3, ConsumeKeeps DEF ReplayNext
<1>4. CASE UNCHANGED storeVars
  <2>1. UNCHANGED <<now, state, revokedUntil, replayUntil, touch, revoke, consume>>
    BY <1>4 DEF storeVars
  <2>2. StoreInv'
    BY <2>1 DEF StoreInv, StoreTypeOK, CallsBegun, RecordsOutlive, ConsumedOnce, Revoked
  <2>3. UNCHANGED Store!vars
    BY <2>1 DEF Store!vars, SessionNow, Revoked
  <2> QED BY <2>2, <2>3
<1> QED BY <1>1, <1>2, <1>3, <1>4 DEF StoreNext

LEMMA StoreAlways == StoreSpec => []StoreInv
<1>1. StoreInit => StoreInv
  BY StoreInitOK
<1>2. StoreInv /\ [StoreNext]_storeVars => StoreInv'
  BY StoreStep
<1> QED BY <1>1, <1>2, PTL DEF StoreSpec

\* The records and the calls of the store (redisHostStore.ts) keep their types.
THEOREM StoreTypeCorrect == StoreSpec => []StoreTypeOK
<1>1. StoreInv => StoreTypeOK
  BY DEF StoreInv
<1> QED BY <1>1, StoreAlways, PTL

\* The replay consumer of redisHostStore.ts consumes a live bootstrap token once, however
\* often SET NX is lost, applied or sent again in its second form.
THEOREM TokenConsumedOnce == StoreSpec => []ConsumedOnce
<1>1. StoreInv => ConsumedOnce
  BY DEF StoreInv
<1> QED BY <1>1, StoreAlways, PTL

\* touch and revoke of createRedisHostSessionStore, by script or by commands, keep the
\* promise of SessionStore.
THEOREM StoreKeepsPromise == StoreSpec => StorePromise
<1>1. StoreInit => Store!Init
  BY StoreInitOK
<1>2. StoreInv /\ [StoreNext]_storeVars => [Store!Next]_(Store!vars)
  BY StoreStep
<1> QED BY <1>1, <1>2, StoreAlways, PTL DEF StoreSpec, StorePromise, Store!Spec
=============================================================================
