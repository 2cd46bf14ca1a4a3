-------------------------- MODULE HostSessionProofs --------------------------
(***************************************************************************)
(* What HostSession guarantees for every number of requests, tokens and    *)
(* sessions, every lifetime and either backend.                            *)
(*                                                                         *)
(* The argument: a record written for a token counts for at least as long  *)
(* as the token plus Grace (RecordsCover), and a handler that verified the *)
(* token before its end reaches the record at most MaxLatency later        *)
(* (HandlersFresh).  When Grace >= MaxLatency the handler finds the record *)
(* in force, so that no second handler passes and no revoked session       *)
(* does.  The file helper has Grace = 0, which is where the argument       *)
(* stops: HostSessionFileReplay shows that it has to.  Its logouts are     *)
(* final all the same where sessions have an idle expiry (LateExpires).    *)
(*                                                                         *)
(* What the steps of a session may do rests on what its records mean and   *)
(* on who may still write to them (RecordsMeant, SessionsShown), and needs *)
(* no grace.                                                               *)
(***************************************************************************)
EXTENDS HostSession, TLAPS

OnBoot == {"consume", "build"}
OnSess == {"activate", "checkRevoked", "touch", "accepted", "delete", "report"}

\* A handler past the verification knows the token it works on.
HandlersHold ==
  \A r \in Requests :
    /\ req[r].pc \in OnBoot => req[r].boot \in BootTokens
    /\ req[r].pc \in OnSess => req[r].sess \in Sessions

\* That token exists, was valid when it was verified, and the handler is not in
\* flight for longer than MaxLatency.
HandlersFresh ==
  \A r \in Requests :
    /\ req[r].pc # "idle" => now <= req[r].at + MaxLatency
    /\ req[r].pc \in OnBoot => bootExp[req[r].boot] # 0
    /\ req[r].pc = "build" => req[r].boot \in consumed
    /\ req[r].pc = "consume" => req[r].at < bootExp[req[r].boot]
    /\ req[r].pc \in OnSess => sessExp[req[r].sess] # 0
    /\ req[r].pc = "checkRevoked" => req[r].at < sessExp[req[r].sess]

\* Histories speak of tokens that exist.
HistoryKnown ==
  /\ \A b \in consumed : bootExp[b] # 0
  /\ \A s \in delivered \cup everRevoked : sessExp[s] # 0
  /\ \A s \in Sessions : minted[s] # Nobody => sessExp[s] # 0 /\ minted[s] \in consumed

\* A record lasts as long as its token and the grace, or both are over.
RecordsCover ==
  /\ \A b \in consumed :
       replay[b] >= bootExp[b] + Grace \/ now >= bootExp[b] + Grace
  /\ \A s \in everRevoked :
       revoked[s] >= sessExp[s] + Grace \/ now >= sessExp[s] + Grace

\* A token is held by one handler, or was turned into one session.
OneHolder ==
  /\ SingleMint
  /\ \A q, r \in Requests :
       req[q].pc = "build" /\ req[r].pc = "build" /\ req[q].boot = req[r].boot => q = r
  /\ \A q \in Requests, s \in Sessions :
       req[q].pc = "build" => minted[s] # req[q].boot

\* A request that starts on a revoked session stops at the revocation check.
LateStops ==
  \A r \in Requests : req[r].late =>
    /\ req[r].sess \in everRevoked
    /\ req[r].pc \in {"checkRevoked", "rejected"}

TypeInv == TypeOK /\ HandlersHold
BaseInv == TypeInv /\ HandlersFresh /\ HistoryKnown /\ RecordsCover
IInv    == BaseInv /\ OneHolder /\ LateStops

-----------------------------------------------------------------------------
\* Pruning a file and the expiry of Redis keys only take away records that no
\* longer count.
LEMMA PrunedRecords ==
  ASSUME NEW D, NEW f \in [D -> Nat], now \in Nat
  PROVE  /\ Pruned(f) \in [D -> Nat]
         /\ \A x \in D : Pruned(f)[x] = f[x] \/ f[x] <= now
         /\ Expired(f) \in [D -> Nat]
         /\ \A x \in D : Expired(f)[x] = f[x] \/ f[x] <= now + 1
BY SMT DEF Pruned, Expired, InForce

LEMMA RecordUntilBound ==
  ASSUME TtlAssumption, now \in Nat, NEW e \in Nat, NEW fb \in Nat
  PROVE  RecordUntil(e, fb) \in Nat /\ RecordUntil(e, fb) >= e + Grace
BY SMT DEF RecordUntil, TtlAssumption

\* A handler moves on: only its program counter changes.
SameButPc(r, pc) ==
  /\ req'[r].pc = pc
  /\ req'[r].kind = req[r].kind
  /\ req'[r].boot = req[r].boot
  /\ req'[r].sess = req[r].sess
  /\ req'[r].at = req[r].at
  /\ req'[r].late = req[r].late

LEMMA GotoStep ==
  ASSUME TypeOK, NEW r \in Requests, NEW pc \in Busy, Goto(r, pc)
  PROVE  /\ req' \in [Requests -> HandlerState]
         /\ SameButPc(r, pc)
         /\ \A q \in Requests : q # r => req'[q] = req[q]
<1>1. req[r] \in HandlerState /\ req \in [Requests -> HandlerState]
  BY DEF TypeOK
<1>2. [req[r] EXCEPT !.pc = pc] \in HandlerState
  BY <1>1 DEF HandlerState
<1>3. req' = [req EXCEPT ![r] = [req[r] EXCEPT !.pc = pc]]
  BY DEF Goto
<1>4. /\ req' \in [Requests -> HandlerState]
      /\ req'[r] = [req[r] EXCEPT !.pc = pc]
      /\ \A q \in Requests : q # r => req'[q] = req[q]
  BY <1>1, <1>2, <1>3
<1>5. SameButPc(r, pc)
  BY <1>1, <1>4 DEF HandlerState, SameButPc
<1> QED
  BY <1>4, <1>5

LEMMA ReplyStep ==
  ASSUME TypeOK, BackendAssumption, NEW r \in Requests, Reply(r)
  PROVE  /\ req' \in [Requests -> HandlerState]
         /\ req'[r] = Resting
         /\ \A q \in Requests : q # r => req'[q] = req[q]
BY DEF TypeOK, Reply, Resting, HandlerState, Kinds

LEMMA BeginStep ==
  ASSUME TypeOK, NEW r \in Requests, NEW kind \in Kinds,
         NEW boot \in BootTokens \cup {Nobody}, NEW sess \in Sessions \cup {Nobody},
         NEW valid \in BOOLEAN, NEW pc \in Busy, NEW late \in BOOLEAN,
         Begin(r, kind, boot, sess, valid, pc, late)
  PROVE  /\ req' \in [Requests -> HandlerState]
         /\ req'[r] = [pc |-> IF valid THEN pc ELSE "rejected", kind |-> kind,
                       boot |-> boot, sess |-> sess, at |-> now, late |-> late]
         /\ \A q \in Requests : q # r => req'[q] = req[q]
BY DEF TypeOK, Begin, HandlerState, Busy

\* Rewriting the state file keeps its shape.
LEMMA KeptState ==
  ASSUME TypeOK
  PROVE  UnexpiredState \in [Sessions -> Nat] /\ ActiveState \in [Sessions -> Nat]
BY DEF TypeOK, UnexpiredState, ActiveState

LEMMA LeastNat ==
  ASSUME NEW a \in Nat, NEW b \in Nat
  PROVE  Least(a, b) \in Nat /\ Least(a, b) <= a /\ Least(a, b) <= b
BY DEF Least

LEMMA MintStep ==
  ASSUME TypeOK, NEW r \in Requests, NEW s \in Sessions,
         req' = [req EXCEPT ![r].pc = "activate", ![r].sess = s]
  PROVE  /\ req' \in [Requests -> HandlerState]
         /\ req'[r].pc = "activate"
         /\ req'[r].sess = s
         /\ req'[r].kind = req[r].kind
         /\ req'[r].boot = req[r].boot
         /\ req'[r].at = req[r].at
         /\ req'[r].late = req[r].late
         /\ \A q \in Requests : q # r => req'[q] = req[q]
<1>1. req[r] \in HandlerState /\ req \in [Requests -> HandlerState]
  BY DEF TypeOK
<1>2. req'[r] = [req[r] EXCEPT !.pc = "activate", !.sess = s]
  BY <1>1
<1>3. req'[r] \in HandlerState
  BY <1>1, <1>2 DEF HandlerState, Busy
<1>4. /\ DOMAIN req' = Requests
      /\ \A q \in Requests : q # r => req'[q] = req[q]
      /\ req' = [q \in Requests |-> req'[q]]
  BY <1>1
<1>5. req' \in [Requests -> HandlerState]
  BY <1>1, <1>3, <1>4
<1>6. /\ req'[r].pc = "activate" /\ req'[r].sess = s /\ req'[r].kind = req[r].kind
      /\ req'[r].boot = req[r].boot /\ req'[r].at = req[r].at
      /\ req'[r].late = req[r].late
  BY <1>1, <1>2 DEF HandlerState
<1> QED
  BY <1>4, <1>5, <1>6

LEMMA TypeInit == Init => TypeInv
BY BackendAssumption, TtlAssumption
   DEF Init, TypeOK, TypeInv, HandlersHold, Resting, HandlerState, Kinds, OnBoot, OnSess

\* A step keeps the variables' shape, and a handler that goes on holds a token.
LEMMA TypeStep == TypeInv /\ [Next]_vars => TypeInv'
<1> USE BackendAssumption, TtlAssumption DEF TtlAssumption
<1> SUFFICES ASSUME TypeInv, [Next]_vars PROVE TypeInv'
  OBVIOUS
<1> USE DEF TypeInv, TypeOK, HandlersHold, OnBoot, OnSess
<1>1. ASSUME NEW b \in BootTokens, IssueBootstrap(b) PROVE TypeInv'
  BY <1>1 DEF IssueBootstrap, tokens, records, history
<1>2. ASSUME NEW r \in Requests, NEW b \in BootTokens, VerifyBootstrap(r, b) PROVE TypeInv'
  BY <1>2 DEF VerifyBootstrap, tokens, records, history, Begin, HandlerState, Kinds, Busy
<1>3. ASSUME NEW r \in Requests, NEW s \in Sessions, NEW k \in {"api", "logout"},
             VerifySession(r, s, k)
      PROVE  TypeInv'
  BY <1>3 DEF VerifySession, tokens, records, history, Begin, HandlerState, Kinds, Busy
<1>4. ASSUME NEW r \in Requests, Handler(r) PROVE TypeInv'
  <2>1. CASE ConsumeBootstrap(r)
    <3>1. req[r].boot \in BootTokens
      BY <2>1 DEF ConsumeBootstrap
    <3>2. Goto(r, "rejected") \/ Goto(r, "build")
      BY <2>1 DEF ConsumeBootstrap
    <3>3. req' \in [Requests -> HandlerState] /\ HandlersHold'
      BY <3>1, <3>2, GotoStep DEF Busy, SameButPc
    <3>4. replay' \in [BootTokens -> Nat] /\ consumed' \subseteq BootTokens
      <4>1. RecordUntil(bootExp[req[r].boot], ReplayFallback) \in Nat
        BY <3>1, RecordUntilBound
      <4>2. Pruned(replay) \in [BootTokens -> Nat]
        BY PrunedRecords
      <4> QED
        BY <2>1, <3>1, <4>1, <4>2 DEF ConsumeBootstrap
    <3> QED
      BY <2>1, <3>3, <3>4 DEF ConsumeBootstrap, tokens
  <2>2. ASSUME NEW s \in Sessions, MintSession(r, s) PROVE TypeInv'
    <3>1. req[r].boot \in BootTokens
      BY <2>2 DEF MintSession
    <3>2. req' \in [Requests -> HandlerState] /\ HandlersHold'
      <4>1. req' = [req EXCEPT ![r].pc = "activate", ![r].sess = s]
        BY <2>2 DEF MintSession
      <4>2. /\ req' \in [Requests -> HandlerState]
            /\ req'[r].pc = "activate" /\ req'[r].sess = s
            /\ \A q \in Requests : q # r => req'[q] = req[q]
        BY <4>1, MintStep
      <4> QED
        BY <4>2
    <3>3. sessExp' \in [Sessions -> Nat] /\ minted' \in [Sessions -> BootTokens \cup {Nobody}]
      BY <2>2, <3>1 DEF MintSession
    <3> QED
      BY <2>2, <3>2, <3>3 DEF MintSession, records
  <2>3. CASE ActivateSession(r)
    <3>1. req[r].sess \in Sessions
      BY <2>3 DEF ActivateSession
    <3>2. req' \in [Requests -> HandlerState] /\ HandlersHold'
      BY <2>3, ReplyStep DEF ActivateSession, Resting
    <3>3. idle' \in [Sessions -> Nat]
      <4>1. now + idleTtl \in Nat
        OBVIOUS
      <4>2. Least(sessExp[req[r].sess], now + idleTtl) \in Nat
        BY <3>1, <4>1, LeastNat
      <4>3. CASE idleTtl = 0
        BY <2>3, <4>3 DEF ActivateSession
      <4>4. CASE idleTtl # 0
        BY <2>3, <3>1, <4>2, <4>4, KeptState DEF ActivateSession
      <4> QED
        BY <4>3, <4>4
    <3> QED
      BY <2>3, <3>1, <3>2, <3>3 DEF ActivateSession
  <2>4. CASE CheckRevoked(r)
    BY <2>4, PrunedRecords DEF CheckRevoked, Goto, HandlerState, Busy, tokens, history
  <2>5. CASE TouchSession(r)
    <3>1. req[r].sess \in Sessions
      BY <2>5 DEF TouchSession
    <3>2. Goto(r, "rejected") \/ Goto(r, "accepted")
      BY <2>5 DEF TouchSession
    <3>3. req' \in [Requests -> HandlerState] /\ HandlersHold'
      BY <3>1, <3>2, GotoStep, <2>5 DEF Busy, SameButPc, TouchSession
    <3>4. idle' \in [Sessions -> Nat] /\ lastActive' \in [Sessions -> Nat]
      <4>1. now + idleTtl \in Nat
        OBVIOUS
      <4>2. Least(sessExp[req[r].sess], now + idleTtl) \in Nat
        BY <3>1, <4>1, LeastNat
      <4> QED
        BY <2>5, <3>1, <4>2, KeptState DEF TouchSession
    <3> QED
      BY <2>5, <3>3, <3>4 DEF TouchSession, tokens
  <2>6. CASE RevokeSession(r)
    <3>1. req[r].sess \in Sessions
      BY <2>6 DEF RevokeSession
    <3>2. Goto(r, "delete") \/ Goto(r, "report")
      BY <2>6 DEF RevokeSession
    <3>3. req' \in [Requests -> HandlerState] /\ HandlersHold'
      BY <3>1, <3>2, GotoStep, <2>6 DEF Busy, SameButPc, RevokeSession
    <3>4. revoked' \in [Sessions -> Nat] /\ idle' \in [Sessions -> Nat]
      <4>1. RecordUntil(sessExp[req[r].sess], RevokeFallback) \in Nat
        BY <3>1, RecordUntilBound
      <4>2. Pruned(revoked) \in [Sessions -> Nat]
        BY PrunedRecords
      <4> QED
        BY <2>6, <3>1, <4>1, <4>2 DEF RevokeSession
    <3> QED
      BY <2>6, <3>1, <3>3, <3>4 DEF RevokeSession, tokens
  <2>7. CASE DeleteState(r)
    <3>1. req' \in [Requests -> HandlerState] /\ HandlersHold'
      BY <2>7, GotoStep DEF DeleteState, Busy, SameButPc
    <3>2. idle' \in [Sessions -> Nat]
      BY <2>7 DEF DeleteState, UnexpiredState
    <3> QED
      BY <2>7, <3>1, <3>2 DEF DeleteState, tokens, history
  <2>8. CASE ReportRevocation(r)
    BY <2>8, ReplyStep DEF ReportRevocation, Resting, tokens, records, history
  <2>9. CASE StepFails(r)
    BY <2>9, ReplyStep DEF StepFails, Resting, tokens, records, history
  <2>10. CASE Respond(r)
    BY <2>10, ReplyStep DEF Respond, Resting, tokens, records, history
  <2> QED
    BY <1>4, <2>1, <2>2, <2>3, <2>4, <2>5, <2>6, <2>7, <2>8, <2>9, <2>10 DEF Handler
<1>5. CASE Tick
  BY <1>5, PrunedRecords DEF Tick, tokens, history
<1>6. CASE UNCHANGED vars
  BY <1>6 DEF vars, tokens, records, history
<1> QED
  BY <1>1, <1>2, <1>3, <1>4, <1>5, <1>6 DEF Next

\* TypeOK: every variable of HostSession keeps the shape its code gives it.
THEOREM TypeCorrect == Spec => []TypeOK
<1>1. TypeInv => TypeOK
  BY DEF TypeInv
<1> QED
  BY TypeInit, TypeStep, <1>1, PTL DEF Spec

-----------------------------------------------------------------------------
LEMMA BaseInit == Init => HandlersFresh /\ HistoryKnown /\ RecordsCover
BY DEF Init, HandlersFresh, HistoryKnown, RecordsCover, Resting, OnBoot, OnSess

\* The records of a store cover their tokens after every step, whichever handler
\* prunes, rewrites or adds them and however far the clock has gone.
LEMMA BaseStep == BaseInv /\ [Next]_vars => BaseInv'
<1> USE BackendAssumption, TtlAssumption DEF TtlAssumption
<1> SUFFICES ASSUME BaseInv, [Next]_vars, TypeInv' PROVE BaseInv'
  BY TypeStep DEF BaseInv
<1> USE DEF BaseInv, TypeInv, TypeOK, HandlersHold, HandlersFresh, HistoryKnown,
            RecordsCover, OnBoot, OnSess
<1>1. ASSUME NEW b \in BootTokens, IssueBootstrap(b) PROVE BaseInv'
  BY <1>1 DEF IssueBootstrap, tokens, records, history
<1>2. ASSUME NEW r \in Requests, NEW b \in BootTokens, VerifyBootstrap(r, b) PROVE BaseInv'
  BY <1>2 DEF VerifyBootstrap, tokens, records, history, Begin
<1>3. ASSUME NEW r \in Requests, NEW s \in Sessions, NEW k \in {"api", "logout"},
             VerifySession(r, s, k)
      PROVE  BaseInv'
  BY <1>3 DEF VerifySession, tokens, records, history, Begin
<1>4. ASSUME NEW r \in Requests, Handler(r) PROVE BaseInv'
  <2>1. CASE ConsumeBootstrap(r)
    <3> DEFINE b == req[r].boot
    <3>1. b \in BootTokens /\ bootExp[b] # 0
      BY <2>1 DEF ConsumeBootstrap
    <3>2. Goto(r, "rejected") \/ Goto(r, "build")
      BY <2>1 DEF ConsumeBootstrap
    <3>3. HandlersFresh'
      BY <2>1, <3>1, <3>2, GotoStep DEF Busy, SameButPc, ConsumeBootstrap, tokens
    <3>4. HistoryKnown'
      BY <2>1, <3>1 DEF ConsumeBootstrap, tokens
    <3>5. RecordsCover'
      <4>1. CASE InForce(replay[b])
        BY <2>1, <4>1 DEF ConsumeBootstrap, tokens
      <4>2. CASE ~InForce(replay[b])
        <5>1. RecordUntil(bootExp[b], ReplayFallback) >= bootExp[b] + Grace
          BY <3>1, RecordUntilBound
        <5>2. /\ Pruned(replay) \in [BootTokens -> Nat]
              /\ \A x \in BootTokens : Pruned(replay)[x] = replay[x] \/ replay[x] <= now
          BY PrunedRecords
        <5>3. replay' = [Pruned(replay) EXCEPT ![b] = RecordUntil(bootExp[b], ReplayFallback)]
          BY <2>1, <4>2 DEF ConsumeBootstrap
        <5>4. consumed' = consumed \cup {b}
          BY <2>1, <4>2 DEF ConsumeBootstrap
        <5>5. ASSUME NEW x \in consumed'
              PROVE  replay'[x] >= bootExp[x] + Grace \/ now >= bootExp[x] + Grace
          <6>1. CASE x = b
            BY <3>1, <5>1, <5>2, <5>3, <6>1
          <6>2. CASE x # b
            BY <5>2, <5>3, <5>4, <5>5, <6>2
          <6> QED
            BY <6>1, <6>2
        <5>6. UNCHANGED <<bootExp, sessExp, revoked, everRevoked, now>>
          BY <2>1 DEF ConsumeBootstrap, tokens
        <5> QED
          BY <5>5, <5>6
      <4> QED
        BY <4>1, <4>2
    <3> QED
      BY <3>3, <3>4, <3>5
  <2>2. ASSUME NEW s \in Sessions, MintSession(r, s) PROVE BaseInv'
    <3>1. req' = [req EXCEPT ![r].pc = "activate", ![r].sess = s]
      BY <2>2 DEF MintSession
    <3>2. /\ req'[r].pc = "activate" /\ req'[r].sess = s /\ req'[r].at = req[r].at
          /\ \A q \in Requests : q # r => req'[q] = req[q]
      BY <3>1, MintStep
    <3>3. sessExp'[s] # 0 /\ \A t \in Sessions : sessExp[t] # 0 => sessExp'[t] = sessExp[t]
      BY <2>2 DEF MintSession
    <3>4. HandlersFresh'
      BY <2>2, <3>2, <3>3 DEF MintSession
    <3>5. HistoryKnown'
      <4>1. req[r].boot \in consumed
        BY <2>2 DEF MintSession
      <4> QED
        BY <2>2, <3>3, <4>1 DEF MintSession
    <3>6. RecordsCover'
      BY <2>2, <3>3 DEF MintSession, records
    <3> QED
      BY <3>4, <3>5, <3>6
  <2>3. CASE ActivateSession(r)
    BY <2>3, ReplyStep DEF ActivateSession, Resting
  <2>4. CASE CheckRevoked(r)
    <3>1. Goto(r, "rejected") \/ Goto(r, "touch") \/ Goto(r, "accepted")
      BY <2>4 DEF CheckRevoked
    <3>2. HandlersFresh'
      BY <2>4, <3>1, GotoStep DEF Busy, SameButPc, CheckRevoked, tokens, history
    <3>3. /\ revoked' \in [Sessions -> Nat]
          /\ \A x \in Sessions : revoked'[x] = revoked[x] \/ revoked[x] <= now
      BY <2>4, PrunedRecords DEF CheckRevoked
    <3>4. RecordsCover'
      BY <2>4, <3>3 DEF CheckRevoked, tokens, history
    <3> QED
      BY <2>4, <3>2, <3>4 DEF CheckRevoked, tokens, history
  <2>5. CASE TouchSession(r)
    <3>1. Goto(r, "rejected") \/ Goto(r, "accepted")
      BY <2>5 DEF TouchSession
    <3>2. HandlersFresh'
      BY <2>5, <3>1, GotoStep DEF Busy, SameButPc, TouchSession, tokens
    <3> QED
      BY <2>5, <3>2 DEF TouchSession, tokens
  <2>6. CASE RevokeSession(r)
    <3> DEFINE s == req[r].sess
    <3>1. s \in Sessions /\ sessExp[s] # 0
      BY <2>6 DEF RevokeSession
    <3>2. Goto(r, "delete") \/ Goto(r, "report")
      BY <2>6 DEF RevokeSession
    <3>3. HandlersFresh'
      BY <2>6, <3>1, <3>2, GotoStep DEF Busy, SameButPc, RevokeSession, tokens
    <3>4. HistoryKnown'
      BY <2>6, <3>1 DEF RevokeSession, tokens
    <3>5. RecordUntil(sessExp[s], RevokeFallback) >= sessExp[s] + Grace
      BY <3>1, RecordUntilBound
    <3>6. /\ Pruned(revoked) \in [Sessions -> Nat]
          /\ \A x \in Sessions : Pruned(revoked)[x] = revoked[x] \/ revoked[x] <= now
      BY PrunedRecords
    <3>7. /\ revoked' = [Pruned(revoked) EXCEPT ![s] = RecordUntil(sessExp[s], RevokeFallback)]
          /\ everRevoked' = everRevoked \cup {s}
      BY <2>6 DEF RevokeSession
    <3>8. ASSUME NEW x \in everRevoked'
          PROVE  revoked'[x] >= sessExp[x] + Grace \/ now >= sessExp[x] + Grace
      <4>1. CASE x = s
        BY <3>1, <3>5, <3>6, <3>7, <4>1
      <4>2. CASE x # s
        BY <3>6, <3>7, <3>8, <4>2
      <4> QED
        BY <4>1, <4>2
    <3>9. RecordsCover'
      BY <2>6, <3>8 DEF RevokeSession, tokens
    <3> QED
      BY <3>3, <3>4, <3>9
  <2>7. CASE DeleteState(r)
    BY <2>7, GotoStep DEF DeleteState, Busy, SameButPc, tokens, history
  <2>8. CASE ReportRevocation(r)
    BY <2>8, ReplyStep DEF ReportRevocation, Resting, tokens, records, history
  <2>9. CASE StepFails(r)
    BY <2>9, ReplyStep DEF StepFails, Resting, tokens, records, history
  <2>10. CASE Respond(r)
    BY <2>10, ReplyStep DEF Respond, Resting, tokens, records, history
  <2> QED
    BY <1>4, <2>1, <2>2, <2>3, <2>4, <2>5, <2>6, <2>7, <2>8, <2>9, <2>10 DEF Handler
<1>5. CASE Tick
  <2>1. /\ replay' \in [BootTokens -> Nat] /\ revoked' \in [Sessions -> Nat]
        /\ \A x \in BootTokens : replay'[x] = replay[x] \/ replay[x] <= now + 1
        /\ \A x \in Sessions : revoked'[x] = revoked[x] \/ revoked[x] <= now + 1
    BY <1>5, PrunedRecords DEF Tick
  <2>2. HandlersFresh'
    BY <1>5 DEF Tick, tokens, history, HandlerState
  <2>3. RecordsCover'
    BY <1>5, <2>1 DEF Tick, tokens, history
  <2> QED
    BY <1>5, <2>2, <2>3 DEF Tick, tokens, history
<1>6. CASE UNCHANGED vars
  BY <1>6 DEF vars, tokens, records, history
<1> QED
  BY <1>1, <1>2, <1>3, <1>4, <1>5, <1>6 DEF Next

\* RevocationOutlivesToken: whatever is pruned or expires in between, a recorded
\* revocation counts until the session token is over (fileHostStore.ts revoke and
\* isRevoked, REVOKE_SESSION_STATE_LUA).
THEOREM RevocationRecordHolds == Spec => []RevocationOutlivesToken
<1>1. Init => BaseInv
  BY TypeInit, BaseInit DEF BaseInv
<1>2. BaseInv => RevocationOutlivesToken
  BY TtlAssumption
     DEF BaseInv, TypeInv, TypeOK, RecordsCover, RevocationOutlivesToken, InForce,
         TtlAssumption
<1> QED
  BY <1>1, <1>2, BaseStep, PTL DEF Spec

-----------------------------------------------------------------------------
\* A handler that verified a token reaches its record before the token's end and
\* MaxLatency are over.
LEMMA FreshAtRecord ==
  ASSUME BaseInv, Grace >= MaxLatency, NEW r \in Requests
  PROVE  /\ req[r].pc = "consume" => now < bootExp[req[r].boot] + Grace
         /\ req[r].pc = "checkRevoked" => now < sessExp[req[r].sess] + Grace
<1>1. req[r] \in HandlerState
  BY DEF BaseInv, TypeInv, TypeOK
<1>2. req[r].at \in Nat /\ now \in Nat
  BY <1>1 DEF HandlerState, BaseInv, TypeInv, TypeOK
<1>3. req[r].pc = "consume" => bootExp[req[r].boot] \in Nat
  BY DEF BaseInv, TypeInv, TypeOK, HandlersHold, OnBoot
<1>4. req[r].pc = "checkRevoked" => sessExp[req[r].sess] \in Nat
  BY DEF BaseInv, TypeInv, TypeOK, HandlersHold, OnSess
<1> QED
  BY <1>2, <1>3, <1>4, TtlAssumption DEF BaseInv, HandlersFresh, TtlAssumption

\* Steps that neither consume, mint nor touch a session's revocation.
LEMMA HolderFrame ==
  ASSUME OneHolder, LateStops, UNCHANGED <<minted, everRevoked>>,
         NEW r \in Requests,
         \A q \in Requests : q # r => req'[q] = req[q],
         req'[r].pc # "build",
         req'[r].late => /\ req'[r].sess \in everRevoked
                         /\ req'[r].pc \in {"checkRevoked", "rejected"}
  PROVE  OneHolder' /\ LateStops'
BY DEF OneHolder, LateStops, SingleMint

LEMMA HolderStep ==
  ASSUME Grace >= MaxLatency
  PROVE  IInv /\ [Next]_vars => IInv'
<1> SUFFICES ASSUME IInv, [Next]_vars, BaseInv' PROVE OneHolder' /\ LateStops'
  BY BaseStep DEF IInv
<1>0. BaseInv /\ TypeOK /\ OneHolder /\ LateStops
  BY DEF IInv, BaseInv, TypeInv
<1>1. ASSUME NEW b \in BootTokens, IssueBootstrap(b) PROVE OneHolder' /\ LateStops'
  BY <1>0, <1>1 DEF IssueBootstrap, records, history, OneHolder, LateStops, SingleMint
<1>2. ASSUME NEW r \in Requests, NEW b \in BootTokens, VerifyBootstrap(r, b)
      PROVE  OneHolder' /\ LateStops'
  <2>1. Begin(r, "exchange", b, Nobody, now < bootExp[b], "consume", FALSE)
    BY <1>2 DEF VerifyBootstrap
  <2>2. /\ req'[r].pc # "build" /\ req'[r].late = FALSE
        /\ \A q \in Requests : q # r => req'[q] = req[q]
    BY <1>0, <2>1 DEF Begin, TypeOK
  <2> QED
    BY <1>0, <1>2, <2>2, HolderFrame DEF VerifyBootstrap, history
<1>3. ASSUME NEW r \in Requests, NEW s \in Sessions, NEW k \in {"api", "logout"},
             VerifySession(r, s, k)
      PROVE  OneHolder' /\ LateStops'
  <2>1. Begin(r, k, Nobody, s, now < sessExp[s], "checkRevoked", s \in everRevoked)
    BY <1>3 DEF VerifySession
  <2>2. /\ req'[r].pc \in {"checkRevoked", "rejected"}
        /\ req'[r].late = (s \in everRevoked) /\ req'[r].sess = s
        /\ \A q \in Requests : q # r => req'[q] = req[q]
    BY <1>0, <2>1 DEF Begin, TypeOK
  <2> QED
    BY <1>0, <1>3, <2>2, HolderFrame DEF VerifySession, history
<1>4. ASSUME NEW r \in Requests, Handler(r) PROVE OneHolder' /\ LateStops'
  <2>1. CASE ConsumeBootstrap(r)
    <3> DEFINE b == req[r].boot
    <3>1. b \in BootTokens /\ now < bootExp[b] + Grace
      BY <1>0, <2>1, FreshAtRecord
         DEF ConsumeBootstrap, BaseInv, TypeInv, HandlersHold, OnBoot
    <3>2. ~req[r].late
      BY <1>0, <2>1 DEF ConsumeBootstrap, LateStops
    <3>3. CASE InForce(replay[b])
      <4>1. Goto(r, "rejected") /\ UNCHANGED <<minted, everRevoked>>
        BY <2>1, <3>3 DEF ConsumeBootstrap
      <4>2. SameButPc(r, "rejected") /\ \A q \in Requests : q # r => req'[q] = req[q]
        BY <1>0, <4>1, GotoStep DEF Busy
      <4> QED
        BY <1>0, <3>2, <4>1, <4>2, HolderFrame DEF SameButPc
    <3>4. CASE ~InForce(replay[b])
      <4>1. b \notin consumed
        <5>1. replay[b] \in Nat /\ bootExp[b] \in Nat /\ now \in Nat
          BY <1>0, <3>1 DEF TypeOK
        <5> QED
          BY <1>0, <3>1, <3>4, <5>1, TtlAssumption
             DEF BaseInv, RecordsCover, InForce, TtlAssumption
      <4>2. Goto(r, "build") /\ UNCHANGED <<minted, everRevoked>>
        BY <2>1, <3>4 DEF ConsumeBootstrap
      <4>3. SameButPc(r, "build") /\ \A q \in Requests : q # r => req'[q] = req[q]
        BY <1>0, <4>2, GotoStep DEF Busy
      <4>4. \A q \in Requests : req[q].pc = "build" => req[q].boot # b
        BY <1>0, <4>1 DEF BaseInv, HandlersFresh
      <4>5. \A s \in Sessions : minted[s] # b
        BY <1>0, <3>1, <4>1, BackendAssumption
           DEF BaseInv, HistoryKnown, BackendAssumption
      <4>6. OneHolder'
        BY <1>0, <4>2, <4>3, <4>4, <4>5 DEF OneHolder, SingleMint, SameButPc
      <4>7. LateStops'
        BY <1>0, <3>2, <4>2, <4>3 DEF LateStops, SameButPc
      <4> QED
        BY <4>6, <4>7
    <3> QED
      BY <3>3, <3>4
  <2>2. ASSUME NEW s \in Sessions, MintSession(r, s) PROVE OneHolder' /\ LateStops'
    <3> DEFINE b == req[r].boot
    <3>1. req' = [req EXCEPT ![r].pc = "activate", ![r].sess = s]
      BY <2>2 DEF MintSession
    <3>2. /\ req'[r].pc = "activate" /\ req'[r].late = req[r].late
          /\ \A q \in Requests : q # r => req'[q] = req[q]
      BY <1>0, <3>1, MintStep
    <3>3. /\ req[r].pc = "build" /\ ~req[r].late /\ UNCHANGED everRevoked
          /\ \A t \in Sessions : minted'[t] = IF t = s THEN b ELSE minted[t]
      BY <1>0, <2>2 DEF MintSession, LateStops, TypeOK
    <3>4. \A t \in Sessions : minted[t] # b
      BY <1>0, <3>3 DEF OneHolder
    <3>5. \A q \in Requests : q # r /\ req[q].pc = "build" => req[q].boot # b
      BY <1>0, <3>3 DEF OneHolder
    <3>6. OneHolder'
      BY <1>0, <3>2, <3>3, <3>4, <3>5 DEF OneHolder, SingleMint
    <3>7. LateStops'
      BY <1>0, <3>2, <3>3 DEF LateStops
    <3> QED
      BY <3>6, <3>7
  <2>3. CASE CheckRevoked(r)
    <3> DEFINE s == req[r].sess
    <3>1. s \in Sessions /\ now < sessExp[s] + Grace
      BY <1>0, <2>3, FreshAtRecord
         DEF CheckRevoked, BaseInv, TypeInv, HandlersHold, OnSess
    <3>2. req[r].late => s \in everRevoked
      BY <1>0 DEF LateStops
    <3>3. req[r].late => InForce(revoked[s])
      <4>1. revoked[s] \in Nat /\ sessExp[s] \in Nat /\ now \in Nat
        BY <1>0, <3>1 DEF TypeOK
      <4> QED
        BY <1>0, <3>1, <3>2, <4>1, TtlAssumption
           DEF BaseInv, RecordsCover, InForce, TtlAssumption
    <3>4. \/ Goto(r, "rejected")
          \/ ~req[r].late /\ Goto(r, "touch")
          \/ ~req[r].late /\ Goto(r, "accepted")
      BY <2>3, <3>3 DEF CheckRevoked
    <3>5. /\ req'[r].pc \in {"rejected", "touch", "accepted"}
          /\ req'[r].late = req[r].late /\ req'[r].sess = s
          /\ req[r].late => req'[r].pc = "rejected"
          /\ \A q \in Requests : q # r => req'[q] = req[q]
      BY <1>0, <3>4, GotoStep DEF Busy, SameButPc
    <3> QED
      BY <1>0, <2>3, <3>2, <3>5, HolderFrame DEF CheckRevoked, history
  <2>4. CASE TouchSession(r)
    <3>1. ~req[r].late
      BY <1>0, <2>4 DEF TouchSession, LateStops
    <3>2. Goto(r, "rejected") \/ Goto(r, "accepted")
      BY <2>4 DEF TouchSession
    <3>3. /\ req'[r].pc # "build" /\ req'[r].late = req[r].late
          /\ \A q \in Requests : q # r => req'[q] = req[q]
      BY <1>0, <3>2, GotoStep DEF Busy, SameButPc
    <3> QED
      BY <1>0, <2>4, <3>1, <3>3, HolderFrame DEF TouchSession
  <2>5. CASE RevokeSession(r)
    <3>1. ~req[r].late
      BY <1>0, <2>5 DEF RevokeSession, LateStops
    <3>2. Goto(r, "delete") \/ Goto(r, "report")
      BY <2>5 DEF RevokeSession
    <3>3. /\ req'[r].pc # "build" /\ req'[r].late = req[r].late
          /\ \A q \in Requests : q # r => req'[q] = req[q]
      BY <1>0, <3>2, GotoStep DEF Busy, SameButPc
    <3>4. minted' = minted /\ everRevoked \subseteq everRevoked'
      BY <2>5 DEF RevokeSession
    <3> QED
      BY <1>0, <3>1, <3>3, <3>4 DEF OneHolder, LateStops, SingleMint
  <2>6. CASE DeleteState(r)
    <3>1. ~req[r].late
      BY <1>0, <2>6 DEF DeleteState, LateStops
    <3>2. /\ req'[r].pc # "build" /\ req'[r].late = req[r].late
          /\ \A q \in Requests : q # r => req'[q] = req[q]
      BY <1>0, <2>6, GotoStep DEF DeleteState, Busy, SameButPc
    <3> QED
      BY <1>0, <2>6, <3>1, <3>2, HolderFrame DEF DeleteState, history
  <2>7. CASE ActivateSession(r) \/ ReportRevocation(r) \/ StepFails(r) \/ Respond(r)
    <3>1. Reply(r) /\ UNCHANGED <<minted, everRevoked>>
      BY <2>7 DEF ActivateSession, ReportRevocation, StepFails, Respond, history
    <3>2. /\ req'[r].pc # "build" /\ ~req'[r].late
          /\ \A q \in Requests : q # r => req'[q] = req[q]
      BY <1>0, <3>1, ReplyStep, BackendAssumption DEF Resting
    <3> QED
      BY <1>0, <3>1, <3>2, HolderFrame
  <2> QED
    BY <1>4, <2>1, <2>2, <2>3, <2>4, <2>5, <2>6, <2>7 DEF Handler
<1>5. CASE Tick
  BY <1>0, <1>5 DEF Tick, history, OneHolder, LateStops, SingleMint
<1>6. CASE UNCHANGED vars
  BY <1>0, <1>6 DEF vars, history, OneHolder, LateStops, SingleMint
<1> QED
  BY <1>1, <1>2, <1>3, <1>4, <1>5, <1>6 DEF Next

LEMMA HolderInit == Init => IInv
BY TypeInit, BaseInit
   DEF Init, IInv, BaseInv, OneHolder, LateStops, SingleMint, Resting

\* SingleMint: however many exchanges of a bootstrap token run at once, on however
\* many replicas, one session at most comes of it, when the grace of the replay
\* records covers the time a handler is in flight (redisHostStore.ts).
THEOREM MintOnce ==
  ASSUME Grace >= MaxLatency
  PROVE  Spec => []SingleMint
<1>1. IInv => SingleMint
  BY DEF IInv, OneHolder
<1> QED
  BY HolderInit, HolderStep, <1>1, PTL DEF Spec

\* RevocationFinal: under the same grace no request that starts after a logout is
\* recorded gets past readHostSessionContext.
THEOREM LogoutIsFinal ==
  ASSUME Grace >= MaxLatency
  PROVE  Spec => []RevocationFinal
<1>1. IInv => RevocationFinal
  BY DEF IInv, LateStops, RevocationFinal
<1> QED
  BY HolderInit, HolderStep, <1>1, PTL DEF Spec

-----------------------------------------------------------------------------
(* What the records of a session mean.  The state record of a session that   *)
(* was not revoked is its idle deadline, until that deadline is over; there  *)
(* are records of tokens that were consumed and of sessions that were logged *)
(* out, and no others.  Which handler may still write to a session's state   *)
(* follows from how its cookie came about: an activation runs before the     *)
(* cookie is delivered and only once, everything else after it.              *)

\* The second a session ends at: its own, or idleTtl after its last activity.
Lasts(s) == Least(sessExp[s], lastActive[s] + idleTtl)

\* Only exchanges work on tokens and sessions that no browser has; the other
\* routes work on delivered sessions.
SessionsShown ==
  /\ everRevoked \subseteq delivered
  /\ \A r \in Requests :
       /\ req[r].pc \in {"consume", "build", "activate"} => req[r].kind = "exchange"
       /\ req[r].pc \in {"checkRevoked", "touch", "accepted", "delete", "report"} =>
            req[r].kind # "exchange" /\ req[r].sess \in delivered
       /\ req[r].pc \in {"delete", "report"} => req[r].sess \in everRevoked
       /\ req[r].pc = "touch" => idleTtl > 0
       /\ req[r].pc = "activate" => req[r].sess \notin delivered
  /\ \A q, r \in Requests :
       req[q].pc = "activate" /\ req[r].pc = "activate" /\ req[q].sess = req[r].sess =>
         q = r

RecordsMeant ==
  /\ \A b \in BootTokens : replay[b] # 0 => b \in consumed
  /\ \A s \in Sessions : revoked[s] # 0 => s \in everRevoked
  /\ \A s \in Sessions : lastActive[s] <= now /\ idle[s] <= lastActive[s] + idleTtl
  /\ \A s \in delivered \ everRevoked :
       idleTtl > 0 => idle[s] = Lasts(s) \/ now >= Lasts(s)

MeantInv == BaseInv /\ SessionsShown /\ RecordsMeant

LEMMA MeantInit == Init => MeantInv
<1> SUFFICES ASSUME Init PROVE SessionsShown /\ RecordsMeant
  BY TypeInit, BaseInit DEF MeantInv, BaseInv
<1>1. idleTtl \in Nat
  BY TtlAssumption DEF Init, TtlAssumption
<1> QED
  BY <1>1 DEF Init, SessionsShown, RecordsMeant, Resting

\* A rewrite of the state file leaves an entry as it is or takes away one that no
\* longer counts.
LEMMA KeptEntries ==
  ASSUME TypeOK, NEW s \in Sessions
  PROVE  /\ UnexpiredState[s] = idle[s] \/ (UnexpiredState[s] = 0 /\ sessExp[s] <= now)
         /\ \/ ActiveState[s] = idle[s]
            \/ ActiveState[s] = 0 /\ (sessExp[s] <= now \/ idle[s] <= now)
BY DEF TypeOK, UnexpiredState, ActiveState, InForce

\* A step of a handler leaves the others where they are.
LEMMA HandlersApart ==
  ASSUME TypeOK, NEW r \in Requests, Handler(r)
  PROVE  \A q \in Requests : q # r => req'[q] = req[q]
BY DEF TypeOK, Handler, ConsumeBootstrap, MintSession, ActivateSession, CheckRevoked,
       TouchSession, RevokeSession, DeleteState, ReportRevocation, StepFails, Respond,
       Goto, Reply

\* A handler that neither activates nor starts: it goes on with the session it has.
LEMMA ShownFrame ==
  ASSUME SessionsShown, UNCHANGED <<idleTtl, delivered>>,
         everRevoked \subseteq everRevoked', everRevoked' \subseteq delivered,
         NEW r \in Requests,
         \A q \in Requests : q # r => req'[q] = req[q],
         req'[r].pc # "activate",
         req'[r].pc \in {"consume", "build"} => req'[r].kind = "exchange",
         req'[r].pc \in {"checkRevoked", "touch", "accepted", "delete", "report"} =>
           req'[r].kind # "exchange" /\ req'[r].sess \in delivered,
         req'[r].pc \in {"delete", "report"} => req'[r].sess \in everRevoked',
         req'[r].pc = "touch" => idleTtl > 0
  PROVE  SessionsShown'
BY DEF SessionsShown

LEMMA ShownStep == MeantInv /\ [Next]_vars => SessionsShown'
<1> SUFFICES ASSUME MeantInv, [Next]_vars PROVE SessionsShown'
  OBVIOUS
<1>0. BaseInv /\ TypeOK /\ SessionsShown
  BY DEF MeantInv, BaseInv, TypeInv
<1>1. ASSUME NEW b \in BootTokens, IssueBootstrap(b) PROVE SessionsShown'
  BY <1>0, <1>1 DEF IssueBootstrap, history, SessionsShown
<1>2. ASSUME NEW r \in Requests, NEW b \in BootTokens, VerifyBootstrap(r, b)
      PROVE  SessionsShown'
  <2>1. Begin(r, "exchange", b, Nobody, now < bootExp[b], "consume", FALSE)
    BY <1>2 DEF VerifyBootstrap
  <2>2. /\ req'[r].pc \in {"consume", "rejected"} /\ req'[r].kind = "exchange"
        /\ \A q \in Requests : q # r => req'[q] = req[q]
    BY <1>0, <2>1 DEF Begin, TypeOK
  <2>3. UNCHANGED <<idleTtl, delivered, everRevoked>> /\ everRevoked \subseteq delivered
    BY <1>0, <1>2 DEF VerifyBootstrap, tokens, history, SessionsShown
  <2> QED
    BY <1>0, <2>2, <2>3, ShownFrame
<1>3. ASSUME NEW r \in Requests, NEW s \in Sessions, NEW k \in {"api", "logout"},
             VerifySession(r, s, k)
      PROVE  SessionsShown'
  <2>1. /\ Begin(r, k, Nobody, s, now < sessExp[s], "checkRevoked", s \in everRevoked)
        /\ s \in delivered
    BY <1>3 DEF VerifySession
  <2>2. /\ req'[r].pc \in {"checkRevoked", "rejected"}
        /\ req'[r].kind # "exchange" /\ req'[r].sess = s
        /\ \A q \in Requests : q # r => req'[q] = req[q]
    BY <1>0, <2>1 DEF Begin, TypeOK
  <2>3. UNCHANGED <<idleTtl, delivered, everRevoked>> /\ everRevoked \subseteq delivered
    BY <1>0, <1>3 DEF VerifySession, tokens, history, SessionsShown
  <2> QED
    BY <1>0, <2>1, <2>2, <2>3, ShownFrame
<1>4. ASSUME NEW r \in Requests, Handler(r) PROVE SessionsShown'
  <2>0. \A q \in Requests : q # r => req'[q] = req[q]
    BY <1>0, <1>4, HandlersApart
  <2>1. CASE ConsumeBootstrap(r)
    <3>1. Goto(r, "rejected") \/ Goto(r, "build")
      BY <2>1 DEF ConsumeBootstrap
    <3>2. req'[r].pc \in {"rejected", "build"} /\ req'[r].kind = "exchange"
      BY <1>0, <2>1, <3>1, GotoStep DEF Busy, SameButPc, SessionsShown, ConsumeBootstrap
    <3>3. UNCHANGED <<idleTtl, delivered, everRevoked>> /\ everRevoked \subseteq delivered
      BY <1>0, <2>1 DEF ConsumeBootstrap, tokens, SessionsShown
    <3> QED
      BY <1>0, <2>0, <3>2, <3>3, ShownFrame
  <2>2. ASSUME NEW s \in Sessions, MintSession(r, s) PROVE SessionsShown'
    <3>1. req' = [req EXCEPT ![r].pc = "activate", ![r].sess = s]
      BY <2>2 DEF MintSession
    <3>2. req'[r].pc = "activate" /\ req'[r].sess = s /\ req'[r].kind = req[r].kind
      BY <1>0, <3>1, MintStep
    <3>3. req[r].kind = "exchange"
      BY <1>0, <2>2 DEF MintSession, SessionsShown
    <3>4. s \notin delivered
      BY <1>0, <2>2 DEF MintSession, BaseInv, HistoryKnown
    <3>5. \A q \in Requests : req[q].pc = "activate" => req[q].sess # s
      BY <1>0, <2>2 DEF MintSession, BaseInv, HandlersFresh, OnSess
    <3>6. UNCHANGED <<idleTtl, delivered, everRevoked>>
      BY <2>2 DEF MintSession
    <3> QED
      BY <1>0, <2>0, <3>2, <3>3, <3>4, <3>5, <3>6 DEF SessionsShown
  <2>3. CASE ActivateSession(r)
    <3>1. req'[r] = Resting
      BY <1>0, <2>3, ReplyStep, BackendAssumption DEF ActivateSession
    <3>2. /\ req[r].pc = "activate" /\ delivered' = delivered \cup {req[r].sess}
          /\ UNCHANGED <<idleTtl, everRevoked>>
      BY <2>3 DEF ActivateSession
    <3>3. \A q \in Requests :
            q # r /\ req[q].pc = "activate" => req[q].sess # req[r].sess
      BY <1>0, <3>2 DEF SessionsShown
    <3>4. req'[r].pc = "idle"
      BY <3>1 DEF Resting
    <3> QED
      BY <1>0, <2>0, <3>2, <3>3, <3>4 DEF SessionsShown
  <2>4. CASE CheckRevoked(r)
    <3>1. \/ Goto(r, "rejected") \/ Goto(r, "accepted")
          \/ Goto(r, "touch") /\ idleTtl > 0
      BY <2>4 DEF CheckRevoked
    <3>2. /\ req'[r].pc \in {"rejected", "accepted", "touch"}
          /\ req'[r].pc = "touch" => idleTtl > 0
          /\ req'[r].kind = req[r].kind /\ req'[r].sess = req[r].sess
      BY <1>0, <3>1, GotoStep DEF Busy, SameButPc
    <3>3. req[r].kind # "exchange" /\ req[r].sess \in delivered
      BY <1>0, <2>4 DEF CheckRevoked, SessionsShown
    <3>4. UNCHANGED <<idleTtl, delivered, everRevoked>> /\ everRevoked \subseteq delivered
      BY <1>0, <2>4 DEF CheckRevoked, tokens, history, SessionsShown
    <3> QED
      BY <1>0, <2>0, <3>2, <3>3, <3>4, ShownFrame
  <2>5. CASE TouchSession(r) \/ RevokeSession(r) \/ DeleteState(r)
    <3>1. \E pc \in {"rejected", "accepted", "delete", "report"} : Goto(r, pc)
      BY <2>5 DEF TouchSession, RevokeSession, DeleteState
    <3>2. /\ req'[r].pc \in {"rejected", "accepted", "delete", "report"}
          /\ req'[r].kind = req[r].kind /\ req'[r].sess = req[r].sess
      BY <1>0, <3>1, GotoStep DEF Busy, SameButPc
    <3>3. req[r].kind # "exchange" /\ req[r].sess \in delivered
      BY <1>0, <2>5 DEF TouchSession, RevokeSession, DeleteState, SessionsShown
    <3>4. /\ UNCHANGED <<idleTtl, delivered>> /\ everRevoked' \subseteq delivered
          /\ everRevoked \subseteq everRevoked'
      BY <1>0, <2>5, <3>3
         DEF TouchSession, RevokeSession, DeleteState, tokens, history, SessionsShown
    <3>5. req'[r].pc \in {"delete", "report"} => req[r].sess \in everRevoked'
      <4>1. CASE TouchSession(r)
        <5>1. Goto(r, "rejected") \/ Goto(r, "accepted")
          BY <4>1 DEF TouchSession
        <5> QED
          BY <1>0, <5>1, GotoStep DEF Busy, SameButPc
      <4>2. CASE RevokeSession(r)
        BY <4>2 DEF RevokeSession
      <4>3. CASE DeleteState(r)
        BY <1>0, <4>3 DEF DeleteState, SessionsShown, history
      <4> QED
        BY <2>5, <4>1, <4>2, <4>3
    <3> QED
      BY <1>0, <2>0, <3>2, <3>3, <3>4, <3>5, ShownFrame
  <2>6. CASE ReportRevocation(r) \/ StepFails(r) \/ Respond(r)
    <3>1. Reply(r) /\ UNCHANGED <<idleTtl, delivered, everRevoked>>
      BY <2>6 DEF ReportRevocation, StepFails, Respond, tokens, history
    <3>2. req'[r].pc = "idle"
      BY <1>0, <3>1, ReplyStep, BackendAssumption DEF Resting
    <3>3. everRevoked' \subseteq delivered
      BY <1>0, <3>1 DEF SessionsShown
    <3> QED
      BY <1>0, <2>0, <3>1, <3>2, <3>3, ShownFrame
  <2> QED
    BY <1>4, <2>1, <2>2, <2>3, <2>4, <2>5, <2>6 DEF Handler
<1>5. CASE Tick
  BY <1>0, <1>5 DEF Tick, tokens, history, SessionsShown
<1>6. CASE UNCHANGED vars
  BY <1>0, <1>6 DEF vars, tokens, history, SessionsShown
<1> QED
  BY <1>1, <1>2, <1>3, <1>4, <1>5, <1>6 DEF Next

\* One session's part of RecordsMeant that a step can disturb.
LEMMA LastsBounds ==
  ASSUME TypeOK, TtlAssumption, NEW s \in Sessions
  PROVE  /\ Lasts(s) \in Nat /\ Lasts(s) <= sessExp[s]
         /\ Lasts(s) <= lastActive[s] + idleTtl
         /\ Lasts(s) = sessExp[s] \/ Lasts(s) = lastActive[s] + idleTtl
BY DEF TypeOK, Lasts, Least, TtlAssumption

\* Steps that touch no session: no record comes, no deadline moves.
LEMMA MeantFrame ==
  ASSUME BaseInv, TypeOK, TypeOK', RecordsMeant,
         UNCHANGED <<idleTtl, sessExp, delivered, idle, everRevoked, lastActive>>,
         now <= now', consumed \subseteq consumed',
         \A b \in BootTokens : replay'[b] # 0 => b \in consumed',
         \A s \in Sessions : revoked'[s] # 0 => revoked[s] # 0
  PROVE  RecordsMeant'
<1>1. \A s \in Sessions : Lasts(s)' = Lasts(s)
  BY DEF Lasts, Least
<1>2. ASSUME NEW s \in delivered' \ everRevoked', idleTtl' > 0
      PROVE  idle'[s] = Lasts(s)' \/ now' >= Lasts(s)'
  <2>1. s \in Sessions /\ s \in delivered \ everRevoked /\ idleTtl > 0
    BY <1>2 DEF TypeOK
  <2>2. Lasts(s) \in Nat /\ now \in Nat /\ now' \in Nat
    BY <2>1, LastsBounds, TtlAssumption DEF TypeOK
  <2> QED
    BY <1>1, <2>1, <2>2 DEF RecordsMeant
<1>3. \A s \in Sessions : lastActive'[s] <= now' /\ idle'[s] <= lastActive'[s] + idleTtl'
  BY DEF RecordsMeant, TypeOK
<1>4. \A s \in Sessions : revoked'[s] # 0 => s \in everRevoked'
  BY DEF RecordsMeant
<1> QED
  BY <1>2, <1>3, <1>4 DEF RecordsMeant

\* Steps that rewrite the state of one session s: the entries of the others are
\* kept, or were over; s gets its new deadline, or is revoked or over.
LEMMA MeantRewrite ==
  ASSUME BaseInv, TypeOK, TypeOK', RecordsMeant, NEW s \in Sessions,
         UNCHANGED <<idleTtl, now, sessExp, replay, consumed>>,
         everRevoked \subseteq everRevoked',
         delivered' \subseteq delivered \cup {s},
         \A t \in Sessions : revoked'[t] # 0 => t \in everRevoked',
         \A t \in Sessions \ {s} :
           /\ lastActive'[t] = lastActive[t]
           /\ \/ idle'[t] = idle[t]
              \/ idle'[t] = 0 /\ (sessExp[t] <= now \/ idle[t] <= now),
         lastActive'[s] = lastActive[s] \/ lastActive'[s] = now,
         \/ idle'[s] = Lasts(s)'
         \/ idle'[s] = idle[s] /\ (s \in everRevoked' \/ idleTtl = 0)
         \/ idle'[s] = 0 /\ (s \in everRevoked' \/ now >= Lasts(s)')
  PROVE  RecordsMeant'
<1>0. idleTtl \in Nat /\ now \in Nat
  BY TtlAssumption DEF TypeOK, TtlAssumption
<1>1. ASSUME NEW t \in Sessions
      PROVE  Lasts(t)' \in Nat /\ Lasts(t)' <= lastActive'[t] + idleTtl'
  <2>1. sessExp'[t] \in Nat /\ lastActive'[t] + idleTtl' \in Nat
    BY <1>0 DEF TypeOK
  <2> QED
    BY <2>1, LeastNat DEF Lasts, Least
<1>2. \A t \in Sessions :
        /\ lastActive'[t] <= now' /\ idle'[t] <= lastActive'[t] + idleTtl'
        /\ lastActive'[t] \in Nat /\ idle'[t] \in Nat
  BY <1>0, <1>1 DEF RecordsMeant, TypeOK
<1>3. ASSUME NEW t \in delivered' \ everRevoked', idleTtl' > 0
      PROVE  idle'[t] = Lasts(t)' \/ now' >= Lasts(t)'
  <2>1. CASE t = s
    BY <1>0, <1>3, <2>1
  <2>2. CASE t # s
    <3>1. t \in Sessions /\ t \in delivered \ everRevoked /\ lastActive'[t] = lastActive[t]
      BY <1>3, <2>2 DEF TypeOK
    <3>2. Lasts(t)' = Lasts(t)
      BY <3>1 DEF Lasts, Least
    <3>3. idle[t] = Lasts(t) \/ now >= Lasts(t)
      BY <1>3, <3>1 DEF RecordsMeant
    <3>4. Lasts(t) \in Nat /\ Lasts(t) <= sessExp[t] /\ sessExp[t] \in Nat
      BY <3>1, LastsBounds, TtlAssumption DEF TypeOK
    <3>5. \/ idle'[t] = idle[t]
          \/ idle'[t] = 0 /\ (sessExp[t] <= now \/ idle[t] <= now)
      BY <2>2, <3>1
    <3> QED
      BY <1>0, <3>2, <3>3, <3>4, <3>5
  <2> QED
    BY <2>1, <2>2
<1> QED
  BY <1>2, <1>3 DEF RecordsMeant

LEMMA MeantStep == MeantInv /\ [Next]_vars => RecordsMeant'
<1> SUFFICES ASSUME MeantInv, [Next]_vars, TypeOK' PROVE RecordsMeant'
  BY TypeStep DEF MeantInv, BaseInv, TypeInv
<1>0. /\ BaseInv /\ TypeOK /\ SessionsShown /\ RecordsMeant
      /\ idleTtl \in Nat /\ now \in Nat
  BY TtlAssumption DEF MeantInv, BaseInv, TypeInv, TypeOK, TtlAssumption
<1>1. ASSUME NEW b \in BootTokens, IssueBootstrap(b) PROVE RecordsMeant'
  BY <1>0, <1>1, MeantFrame DEF IssueBootstrap, records, history, RecordsMeant
<1>2. ASSUME NEW r \in Requests, NEW b \in BootTokens, VerifyBootstrap(r, b)
      PROVE  RecordsMeant'
  BY <1>0, <1>2, MeantFrame DEF VerifyBootstrap, tokens, records, history, RecordsMeant
<1>3. ASSUME NEW r \in Requests, NEW s \in Sessions, NEW k \in {"api", "logout"},
             VerifySession(r, s, k)
      PROVE  RecordsMeant'
  BY <1>0, <1>3, MeantFrame DEF VerifySession, tokens, records, history, RecordsMeant
<1>4. ASSUME NEW r \in Requests, Handler(r) PROVE RecordsMeant'
  <2> SUFFICES ASSUME NEW s, s = req[r].sess PROVE RecordsMeant'
    OBVIOUS
  <2>0. req[r].pc \in OnSess => s \in Sessions
    BY <1>0 DEF BaseInv, TypeInv, HandlersHold
  <2>1. CASE ConsumeBootstrap(r)
    <3>1. req[r].boot \in BootTokens
      BY <1>0, <2>1 DEF ConsumeBootstrap, BaseInv, TypeInv, HandlersHold, OnBoot
    <3>2. ASSUME NEW x \in BootTokens, replay'[x] # 0 PROVE x \in consumed'
      <4>1. /\ Pruned(replay) \in [BootTokens -> Nat]
            /\ Pruned(replay)[x] = replay[x] \/ Pruned(replay)[x] = 0
        BY <1>0, PrunedRecords DEF TypeOK, Pruned
      <4> QED
        BY <1>0, <2>1, <3>1, <3>2, <4>1 DEF ConsumeBootstrap, RecordsMeant
    <3>3. consumed \subseteq consumed'
      BY <2>1 DEF ConsumeBootstrap
    <3> QED
      BY <1>0, <2>1, <3>2, <3>3, MeantFrame DEF ConsumeBootstrap, tokens
  <2>2. ASSUME NEW t \in Sessions, MintSession(r, t) PROVE RecordsMeant'
    <3>1. t \notin delivered
      BY <1>0, <2>2 DEF MintSession, BaseInv, HistoryKnown
    <3>2. \A x \in Sessions : x # t => sessExp'[x] = sessExp[x]
      BY <1>0, <2>2 DEF MintSession, TypeOK
    <3>3. ASSUME NEW x \in delivered' \ everRevoked'
          PROVE  x \in Sessions /\ x \in delivered \ everRevoked /\ Lasts(x)' = Lasts(x)
      BY <1>0, <2>2, <3>1, <3>2, <3>3 DEF MintSession, Lasts, Least, TypeOK
    <3> QED
      BY <1>0, <2>2, <3>3 DEF MintSession, records, RecordsMeant
  <2>3. CASE ActivateSession(r)
    <3>1. s \in Sessions
      BY <2>0, <2>3 DEF ActivateSession, OnSess
    <3>2. /\ UNCHANGED <<idleTtl, now, sessExp, replay, revoked, consumed, everRevoked>>
          /\ delivered' = delivered \cup {s}
          /\ lastActive'[s] = now
          /\ \A t \in Sessions \ {s} : lastActive'[t] = lastActive[t]
      BY <1>0, <2>3, <3>1 DEF ActivateSession, TypeOK
    <3>3. \A t \in Sessions : revoked'[t] # 0 => t \in everRevoked'
      BY <1>0, <3>2 DEF RecordsMeant
    <3>4. /\ idle'[s] = Lasts(s)' \/ (idle'[s] = idle[s] /\ idleTtl = 0)
          /\ \A t \in Sessions \ {s} :
               \/ idle'[t] = idle[t]
               \/ idle'[t] = 0 /\ (sessExp[t] <= now \/ idle[t] <= now)
      <4>1. CASE idleTtl = 0
        BY <2>3, <4>1 DEF ActivateSession
      <4>2. CASE idleTtl # 0
        <5>1. \/ idle' = [UnexpiredState EXCEPT ![s] = Least(sessExp[s], now + idleTtl)]
              \/ idle' = [idle EXCEPT ![s] = Least(sessExp[s], now + idleTtl)]
          BY <2>3, <4>2 DEF ActivateSession
        <5>2. UnexpiredState \in [Sessions -> Nat] /\ idle \in [Sessions -> Nat]
          BY <1>0, KeptState DEF TypeOK
        <5>3. idle'[s] = Least(sessExp[s], now + idleTtl)
          BY <3>1, <5>1, <5>2
        <5>4. idle'[s] = Lasts(s)'
          BY <3>2, <5>3 DEF Lasts, Least
        <5> QED
          BY <1>0, <5>1, <5>2, <5>4, KeptEntries
      <4> QED
        BY <4>1, <4>2
    <3> QED
      BY <1>0, <3>1, <3>2, <3>3, <3>4, MeantRewrite
  <2>4. CASE CheckRevoked(r)
    <3>1. \A t \in Sessions : revoked'[t] # 0 => revoked[t] # 0
      BY <1>0, <2>4 DEF CheckRevoked, Pruned, TypeOK
    <3>2. /\ UNCHANGED <<idleTtl, sessExp, delivered, idle, everRevoked, lastActive>>
          /\ UNCHANGED <<now, replay, consumed>>
      BY <2>4 DEF CheckRevoked, tokens, history
    <3>3. now <= now' /\ \A b \in BootTokens : replay'[b] # 0 => b \in consumed'
      BY <1>0, <3>2 DEF RecordsMeant
    <3> QED
      BY <1>0, <3>1, <3>2, <3>3, MeantFrame
  <2>5. CASE TouchSession(r)
    <3>1. s \in Sessions /\ s \in delivered /\ idleTtl > 0
      BY <1>0, <2>0, <2>5 DEF TouchSession, OnSess, SessionsShown
    <3>2. /\ UNCHANGED <<idleTtl, now, sessExp, delivered, replay, revoked>>
          /\ UNCHANGED <<consumed, everRevoked>>
      BY <2>5 DEF TouchSession, tokens
    <3>3. \A t \in Sessions : revoked'[t] # 0 => t \in everRevoked'
      BY <1>0, <3>2 DEF RecordsMeant
    <3> DEFINE kept == IF Backend = "file" THEN ActiveState ELSE idle
    <3>4. /\ kept \in [Sessions -> Nat]
          /\ \A t \in Sessions :
               \/ kept[t] = idle[t]
               \/ kept[t] = 0 /\ (sessExp[t] <= now \/ idle[t] <= now)
      BY <1>0, KeptState, KeptEntries DEF TypeOK
    <3>5. CASE Touchable(s)
      <4>1. /\ idle' = [kept EXCEPT ![s] = Least(sessExp[s], now + idleTtl)]
            /\ lastActive' = [lastActive EXCEPT ![s] = now]
        BY <2>5, <3>5 DEF TouchSession
      <4> HIDE DEF kept
      <4>2. lastActive'[s] = now /\ \A t \in Sessions \ {s} : lastActive'[t] = lastActive[t]
        BY <1>0, <3>1, <4>1 DEF TypeOK
      <4>3. idle'[s] = Lasts(s)'
        BY <3>1, <3>2, <3>4, <4>1, <4>2 DEF Lasts, Least
      <4>4. \A t \in Sessions \ {s} :
              \/ idle'[t] = idle[t]
              \/ idle'[t] = 0 /\ (sessExp[t] <= now \/ idle[t] <= now)
        BY <3>4, <4>1
      <4> QED
        BY <1>0, <3>1, <3>2, <3>3, <4>2, <4>3, <4>4, MeantRewrite
    <3>6. CASE ~Touchable(s)
      <4>1. idle' = [kept EXCEPT ![s] = 0] /\ lastActive' = lastActive
        BY <2>5, <3>6 DEF TouchSession
      <4> HIDE DEF kept
      <4>2. Lasts(s)' = Lasts(s)
        BY <3>2, <4>1 DEF Lasts, Least
      <4>3. s \in everRevoked \/ now >= Lasts(s)
        <5>1. Lasts(s) \in Nat /\ Lasts(s) <= sessExp[s]
          BY <1>0, <3>1, LastsBounds, TtlAssumption
        <5>2. /\ sessExp[s] \in Nat /\ idle[s] \in Nat /\ revoked[s] \in Nat
              /\ s \notin everRevoked => idle[s] = Lasts(s) \/ now >= Lasts(s)
              /\ revoked[s] # 0 => s \in everRevoked
          BY <1>0, <3>1 DEF TypeOK, RecordsMeant
        <5> QED
          BY <1>0, <3>6, <5>1, <5>2 DEF Touchable, InForce
      <4>4. idle'[s] = 0 /\ (s \in everRevoked' \/ now >= Lasts(s)')
        BY <3>1, <3>2, <3>4, <4>1, <4>2, <4>3
      <4>5. \A t \in Sessions \ {s} :
              /\ lastActive'[t] = lastActive[t]
              /\ \/ idle'[t] = idle[t]
                 \/ idle'[t] = 0 /\ (sessExp[t] <= now \/ idle[t] <= now)
        BY <3>4, <4>1
      <4>6. lastActive'[s] = lastActive[s]
        BY <4>1
      <4> QED
        BY <1>0, <3>1, <3>2, <3>3, <4>4, <4>5, <4>6, MeantRewrite
    <3> QED
      BY <3>5, <3>6
  <2>6. CASE RevokeSession(r)
    <3>1. s \in Sessions
      BY <2>0, <2>6 DEF RevokeSession, OnSess
    <3>2. /\ UNCHANGED <<idleTtl, now, sessExp, delivered, replay, consumed, lastActive>>
          /\ everRevoked' = everRevoked \cup {s}
      BY <2>6 DEF RevokeSession, tokens
    <3>3. ASSUME NEW t \in Sessions, revoked'[t] # 0 PROVE t \in everRevoked'
      <4>1. /\ Pruned(revoked) \in [Sessions -> Nat]
            /\ Pruned(revoked)[t] = revoked[t] \/ Pruned(revoked)[t] = 0
        BY <1>0, PrunedRecords DEF TypeOK, Pruned
      <4>2. revoked' = [Pruned(revoked) EXCEPT ![s] = RecordUntil(sessExp[s], RevokeFallback)]
        BY <2>6 DEF RevokeSession
      <4> QED
        BY <1>0, <3>2, <3>3, <4>1, <4>2 DEF RecordsMeant
    <3>4. idle' = idle \/ idle' = [idle EXCEPT ![s] = 0]
      BY <2>6 DEF RevokeSession
    <3>5. /\ \A t \in Sessions \ {s} : idle'[t] = idle[t]
          /\ idle'[s] = idle[s] \/ idle'[s] = 0
      BY <1>0, <3>1, <3>4 DEF TypeOK
    <3>6. s \in everRevoked' /\ everRevoked \subseteq everRevoked'
      BY <3>2
    <3> QED
      BY <1>0, <3>1, <3>2, <3>3, <3>5, <3>6, MeantRewrite
  <2>7. CASE DeleteState(r)
    <3>0. req[r].pc = "delete"
      BY <2>7 DEF DeleteState
    <3>1. s \in Sessions /\ s \in everRevoked
      BY <1>0, <2>0, <3>0 DEF OnSess, SessionsShown
    <3>2. /\ UNCHANGED <<idleTtl, now, sessExp, delivered, replay, revoked>>
          /\ UNCHANGED <<consumed, everRevoked, lastActive>>
          /\ idle' = [UnexpiredState EXCEPT ![s] = 0]
      BY <2>7 DEF DeleteState, tokens, history
    <3>3. /\ UnexpiredState \in [Sessions -> Nat]
          /\ \A t \in Sessions :
               \/ UnexpiredState[t] = idle[t]
               \/ UnexpiredState[t] = 0 /\ sessExp[t] <= now
      BY <1>0, KeptState, KeptEntries
    <3>4. /\ idle'[s] = 0
          /\ \A t \in Sessions \ {s} :
               \/ idle'[t] = idle[t]
               \/ idle'[t] = 0 /\ (sessExp[t] <= now \/ idle[t] <= now)
      BY <3>1, <3>2, <3>3
    <3>5. \A t \in Sessions : revoked'[t] # 0 => t \in everRevoked'
      BY <1>0, <3>2 DEF RecordsMeant
    <3> QED
      BY <1>0, <3>1, <3>2, <3>4, <3>5, MeantRewrite
  <2>8. CASE ReportRevocation(r) \/ StepFails(r) \/ Respond(r)
    BY <1>0, <2>8, MeantFrame
       DEF ReportRevocation, StepFails, Respond, tokens, records, history, RecordsMeant
  <2> QED
    BY <1>4, <2>1, <2>2, <2>3, <2>4, <2>5, <2>6, <2>7, <2>8 DEF Handler
<1>5. CASE Tick
  <2>1. /\ UNCHANGED <<idleTtl, sessExp, delivered, idle, everRevoked, lastActive, consumed>>
        /\ now <= now'
    BY <1>0, <1>5 DEF Tick, tokens, history
  <2>2. /\ \A b \in BootTokens : replay'[b] # 0 => replay[b] # 0
        /\ \A s \in Sessions : revoked'[s] # 0 => revoked[s] # 0
    BY <1>0, <1>5 DEF Tick, Expired, TypeOK
  <2> QED
    BY <1>0, <2>1, <2>2, MeantFrame DEF RecordsMeant
<1>6. CASE UNCHANGED vars
  BY <1>0, <1>6, MeantFrame DEF vars, tokens, records, history, RecordsMeant
<1> QED
  BY <1>1, <1>2, <1>3, <1>4, <1>5, <1>6 DEF Next

LEMMA MeantAlways == Spec => []MeantInv
<1>1. MeantInv /\ [Next]_vars => MeantInv'
  BY BaseStep, ShownStep, MeantStep DEF MeantInv
<1> QED
  BY MeantInit, <1>1, PTL DEF Spec

\* Only the step of a handler takes it from "touch" to "accepted" or refuses it.
LEMMA WhoMoves ==
  ASSUME TypeOK, [Next]_vars, NEW r \in Requests, req'[r] # req[r], req[r].pc # "idle"
  PROVE  Handler(r)
<1>1. ASSUME NEW b \in BootTokens, IssueBootstrap(b) PROVE FALSE
  BY <1>1 DEF IssueBootstrap
<1>2. ASSUME NEW q \in Requests, NEW b \in BootTokens, VerifyBootstrap(q, b) PROVE FALSE
  BY <1>2 DEF VerifyBootstrap, Begin, TypeOK
<1>3. ASSUME NEW q \in Requests, NEW s \in Sessions, NEW k \in {"api", "logout"},
             VerifySession(q, s, k)
      PROVE  FALSE
  BY <1>3 DEF VerifySession, Begin, TypeOK
<1>4. ASSUME NEW q \in Requests, Handler(q) PROVE q = r
  BY <1>4, HandlersApart
<1> QED
  BY <1>1, <1>2, <1>3, <1>4 DEF Next, Tick, vars

\* NoResurrection: an activation belongs to a session nobody could log out yet, a
\* touch needs an entry in force, and a rewrite of the file adds none.
THEOREM DeletedStateStays == Spec => NoResurrection
<1>1. MeantInv /\ [Next]_vars =>
        [\A s \in everRevoked : idle[s] = 0 => idle'[s] = 0]_vars
  <2> SUFFICES ASSUME MeantInv, [Next]_vars, NEW s \in everRevoked, idle[s] = 0
               PROVE  idle'[s] = 0
    OBVIOUS
  <2>0. /\ TypeOK /\ SessionsShown /\ s \in Sessions /\ now \in Nat
        /\ idle \in [Sessions -> Nat]
    BY DEF MeantInv, BaseInv, TypeInv, TypeOK
  <2>1. UnexpiredState[s] = 0 /\ ActiveState[s] = 0
    BY <2>0, KeptEntries
  <2>2. UnexpiredState \in [Sessions -> Nat] /\ ActiveState \in [Sessions -> Nat]
    BY <2>0, KeptState
  <2>3. ASSUME NEW r \in Requests, ActivateSession(r) PROVE idle'[s] = 0
    <3>1. req[r].sess # s
      BY <2>0, <2>3 DEF ActivateSession, SessionsShown
    <3> QED
      BY <2>0, <2>1, <2>2, <2>3, <3>1 DEF ActivateSession
  <2>4. ASSUME NEW r \in Requests, TouchSession(r) PROVE idle'[s] = 0
    <3>1. Touchable(req[r].sess) => req[r].sess # s
      BY <2>0 DEF Touchable, InForce
    <3> QED
      BY <2>0, <2>1, <2>2, <2>4, <3>1 DEF TouchSession
  <2>5. ASSUME NEW r \in Requests, RevokeSession(r) \/ DeleteState(r) PROVE idle'[s] = 0
    BY <2>0, <2>1, <2>2, <2>5 DEF RevokeSession, DeleteState
  <2>6. ASSUME NEW r \in Requests, Handler(r) PROVE idle'[s] = 0
    BY <2>3, <2>4, <2>5, <2>6
       DEF Handler, ConsumeBootstrap, MintSession, CheckRevoked, ReportRevocation,
           StepFails, Respond, records
  <2> QED
    BY <2>6 DEF Next, IssueBootstrap, VerifyBootstrap, VerifySession, Tick, vars, records
<1> QED
  BY MeantAlways, <1>1, PTL DEF Spec, NoResurrection

\* IdleWindow: the entry a touch finds in force is no later than idleTtl after the
\* last activity (touchHostSession of fileHostStore.ts, TOUCH_SESSION_STATE_LUA).
THEOREM TouchedInTime == Spec => IdleWindow
<1> DEFINE Within(r) == LET s == req[r].sess IN
                          /\ now < lastActive[s] + idleTtl
                          /\ now < sessExp[s]
<1>1. ASSUME MeantInv, [Next]_vars, NEW r \in Requests,
             req[r].pc = "touch", req'[r].pc = "accepted"
      PROVE  Within(r)
  <2>0. TypeOK
    BY <1>1 DEF MeantInv, BaseInv, TypeInv
  <2>1. Handler(r)
    BY <1>1, <2>0, WhoMoves
  <2>2. TouchSession(r)
    BY <1>1, <2>0, <2>1, ReplyStep, BackendAssumption
       DEF Handler, ConsumeBootstrap, MintSession, ActivateSession, CheckRevoked,
           RevokeSession, DeleteState, ReportRevocation, StepFails, Respond, Resting
  <2>3. req[r].sess \in Sessions
    BY <1>1 DEF MeantInv, BaseInv, TypeInv, HandlersHold, OnSess
  <2>4. Touchable(req[r].sess)
    <3>1. Goto(r, "rejected") => FALSE
      BY <1>1, <2>0, GotoStep DEF SameButPc, Busy
    <3> QED
      BY <2>2, <3>1 DEF TouchSession
  <2>5. /\ idle[req[r].sess] <= lastActive[req[r].sess] + idleTtl
        /\ idle[req[r].sess] \in Nat /\ lastActive[req[r].sess] \in Nat
        /\ now \in Nat /\ sessExp[req[r].sess] \in Nat
    BY <1>1, <2>0, <2>3 DEF MeantInv, RecordsMeant, TypeOK
  <2>6. idleTtl \in Nat
    BY <2>0, TtlAssumption DEF TypeOK, TtlAssumption
  <2> QED
    BY <2>4, <2>5, <2>6 DEF Touchable, InForce
<1>2. MeantInv /\ [Next]_vars =>
        [\A r \in Requests :
           req[r].pc = "touch" /\ req'[r].pc = "accepted" => Within(r)]_vars
  BY <1>1
<1> QED
  BY MeantAlways, <1>2, PTL DEF Spec, IdleWindow

\* NoSpuriousReject: records are there for a reason of their own token, so that a
\* refusal always has one; no prune, key expiry or rewrite of another request's
\* makes a good token fail.
THEOREM RefusedForCause == Spec => NoSpuriousReject
<1> DEFINE Cause(r) == LET s == req[r].sess IN
                         IF req[r].kind = "exchange"
                         THEN req[r].boot \in consumed
                         ELSE \/ s \in everRevoked
                              \/ now >= sessExp[s]
                              \/ now >= lastActive[s] + idleTtl
<1>1. ASSUME MeantInv, [Next]_vars, NEW r \in Requests,
             req[r].pc # "idle", req[r].pc # "rejected", req'[r].pc = "rejected"
      PROVE  Cause(r)
  <2>0. TypeOK /\ SessionsShown /\ RecordsMeant /\ now \in Nat /\ idleTtl \in Nat
    BY <1>1, TtlAssumption DEF MeantInv, BaseInv, TypeInv, TypeOK, TtlAssumption
  <2>1. Handler(r)
    BY <1>1, <2>0, WhoMoves
  <2>2. \/ ConsumeBootstrap(r) /\ Goto(r, "rejected")
        \/ CheckRevoked(r) /\ Goto(r, "rejected")
        \/ TouchSession(r) /\ Goto(r, "rejected")
    <3>1. ASSUME NEW pc \in Busy, Goto(r, pc) PROVE pc = "rejected"
      BY <1>1, <2>0, <3>1, GotoStep DEF SameButPc
    <3>2. ~Reply(r)
      BY <1>1, <2>0, ReplyStep, BackendAssumption DEF Resting
    <3>3. \A s \in Sessions : ~MintSession(r, s)
      BY <1>1, <2>0, MintStep DEF MintSession
    <3> QED
      BY <2>1, <3>1, <3>2, <3>3
         DEF Handler, ConsumeBootstrap, ActivateSession, CheckRevoked, TouchSession,
             RevokeSession, DeleteState, ReportRevocation, StepFails, Respond, Busy
  <2>3. CASE ConsumeBootstrap(r) /\ Goto(r, "rejected")
    <3>1. req[r].kind = "exchange" /\ req[r].boot \in BootTokens
      BY <1>1, <2>0, <2>3
         DEF ConsumeBootstrap, SessionsShown, MeantInv, BaseInv, TypeInv, HandlersHold, OnBoot
    <3>2. Goto(r, "build") => FALSE
      BY <1>1, <2>0, GotoStep DEF SameButPc, Busy
    <3>3. replay[req[r].boot] \in Nat /\ InForce(replay[req[r].boot])
      BY <2>0, <2>3, <3>1, <3>2 DEF ConsumeBootstrap, TypeOK
    <3> QED
      BY <2>0, <3>1, <3>3 DEF InForce, RecordsMeant
  <2>4. CASE CheckRevoked(r) /\ Goto(r, "rejected")
    <3>1. req[r].kind # "exchange" /\ req[r].sess \in Sessions
      BY <1>1, <2>0, <2>4
         DEF CheckRevoked, SessionsShown, MeantInv, BaseInv, TypeInv, HandlersHold, OnSess
    <3>2. (Goto(r, "touch") => FALSE) /\ (Goto(r, "accepted") => FALSE)
      BY <1>1, <2>0, GotoStep DEF SameButPc, Busy
    <3>3. revoked[req[r].sess] \in Nat /\ InForce(revoked[req[r].sess])
      BY <2>0, <2>4, <3>1, <3>2 DEF CheckRevoked, TypeOK
    <3> QED
      BY <2>0, <3>1, <3>3 DEF InForce, RecordsMeant
  <2>5. CASE TouchSession(r) /\ Goto(r, "rejected")
    <3> DEFINE s == req[r].sess
    <3>1. /\ req[r].kind # "exchange" /\ s \in Sessions
          /\ s \in delivered /\ idleTtl > 0
      BY <1>1, <2>0, <2>5
         DEF TouchSession, SessionsShown, MeantInv, BaseInv, TypeInv, HandlersHold, OnSess
    <3>2. Goto(r, "accepted") => FALSE
      BY <1>1, <2>0, GotoStep DEF SameButPc, Busy
    <3>3. ~Touchable(s)
      BY <2>5, <3>2 DEF TouchSession
    <3>4. /\ Lasts(s) \in Nat
          /\ Lasts(s) = sessExp[s] \/ Lasts(s) = lastActive[s] + idleTtl
          /\ Lasts(s) <= sessExp[s]
      BY <2>0, <3>1, LastsBounds, TtlAssumption
    <3>5. /\ sessExp[s] \in Nat /\ idle[s] \in Nat /\ revoked[s] \in Nat
          /\ s \notin everRevoked => idle[s] = Lasts(s) \/ now >= Lasts(s)
          /\ revoked[s] # 0 => s \in everRevoked
      BY <2>0, <3>1 DEF TypeOK, RecordsMeant
    <3>6. s \in everRevoked \/ now >= Lasts(s)
      BY <2>0, <3>3, <3>4, <3>5 DEF Touchable, InForce
    <3> QED
      BY <3>1, <3>4, <3>6
  <2> QED
    BY <2>2, <2>3, <2>4, <2>5
<1>2. MeantInv /\ [Next]_vars =>
        [\A r \in Requests :
           req[r].pc # "idle" /\ req[r].pc # "rejected" /\ req'[r].pc = "rejected" =>
             Cause(r)]_vars
  BY <1>1
<1> QED
  BY MeantAlways, <1>2, PTL DEF Spec, NoSpuriousReject

-----------------------------------------------------------------------------
\* Without a grace a late request may find its revocation record gone, but then the
\* session is over too, and the touch refuses it.
LateExpires ==
  \A r \in Requests : req[r].late =>
    /\ req[r].sess \in everRevoked
    /\ \/ req[r].pc \in {"checkRevoked", "rejected"}
       \/ req[r].pc = "touch" /\ now >= sessExp[req[r].sess]

LEMMA LateStep ==
  ASSUME 0 \notin IdleTtls
  PROVE  MeantInv /\ LateExpires /\ [Next]_vars => LateExpires'
<1> SUFFICES ASSUME MeantInv, LateExpires, [Next]_vars PROVE LateExpires'
  OBVIOUS
<1>0. /\ BaseInv /\ TypeOK /\ now \in Nat
      /\ idleTtl \in Nat /\ idleTtl # 0
      /\ sessExp \in [Sessions -> Nat] /\ revoked \in [Sessions -> Nat]
  BY TtlAssumption DEF MeantInv, BaseInv, TypeInv, TypeOK, TtlAssumption
<1>1. ASSUME NEW r \in Requests, Handler(r) PROVE LateExpires'
  <2> DEFINE s == req[r].sess
  <2>0. /\ \A q \in Requests : q # r => req'[q] = req[q]
        /\ everRevoked \subseteq everRevoked' /\ now' = now
    BY <1>0, <1>1, HandlersApart
       DEF Handler, ConsumeBootstrap, MintSession, ActivateSession, CheckRevoked,
           TouchSession, RevokeSession, DeleteState, ReportRevocation, StepFails,
           Respond, history
  <2>1. ASSUME NEW t \in Sessions, sessExp[t] # 0 PROVE sessExp'[t] = sessExp[t]
    BY <1>0, <1>1, <2>1
       DEF Handler, ConsumeBootstrap, MintSession, ActivateSession, CheckRevoked,
           TouchSession, RevokeSession, DeleteState, ReportRevocation, StepFails,
           Respond, tokens
  <2>2. ASSUME NEW q \in Requests, req[q].pc = "touch"
        PROVE  sessExp'[req[q].sess] = sessExp[req[q].sess]
    BY <1>0, <2>1, <2>2 DEF BaseInv, TypeInv, HandlersHold, HandlersFresh, OnSess
  <2>3. CASE ~req[r].late
    <3>1. ~req'[r].late
      <4>1. CASE Reply(r)
        BY <1>0, <4>1, ReplyStep, BackendAssumption DEF Resting
      <4>2. ASSUME NEW pc \in Busy, Goto(r, pc) PROVE ~req'[r].late
        BY <1>0, <2>3, <4>2, GotoStep DEF SameButPc
      <4>3. ASSUME NEW t \in Sessions, MintSession(r, t) PROVE ~req'[r].late
        BY <1>0, <2>3, <4>3, MintStep DEF MintSession
      <4> QED
        BY <1>1, <4>1, <4>2, <4>3
           DEF Handler, ConsumeBootstrap, ActivateSession, CheckRevoked, TouchSession,
               RevokeSession, DeleteState, ReportRevocation, StepFails, Respond, Busy
    <3> QED
      BY <2>0, <2>2, <3>1 DEF LateExpires
  <2>4. CASE req[r].late
    <3>1. s \in everRevoked
      BY <2>4 DEF LateExpires
    <3>2. CASE CheckRevoked(r)
      <4>1. s \in Sessions
        BY <1>0, <3>1 DEF TypeOK
      <4>2. InForce(revoked[s]) \/ now >= sessExp[s]
        BY <1>0, <3>1, <4>1, TtlAssumption
           DEF BaseInv, RecordsCover, InForce, TtlAssumption
      <4>3. Goto(r, "rejected") \/ (Goto(r, "touch") /\ now >= sessExp[s])
        BY <1>0, <3>2, <4>2 DEF CheckRevoked
      <4>4. /\ req'[r].sess = s
            /\ req'[r].pc = "rejected" \/ (req'[r].pc = "touch" /\ now >= sessExp[s])
        BY <1>0, <4>3, GotoStep DEF Busy, SameButPc
      <4>5. UNCHANGED <<sessExp, everRevoked>>
        BY <3>2 DEF CheckRevoked, tokens, history
      <4> QED
        BY <2>0, <3>1, <4>4, <4>5 DEF LateExpires
    <3>3. CASE TouchSession(r)
      <4>1. now >= sessExp[s] /\ s \in Sessions
        BY <1>0, <2>4, <3>3 DEF TouchSession, LateExpires, TypeOK
      <4>2. ~Touchable(s)
        BY <1>0, <4>1 DEF Touchable
      <4>3. Goto(r, "rejected")
        BY <3>3, <4>2 DEF TouchSession
      <4>4. req'[r].sess = s /\ req'[r].pc = "rejected"
        BY <1>0, <4>3, GotoStep DEF Busy, SameButPc
      <4> QED
        BY <2>0, <2>2, <3>1, <4>4 DEF LateExpires
    <3>4. CASE Reply(r)
      <4>1. ~req'[r].late
        BY <1>0, <3>4, ReplyStep, BackendAssumption DEF Resting
      <4> QED
        BY <2>0, <2>2, <4>1 DEF LateExpires
    <3> QED
      BY <1>1, <2>4, <3>2, <3>3, <3>4
         DEF LateExpires, Handler, ConsumeBootstrap, MintSession, ActivateSession,
             RevokeSession, DeleteState, ReportRevocation, StepFails, Respond
  <2> QED
    BY <2>3, <2>4
<1>2. ASSUME NEW r \in Requests, NEW b \in BootTokens, VerifyBootstrap(r, b)
      PROVE  LateExpires'
  BY <1>0, <1>2 DEF VerifyBootstrap, Begin, TypeOK, tokens, history, LateExpires
<1>3. ASSUME NEW r \in Requests, NEW s \in Sessions, NEW k \in {"api", "logout"},
             VerifySession(r, s, k)
      PROVE  LateExpires'
  BY <1>0, <1>3 DEF VerifySession, Begin, TypeOK, tokens, history, LateExpires
<1>4. ASSUME NEW b \in BootTokens, IssueBootstrap(b) PROVE LateExpires'
  BY <1>4 DEF IssueBootstrap, history, LateExpires
<1>5. CASE Tick
  <2>1. \A r \in Requests : req[r].pc = "touch" => sessExp[req[r].sess] \in Nat
    BY <1>0 DEF BaseInv, TypeInv, HandlersHold, OnSess
  <2> QED
    BY <1>0, <1>5, <2>1 DEF Tick, tokens, history, LateExpires
<1>6. CASE UNCHANGED vars
  BY <1>6 DEF vars, tokens, history, LateExpires
<1> QED
  BY <1>1, <1>2, <1>3, <1>4, <1>5, <1>6 DEF Next

\* RevocationFinal, without any grace and for either backend: where sessions have an
\* idle expiry, the touch turns a late request away that the revocation check missed.
THEOREM LogoutIsFinalWithIdle ==
  ASSUME 0 \notin IdleTtls
  PROVE  Spec => []RevocationFinal
<1>1. Init => LateExpires
  BY DEF Init, LateExpires, Resting
<1>2. LateExpires => RevocationFinal
  BY DEF LateExpires, RevocationFinal
<1> QED
  BY MeantAlways, LateStep, <1>1, <1>2, PTL DEF Spec
=============================================================================
