---------------------------- MODULE PaymentHandler ----------------------------
(***************************************************************************)
(* The payment handler of server-sdk (paymentHandler.ts): one payment      *)
(* session, from the hosted page that reads and completes it to the policy *)
(* that verifies the signed receipt of the return URL.                     *)
(*                                                                         *)
(* The session is a record of config.store.  The store's get and set are   *)
(* awaited one by one, and so are the gateway and onSettlement: handlers   *)
(* of the same session interleave there.  The in-memory store returns the  *)
(* object it keeps, any other store a copy; this is kept by letting the    *)
(* handlers hold references into a heap, with room for one object of each  *)
(* handler's own.  URLs, amounts and the contents of the evidence are left *)
(* out: evidence names the completion that signed it and the time of it.   *)
(***************************************************************************)
EXTENDS Naturals

CONSTANTS
  Handlers,     \* requests to the handler
  Home,         \* the object that upsertSession made when the session began
  Nothing,      \* no object, no receipt
  Deployments,  \* how the handler may be configured
  SessionTtl,   \* sessionTtlSeconds
  UsedTtl,      \* how long an authorized session is kept in memory (60 s)
  MaxAge,       \* maxAgeSeconds of the evidence
  MaxTime       \* bound: the last second of the clock

ASSUME PaymentAssumption ==
  /\ Home \notin Handlers /\ Nothing \notin Handlers \cup {Home}
  /\ Deployments \subseteq [inMemory : BOOLEAN, gateway : BOOLEAN, settles : BOOLEAN]
  /\ {SessionTtl, UsedTtl, MaxAge, MaxTime} \subseteq Nat \ {0}

VARIABLES
  config,    \* inMemory: InMemoryPaymentSessionStore; gateway: a gateway client is
             \* given; settles: an onSettlement callback is given
  now,       \* seconds; the session begins at 1, so that 0 means "never"
  heap,      \* the session objects: the first one, and one of each handler
  stored,    \* the object the store keeps, or Nothing
  mirror,    \* the status of the session at the gateway
  task,      \* what each handler is doing
  issued     \* when a completion signed its paid receipt

vars == <<config, now, heap, stored, mirror, task, issued>>

-----------------------------------------------------------------------------
Objects == Handlers \cup {Home}

\* The gateway's status is taken over as it is: "other" stands for those that the
\* handler does not know (cancelled, failed, expired).
GatewayStatus == {"pending", "completed", "other"}
Status == GatewayStatus \cup {"authorized"}

Session == [status : Status, url : Handlers \cup {Nothing}, expires : Nat, usedAt : Nat]

Kinds  == {"view", "complete", "verify"}
Within == {"reading", "fetching", "merging", "checking", "settling"}
Ends   == {"answered", "redirected", "accepted", "refused", "failed"}

Task == [pc : {"new"} \cup Within \cup Ends, kind : Kinds,
         ref : Objects \cup {Nothing}, told : Status, receipt : Handlers \cup {Nothing}]

New == [status |-> "pending", url |-> Nothing, expires |-> now + SessionTtl, usedAt |-> 0]

Lapsed(s) ==
  \/ s.expires <= now
  \/ s.status = "authorized" /\ s.usedAt + UsedTtl <= now

\* prune() and the expiry check of get(); another store does not look at either.
Kept == IF config.inMemory /\ stored # Nothing /\ Lapsed(heap[stored]) THEN Nothing ELSE stored

\* Mutant of Take: the in-memory store returns copies as well.
TakeCopy(h, t) ==
  /\ heap' = [heap EXCEPT ![h] = heap[Kept]]
  /\ task' = [task EXCEPT ![h] = [t EXCEPT !.ref = h]]

\* store.get of a kept session: h goes on as t, with the object or a copy of it.
Take(h, t) ==
  /\ heap' = IF config.inMemory THEN heap ELSE [heap EXCEPT ![h] = heap[Kept]]
  /\ task' = [task EXCEPT ![h] = [t EXCEPT !.ref = IF config.inMemory THEN Kept ELSE h]]

\* The object at ref becomes s and is given to store.set.
Put(ref, s) ==
  IF config.inMemory
  THEN /\ heap' = [heap EXCEPT ![ref] = s]
       /\ stored' = ref
  ELSE /\ heap' = [heap EXCEPT ![ref] = s, ![Home] = s]
       /\ stored' = Home

Unused == [pc |-> "new", kind |-> "view", ref |-> Nothing, told |-> "pending",
           receipt |-> Nothing]

\* The request is answered, with a receipt in the redirect when it is a completion.
End(h, pc, receipt) ==
  task' = [task EXCEPT ![h] = [Unused EXCEPT !.pc = pc, !.receipt = receipt]]

\* The completions that signed a receipt.
Receipts == {h \in Handlers : issued[h] # 0}

-----------------------------------------------------------------------------
TypeOK ==
  /\ config \in Deployments
  /\ now \in Nat
  /\ heap \in [Objects -> Session]
  /\ stored \in Objects \cup {Nothing}
  /\ mirror \in GatewayStatus
  /\ task \in [Handlers -> Task]
  /\ issued \in [Handlers -> Nat]

Init ==
  /\ config \in Deployments
  /\ now = 1
  /\ heap = [o \in Objects |-> New]
  /\ stored = Home
  /\ mirror = "pending"
  /\ task = [h \in Handlers |-> Unused]
  /\ issued = [h \in Handlers |-> 0]

-----------------------------------------------------------------------------
\* A request comes in; a verification comes with a receipt somebody was given.
Receive(h, kind, receipt) ==
  /\ task[h].pc = "new"
  /\ IF kind = "verify" THEN receipt # Nothing /\ issued[receipt] # 0
                        ELSE receipt = Nothing
  /\ task' = [task EXCEPT ![h] =
                [@ EXCEPT !.pc = "reading", !.kind = kind, !.receipt = receipt]]
  /\ UNCHANGED <<config, now, heap, stored, mirror, issued>>

\* getSessionById; without a session the gateway is asked, or the request ends.
Read(h) ==
  /\ task[h].pc = "reading"
  /\ stored' = Kept
  /\ \/ Kept # Nothing /\ Take(h, [task[h] EXCEPT !.pc = "checking"])
     \/ /\ Kept = Nothing
        /\ \/ config.gateway /\ task' = [task EXCEPT ![h].pc = "fetching"]
           \/ ~config.gateway /\ End(h, "refused", Nothing)
        /\ UNCHANGED heap
  /\ UNCHANGED <<config, now, mirror, issued>>

\* gateway.getPaymentSession and the store.get of upsertSession.
Fetch(h) ==
  LET t == [task[h] EXCEPT !.pc = "merging", !.told = mirror] IN
  /\ task[h].pc = "fetching"
  /\ stored' = Kept
  /\ \/ Kept # Nothing /\ Take(h, t)
     \/ /\ Kept = Nothing
        /\ task' = [task EXCEPT ![h] = t]
        /\ UNCHANGED heap
  /\ UNCHANGED <<config, now, mirror, issued>>

\* The gateway cannot be reached or does not know the session.
FetchFails(h) ==
  /\ task[h].pc = "fetching"
  /\ End(h, "refused", Nothing)
  /\ UNCHANGED <<config, now, heap, stored, mirror, issued>>

\* upsertSession makes a new object: the gateway's session over the stored one.
Merge(h) ==
  LET t == task[h] IN
  /\ t.pc = "merging"
  /\ Put(h, [(IF t.ref = Nothing THEN New ELSE heap[t.ref]) EXCEPT !.status = t.told])
  /\ task' = [task EXCEPT ![h].pc = "checking", ![h].ref = h]
  /\ UNCHANGED <<config, now, mirror, issued>>

-----------------------------------------------------------------------------
\* handleGetSession answers; the URLs of its query are written into the session,
\* and with them the whole object is set again.
View(h) ==
  /\ task[h].pc = "checking" /\ task[h].kind = "view"
  /\ End(h, "answered", Nothing)
  /\ \/ Put(task[h].ref, heap[task[h].ref])
     \/ UNCHANGED <<heap, stored>>
  /\ UNCHANGED <<config, now, mirror, issued>>

\* handleComplete: a used session is refused, a completed one is answered again.
CompleteAgain(h) ==
  LET s == heap[task[h].ref] IN
  /\ task[h].pc = "checking" /\ task[h].kind = "complete"
  /\ \/ s.status = "authorized" /\ End(h, "refused", Nothing)
     \/ s.status = "completed" /\ s.url # Nothing /\ End(h, "redirected", s.url)
  /\ UNCHANGED <<config, now, heap, stored, mirror, issued>>

\* Mutants of Completable: the answer given before is not looked for; a used
\* session is not refused.
CompletableTwice(s) == s.status # "authorized"
CompletableUsed(s) == ~(s.status = "completed" /\ s.url # Nothing)

Completable(s) ==
  /\ s.status # "authorized"
  /\ ~(s.status = "completed" /\ s.url # Nothing)

\* The return URL is missing or not allowed.
CompleteRefused(h) ==
  /\ task[h].pc = "checking" /\ task[h].kind = "complete"
  /\ Completable(heap[task[h].ref])
  /\ End(h, "refused", Nothing)
  /\ UNCHANGED <<config, now, heap, stored, mirror, issued>>

\* The receipt is signed, the session marked as completed and set.
Finish(h, paid) ==
  /\ Put(task[h].ref, [heap[task[h].ref] EXCEPT !.status = "completed", !.url = h])
  /\ issued' = IF paid THEN [issued EXCEPT ![h] = now] ELSE issued
  /\ End(h, "redirected", h)
  /\ UNCHANGED <<config, now, mirror>>

\* Without a settlement callback nothing is awaited on the way.
Complete(h) ==
  /\ ~config.settles
  /\ task[h].pc = "checking" /\ task[h].kind = "complete"
  /\ Completable(heap[task[h].ref])
  /\ Finish(h, TRUE)

AskSettlement(h) ==
  /\ config.settles
  /\ task[h].pc = "checking" /\ task[h].kind = "complete"
  /\ Completable(heap[task[h].ref])
  /\ task' = [task EXCEPT ![h].pc = "settling"]
  /\ UNCHANGED <<config, now, heap, stored, mirror, issued>>

\* The provider settled the payment, or says it is not paid.
Settle(h, paid) ==
  /\ task[h].pc = "settling"
  /\ Finish(h, paid)

\* onSettlement, the store or the gateway throws.
Fail(h) ==
  /\ task[h].pc \in Within
  /\ End(h, "failed", Nothing)
  /\ UNCHANGED <<config, now, heap, stored, mirror, issued>>

\* Mutant of Mirrored: the word of the provider is passed on.
MirroredRaw ==
  /\ config.gateway /\ mirror = "pending"
  /\ mirror' = "paid"
  /\ UNCHANGED <<config, now, heap, stored, task, issued>>

\* The gateway completes its session, told by completePaymentSession, which is
\* neither awaited nor repeated, or gives it up.
Mirrored ==
  /\ config.gateway /\ mirror = "pending"
  /\ \/ Receipts # {} /\ mirror' = "completed"
     \/ mirror' = "other"
  /\ UNCHANGED <<config, now, heap, stored, task, issued>>

-----------------------------------------------------------------------------
\* Mutant of Usable: only the status is looked at.
UsableByStatus(s, receipt) == s.status = "completed" /\ now <= issued[receipt] + MaxAge

\* handleVerifyEvidence accepts evidence for a completed session that was not used.
Usable(s, receipt) ==
  /\ s.usedAt = 0
  /\ s.status = "completed"
  /\ now <= issued[receipt] + MaxAge

\* Mutant of Used: the session is not marked.
UsedUnmarked(s) == s

Used(s) == [s EXCEPT !.usedAt = now, !.status = "authorized"]

Verify(h) ==
  LET s == heap[task[h].ref] IN
  /\ task[h].pc = "checking" /\ task[h].kind = "verify"
  /\ \/ /\ Usable(s, task[h].receipt)
        /\ Put(task[h].ref, Used(s))
        /\ End(h, "accepted", Nothing)
     \/ /\ ~Usable(s, task[h].receipt)
        /\ End(h, "refused", Nothing)
        /\ UNCHANGED <<heap, stored>>
  /\ UNCHANGED <<config, now, mirror, issued>>

-----------------------------------------------------------------------------
\* Sessions in memory go with the process, requests with them.
Restart ==
  /\ stored' = IF config.inMemory THEN Nothing ELSE stored
  /\ task' = [h \in Handlers |->
                IF task[h].pc \in Within
                THEN [Unused EXCEPT !.pc = "failed"] ELSE task[h]]
  /\ UNCHANGED <<config, now, heap, mirror, issued>>

\* A store of its own may drop a session once it has expired.
Evict ==
  /\ ~config.inMemory /\ stored # Nothing
  /\ heap[stored].expires <= now
  /\ stored' = Nothing
  /\ UNCHANGED <<config, now, heap, mirror, task, issued>>

Tick ==
  /\ now < MaxTime
  /\ now' = now + 1
  /\ UNCHANGED <<config, heap, stored, mirror, task, issued>>

Handle(h) ==
  \/ \E kind \in Kinds, receipt \in Handlers \cup {Nothing} : Receive(h, kind, receipt)
  \/ Read(h) \/ Fetch(h) \/ FetchFails(h) \/ Merge(h)
  \/ View(h)
  \/ CompleteAgain(h) \/ CompleteRefused(h) \/ Complete(h) \/ AskSettlement(h)
  \/ \E paid \in BOOLEAN : Settle(h, paid)
  \/ Verify(h)
  \/ Fail(h)

Next ==
  \/ \E h \in Handlers : Handle(h)
  \/ Mirrored \/ Restart \/ Evict \/ Tick

Spec == Init /\ [][Next]_vars

-----------------------------------------------------------------------------
Accepted == {h \in Handlers : task[h].pc = "accepted"}

\* The in-memory store, with no gateway to bring a used session back: the
\* deployment in which the code keeps a payment to one use.
Alone == config.inMemory /\ ~config.gateway

\* The receipts of a payment session let one guarded request through, whatever
\* completions, verifications and restarts overlap (handleVerifyEvidence).
SingleUse == \A h, g \in Accepted : h = g
SingleUseAlone == Alone => SingleUse

Promise == INSTANCE PaymentOnce
             WITH Requests <- Handlers, once <- Alone,
                  receipts <- Receipts, granted <- Accepted

\* The handler keeps the promise of a payment session, step by step.
KeepsPromise == Promise!Spec

\* There, and without a settlement callback, a session is completed once: every
\* later request to complete it is given the same redirect (handleComplete).
OneReceipt ==
  Alone /\ ~config.settles =>
    \A h, g \in Handlers :
      task[h].pc = "redirected" /\ task[g].pc = "redirected" =>
        task[h].receipt = task[g].receipt

\* Likewise a used session stays used as long as it is kept.
UsedIsFinal ==
  [][Alone /\ ~config.settles /\ stored # Nothing /\ heap[stored].status = "authorized" =>
       stored' = Nothing \/ heap'[stored'].status = "authorized"]_vars

\* Whoever presents a receipt in time is let through, unless the payment was used
\* or the session is gone: no other request puts a paid session back.
PaidIsHonoured ==
  [][\A h \in Handlers :
       Alone /\ task[h].kind = "verify" /\ task[h].pc \in Within /\ task'[h].pc = "refused" =>
         \/ Accepted # {}
         \/ now > issued[task[h].receipt] + MaxAge
         \/ stored' = Nothing]_vars
=============================================================================
