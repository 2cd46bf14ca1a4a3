-------------------------- MODULE PaymentHandlerProofs --------------------------
(***************************************************************************)
(* What holds of a payment session for any number of handlers, any         *)
(* lifetimes and any deployment: the promise of PaymentOnce, with single   *)
(* use where the session is kept in memory and no gateway brings it back.  *)
(***************************************************************************)
EXTENDS PaymentHandler, TLAPS

\* A handler that works on a session has an object, one that verifies a receipt
\* has one that was signed, and the clock is past 0, the time for "never".
Grounded ==
  /\ now # 0
  /\ \A h \in Handlers : task[h].pc \in {"checking", "settling"} => task[h].ref \in Objects
  /\ \A h \in Handlers :
       task[h].pc \in Within /\ task[h].kind = "verify" => task[h].receipt \in Receipts
  /\ Accepted # {} => Receipts # {}

\* Alone, there is one object, and an accepted verification has left its mark on it.
OneObject ==
  /\ stored \in {Home, Nothing}
  /\ \A h \in Handlers : /\ task[h].ref \in {Home, Nothing}
                         /\ task[h].pc \notin {"fetching", "merging"}
  /\ Accepted # {} => heap[Home].usedAt # 0
  /\ SingleUse

IInv == TypeOK /\ Grounded /\ (Alone => OneObject)

LEMMA InitIInv == Init => IInv
  BY PaymentAssumption
     DEF Init, IInv, TypeOK, Grounded, OneObject, SingleUse, Accepted, Receipts, Alone,
         New, Unused, Session, Task, Status, GatewayStatus, Kinds, Within, Ends, Objects

-----------------------------------------------------------------------------
\* The helpers keep heap, stored object and task well typed.

LEMMA KeptType ==
  ASSUME TypeOK
  PROVE  Kept \in Objects \cup {Nothing} /\ (Kept = stored \/ Kept = Nothing)
  BY DEF TypeOK, Kept

LEMMA TakeType ==
  ASSUME TypeOK, NEW h \in Handlers, NEW t \in Task, Kept # Nothing, Take(h, t)
  PROVE  /\ heap' \in [Objects -> Session]
         /\ task' \in [Handlers -> Task]
         /\ task'[h].ref \in Objects
         /\ task'[h].pc = t.pc /\ task'[h].kind = t.kind /\ task'[h].receipt = t.receipt
         /\ config.inMemory => heap' = heap /\ task'[h].ref = Kept
         /\ \A g \in Handlers \ {h} : task'[g] = task[g]
<1>1. Kept \in Objects
  BY KeptType
<1>2. heap' \in [Objects -> Session]
  BY <1>1 DEF TypeOK, Take, Objects
<1>3. /\ task'[h] = [t EXCEPT !.ref = IF config.inMemory THEN Kept ELSE h]
      /\ task' \in [Handlers -> Task]
      /\ \A g \in Handlers \ {h} : task'[g] = task[g]
  BY <1>1 DEF TypeOK, Take, Task, Objects
<1> QED BY <1>1, <1>2, <1>3 DEF Task, Take, Objects

LEMMA PutType ==
  ASSUME TypeOK, NEW ref \in Objects, NEW s \in Session, Put(ref, s)
  PROVE  /\ heap' \in [Objects -> Session]
         /\ stored' \in Objects
         /\ config.inMemory => stored' = ref /\ heap'[ref] = s
         /\ config.inMemory => \A o \in Objects \ {ref} : heap'[o] = heap[o]
  BY DEF TypeOK, Put, Objects

LEMMA EndType ==
  ASSUME TypeOK, NEW h \in Handlers, NEW pc \in Ends, NEW r \in Handlers \cup {Nothing},
         End(h, pc, r)
  PROVE  /\ task' \in [Handlers -> Task]
         /\ task'[h].pc = pc /\ task'[h].ref = Nothing
         /\ \A g \in Handlers \ {h} : task'[g] = task[g]
  BY DEF TypeOK, End, Unused, Task, Kinds, Status, GatewayStatus

-----------------------------------------------------------------------------
\* A step that ends the request of h, other than by accepting a receipt, and
\* leaves the clock, the receipts and what is stored alone.
LEMMA EndKeeps ==
  ASSUME IInv, NEW h \in Handlers, NEW pc \in Ends \ {"accepted"},
         NEW r \in Handlers \cup {Nothing}, task[h].pc \in Within, End(h, pc, r),
         UNCHANGED <<config, now, mirror, issued, heap>>,
         stored' \in {stored, Nothing}
  PROVE  IInv' /\ Accepted' = Accepted /\ Receipts' = Receipts
<1>1. /\ task' \in [Handlers -> Task]
      /\ task'[h].pc = pc /\ task'[h].ref = Nothing
      /\ \A g \in Handlers \ {h} : task'[g] = task[g]
  BY EndType DEF IInv
<1>2. TypeOK'
  BY <1>1 DEF IInv, TypeOK
<1>3. Accepted' = Accepted /\ Receipts' = Receipts
  BY <1>1 DEF Accepted, Receipts, Within
<1>4. Grounded'
  BY <1>1, <1>3 DEF IInv, Grounded, Ends, Within
<1>5. (Alone => OneObject)'
  BY <1>1, <1>3 DEF IInv, Alone, OneObject, SingleUse, Ends
<1> QED BY <1>2, <1>3, <1>4, <1>5 DEF IInv

\* A step in which the request of h goes on, with the receipt and the kind it has.
LEMMA GoOnKeeps ==
  ASSUME IInv, NEW h \in Handlers, task[h].pc \in Within, TypeOK',
         task'[h].pc \in Within,
         task'[h].kind = task[h].kind /\ task'[h].receipt = task[h].receipt,
         task'[h].pc \in {"checking", "settling"} => task'[h].ref \in Objects,
         \A g \in Handlers \ {h} : task'[g] = task[g],
         UNCHANGED <<config, now, issued>>,
         Alone => /\ task'[h].ref \in {Home, Nothing}
                  /\ task'[h].pc \notin {"fetching", "merging"}
                  /\ heap' = heap
                  /\ stored' \in {Home, Nothing}
  PROVE  IInv' /\ Accepted' = Accepted /\ Receipts' = Receipts
<1>1. Accepted' = Accepted /\ Receipts' = Receipts
  BY DEF Accepted, Receipts, Within
<1>2. Grounded'
  BY <1>1 DEF IInv, Grounded
<1>3. (Alone => OneObject)'
  BY <1>1 DEF IInv, Alone, OneObject, SingleUse
<1> QED BY <1>1, <1>2, <1>3 DEF IInv

-----------------------------------------------------------------------------
LEMMA ReceiveKeeps ==
  ASSUME IInv, NEW h \in Handlers, NEW kind \in Kinds, NEW r \in Handlers \cup {Nothing},
         Receive(h, kind, r)
  PROVE  IInv' /\ Accepted' = Accepted /\ Receipts' = Receipts
<1>1. /\ task' \in [Handlers -> Task]
      /\ task'[h] = [task[h] EXCEPT !.pc = "reading", !.kind = kind, !.receipt = r]
      /\ \A g \in Handlers \ {h} : task'[g] = task[g]
  <2>1. task[h] \in Task
    BY DEF IInv, TypeOK
  <2>2. [task[h] EXCEPT !.pc = "reading", !.kind = kind, !.receipt = r] \in Task
    BY <2>1 DEF Task, Within
  <2> QED BY <2>2 DEF IInv, TypeOK, Receive
<1>2. task'[h].pc = "reading" /\ task'[h].ref = task[h].ref /\ task'[h].kind = kind
      /\ task'[h].receipt = r
  BY <1>1 DEF IInv, TypeOK, Task
<1>3. TypeOK'
  BY <1>1 DEF IInv, TypeOK, Receive
<1>4. Accepted' = Accepted /\ Receipts' = Receipts
  BY <1>1, <1>2 DEF Accepted, Receipts, Receive
<1>5. Grounded'
  BY <1>1, <1>2, <1>4, PaymentAssumption DEF IInv, Grounded, Receive, Receipts
<1>6. (Alone => OneObject)'
  BY <1>1, <1>2, <1>4 DEF IInv, Alone, OneObject, SingleUse, Receive
<1> QED BY <1>3, <1>4, <1>5, <1>6 DEF IInv

LEMMA ReadKeeps ==
  ASSUME IInv, NEW h \in Handlers, Read(h)
  PROVE  IInv' /\ Accepted' = Accepted /\ Receipts' = Receipts
<1> DEFINE t == [task[h] EXCEPT !.pc = "checking"]
<1>0. TypeOK /\ task[h].pc \in Within /\ task[h] \in Task
  BY DEF IInv, TypeOK, Read, Within
<1>1. CASE Kept # Nothing /\ Take(h, t)
  <2>1. t \in Task /\ t.pc = "checking" /\ t.kind = task[h].kind /\ t.receipt = task[h].receipt
    BY <1>0 DEF Task, Within
  <2> HIDE DEF t
  <2>2. /\ heap' \in [Objects -> Session] /\ task' \in [Handlers -> Task]
        /\ task'[h].ref \in Objects /\ task'[h].pc = "checking"
        /\ task'[h].kind = task[h].kind /\ task'[h].receipt = task[h].receipt
        /\ config.inMemory => heap' = heap /\ task'[h].ref = Kept
        /\ \A g \in Handlers \ {h} : task'[g] = task[g]
    BY <1>0, <1>1, <2>1, TakeType
  <2>3. TypeOK'
    BY <1>0, <2>2, KeptType DEF TypeOK, Read
  <2> QED BY <1>0, <2>2, <2>3, KeptType, GoOnKeeps DEF IInv, Read, Alone, OneObject, Within
<1>2. CASE Kept = Nothing /\ config.gateway /\ task' = [task EXCEPT ![h].pc = "fetching"] /\ heap' = heap
  <2>1. /\ task' \in [Handlers -> Task]
        /\ task'[h] = [task[h] EXCEPT !.pc = "fetching"]
        /\ \A g \in Handlers \ {h} : task'[g] = task[g]
    BY <1>0, <1>2 DEF TypeOK, Task, Within
  <2>2. task'[h].pc = "fetching" /\ task'[h].kind = task[h].kind /\ task'[h].receipt = task[h].receipt
    BY <1>0, <2>1 DEF Task
  <2>3. TypeOK'
    BY <1>0, <1>2, <2>1, KeptType DEF TypeOK, Read
  <2> QED BY <1>0, <1>2, <2>1, <2>2, <2>3, GoOnKeeps DEF Read, Alone, Within
<1>3. CASE Kept = Nothing /\ End(h, "refused", Nothing) /\ heap' = heap
  BY <1>0, <1>3, EndKeeps DEF Read, Ends
<1> QED BY <1>1, <1>2, <1>3 DEF Read

LEMMA FetchKeeps ==
  ASSUME IInv, NEW h \in Handlers, Fetch(h)
  PROVE  IInv' /\ Accepted' = Accepted /\ Receipts' = Receipts
<1> DEFINE t == [task[h] EXCEPT !.pc = "merging", !.told = mirror]
<1>0. TypeOK /\ task[h].pc = "fetching" /\ task[h].pc \in Within /\ task[h] \in Task /\ ~Alone
  BY DEF IInv, TypeOK, Fetch, Within, OneObject
<1>1. t \in Task /\ t.pc = "merging" /\ t.kind = task[h].kind /\ t.receipt = task[h].receipt
  BY <1>0 DEF TypeOK, Task, Within, Status
<1>2. (Kept # Nothing /\ Take(h, t)) \/ (task' = [task EXCEPT ![h] = t] /\ heap' = heap)
  BY DEF Fetch
<1> HIDE DEF t
<1>3. /\ heap' \in [Objects -> Session] /\ task' \in [Handlers -> Task]
      /\ task'[h].pc = "merging"
      /\ task'[h].kind = task[h].kind /\ task'[h].receipt = task[h].receipt
      /\ \A g \in Handlers \ {h} : task'[g] = task[g]
  BY <1>0, <1>1, <1>2, TakeType DEF TypeOK
<1>4. TypeOK'
  BY <1>0, <1>3, KeptType DEF TypeOK, Fetch
<1> QED BY <1>0, <1>3, <1>4, GoOnKeeps DEF Fetch, Within

LEMMA MergeKeeps ==
  ASSUME IInv, NEW h \in Handlers, Merge(h)
  PROVE  IInv' /\ Accepted' = Accepted /\ Receipts' = Receipts
<1> DEFINE base == IF task[h].ref = Nothing THEN New ELSE heap[task[h].ref]
           s == [base EXCEPT !.status = task[h].told]
<1>0. TypeOK /\ task[h].pc = "merging" /\ task[h].pc \in Within /\ task[h] \in Task /\ ~Alone
  BY DEF IInv, TypeOK, Merge, Within, OneObject
<1>1. base \in Session
  BY <1>0, PaymentAssumption DEF TypeOK, Task, New, Session, Status, GatewayStatus
<1>2. s \in Session
  BY <1>0, <1>1 DEF Session, Task
<1>3. Put(h, s)
  BY DEF Merge
<1> HIDE DEF s, base
<1>4. heap' \in [Objects -> Session] /\ stored' \in Objects
  BY <1>0, <1>2, <1>3, PutType DEF Objects
<1>5. /\ task' \in [Handlers -> Task]
      /\ task'[h].pc = "checking" /\ task'[h].ref \in Objects
      /\ task'[h].kind = task[h].kind /\ task'[h].receipt = task[h].receipt
      /\ \A g \in Handlers \ {h} : task'[g] = task[g]
  BY <1>0 DEF Merge, TypeOK, Task, Within, Objects
<1>6. TypeOK'
  BY <1>0, <1>4, <1>5 DEF TypeOK, Merge
<1> QED BY <1>0, <1>5, <1>6, GoOnKeeps DEF Merge, Within

-----------------------------------------------------------------------------
\* The session is set again as it is.
LEMMA ViewKeeps ==
  ASSUME IInv, NEW h \in Handlers, View(h)
  PROVE  IInv' /\ Accepted' = Accepted /\ Receipts' = Receipts
<1> DEFINE o == task[h].ref
<1>0. TypeOK /\ task[h].pc \in Within /\ o \in Objects
  BY DEF IInv, Grounded, View, Within
<1>1. /\ task' \in [Handlers -> Task]
      /\ task'[h].pc = "answered" /\ task'[h].ref = Nothing
      /\ \A g \in Handlers \ {h} : task'[g] = task[g]
  BY <1>0, EndType DEF View, Ends
<1>2. /\ heap' \in [Objects -> Session] /\ stored' \in Objects \cup {Nothing}
      /\ config.inMemory => heap'[o] = heap[o] /\ stored' \in {stored, o}
      /\ config.inMemory => \A q \in Objects \ {o} : heap'[q] = heap[q]
  BY <1>0, PutType DEF View, TypeOK
<1>3. TypeOK'
  BY <1>0, <1>1, <1>2 DEF TypeOK, View
<1>4. Accepted' = Accepted /\ Receipts' = Receipts
  BY <1>0, <1>1 DEF Accepted, Receipts, View, Within
<1>5. Grounded'
  BY <1>1, <1>4 DEF IInv, Grounded, View, Within
<1>6. (Alone => OneObject)'
  BY <1>0, <1>1, <1>2, <1>4 DEF IInv, Alone, OneObject, SingleUse, View, Objects
<1> QED BY <1>3, <1>4, <1>5, <1>6 DEF IInv

\* A completion signs a receipt; the mark of a use, if there is one, stays.
LEMMA FinishKeeps ==
  ASSUME IInv, NEW h \in Handlers, NEW paid \in BOOLEAN,
         task[h].pc \in {"checking", "settling"}, Finish(h, paid)
  PROVE  IInv' /\ Accepted' = Accepted /\ Receipts' \in {Receipts, Receipts \cup {h}}
<1> DEFINE o == task[h].ref
           s == [heap[o] EXCEPT !.status = "completed", !.url = h]
<1>0. TypeOK /\ task[h].pc \in Within /\ o \in Objects /\ now # 0 /\ now \in Nat
  BY DEF IInv, Grounded, Within, TypeOK
<1>1. /\ task' \in [Handlers -> Task]
      /\ task'[h].pc = "redirected" /\ task'[h].ref = Nothing
      /\ \A g \in Handlers \ {h} : task'[g] = task[g]
  BY <1>0, EndType DEF Finish, Ends
<1>2. s \in Session /\ s.usedAt = heap[o].usedAt
  <2>1. heap[o] \in Session
    BY <1>0 DEF TypeOK
  <2> QED BY <2>1 DEF Session, Status, GatewayStatus
<1>3. Put(o, s)
  BY DEF Finish
<1>4. /\ heap' \in [Objects -> Session] /\ stored' \in Objects
      /\ config.inMemory => heap'[o].usedAt = heap[o].usedAt /\ stored' = o
      /\ config.inMemory => \A q \in Objects \ {o} : heap'[q] = heap[q]
  <2> HIDE DEF s
  <2> QED BY <1>0, <1>2, <1>3, PutType
<1>5. TypeOK'
  BY <1>0, <1>1, <1>4 DEF TypeOK, Finish
<1>6. Accepted' = Accepted
  BY <1>0, <1>1 DEF Accepted, Within
<1>7. Receipts' \in {Receipts, Receipts \cup {h}}
  BY <1>0 DEF Receipts, Finish, TypeOK
<1>8. Grounded'
  BY <1>1, <1>6, <1>7 DEF IInv, Grounded, Finish, Within
<1>9. (Alone => OneObject)'
  BY <1>0, <1>1, <1>4, <1>6 DEF IInv, Alone, OneObject, SingleUse, Finish, Objects
<1> QED BY <1>5, <1>6, <1>7, <1>8, <1>9 DEF IInv

LEMMA AskKeeps ==
  ASSUME IInv, NEW h \in Handlers, AskSettlement(h)
  PROVE  IInv' /\ Accepted' = Accepted /\ Receipts' = Receipts
<1>0. TypeOK /\ task[h].pc \in Within /\ task[h].ref \in Objects /\ task[h] \in Task
  BY DEF IInv, Grounded, AskSettlement, Within, TypeOK
<1>1. /\ task' \in [Handlers -> Task]
      /\ task'[h].pc = "settling" /\ task'[h].ref = task[h].ref
      /\ task'[h].kind = task[h].kind /\ task'[h].receipt = task[h].receipt
      /\ \A g \in Handlers \ {h} : task'[g] = task[g]
  BY <1>0 DEF AskSettlement, TypeOK, Task, Within
<1>2. TypeOK'
  BY <1>0, <1>1 DEF TypeOK, AskSettlement
<1> QED BY <1>0, <1>1, <1>2, GoOnKeeps DEF AskSettlement, IInv, OneObject, Within

\* A receipt is accepted: alone, the session was not used before and is now.
LEMMA AcceptKeeps ==
  ASSUME IInv, NEW h \in Handlers, Verify(h), Usable(heap[task[h].ref], task[h].receipt),
         Put(task[h].ref, Used(heap[task[h].ref])), End(h, "accepted", Nothing)
  PROVE  /\ IInv' /\ Receipts' = Receipts /\ Receipts # {}
         /\ Accepted' = Accepted \cup {h}
         /\ Alone => Accepted = {}
<1> DEFINE o == task[h].ref
           s == Used(heap[o])
<1>0. TypeOK /\ task[h].pc \in Within /\ o \in Objects /\ now # 0 /\ now \in Nat
  BY DEF IInv, Grounded, Verify, Within, TypeOK
<1>1. /\ task' \in [Handlers -> Task]
      /\ task'[h].pc = "accepted" /\ task'[h].ref = Nothing
      /\ \A g \in Handlers \ {h} : task'[g] = task[g]
  BY <1>0, EndType DEF Ends
<1>2. s \in Session /\ s.usedAt = now /\ Put(o, s)
  <2>1. heap[o] \in Session
    BY <1>0 DEF TypeOK
  <2> QED BY <1>0, <2>1 DEF Session, Status, GatewayStatus, Used
<1>3. /\ heap' \in [Objects -> Session] /\ stored' \in Objects
      /\ config.inMemory => heap'[o].usedAt = now /\ stored' = o
  <2> HIDE DEF s
  <2> QED BY <1>0, <1>2, PutType
<1>4. TypeOK'
  BY <1>0, <1>1, <1>3 DEF TypeOK, Verify
<1>5. Accepted' = Accepted \cup {h}
  BY <1>1 DEF Accepted
<1>6. Receipts' = Receipts /\ task[h].receipt \in Receipts
  BY <1>0 DEF Receipts, Verify, IInv, Grounded
<1>7. Alone => o = Home /\ Accepted = {}
  BY <1>0, PaymentAssumption DEF IInv, OneObject, Usable, Objects
<1>8. Grounded'
  BY <1>1, <1>5, <1>6 DEF IInv, Grounded, Verify, Within
<1>9. (Alone => OneObject)'
  BY <1>0, <1>1, <1>3, <1>5, <1>7 DEF IInv, Alone, OneObject, SingleUse, Verify
<1> QED BY <1>4, <1>5, <1>6, <1>7, <1>8, <1>9 DEF IInv

LEMMA RestartKeeps ==
  ASSUME IInv, Restart
  PROVE  IInv' /\ Accepted' = Accepted /\ Receipts' = Receipts
<1>1. \A h \in Handlers : \/ task'[h] = task[h] /\ task[h].pc \notin Within
                          \/ /\ task[h].pc \in Within /\ task'[h] \in Task
                             /\ task'[h].pc = "failed" /\ task'[h].ref = Nothing
  BY DEF Restart, Unused, Task, Kinds, Status, GatewayStatus, Ends
<1>2. task' \in [Handlers -> Task]
  BY <1>1 DEF Restart, IInv, TypeOK
<1>3. TypeOK'
  BY <1>2 DEF Restart, IInv, TypeOK
<1>4. Accepted' = Accepted /\ Receipts' = Receipts
  BY <1>1 DEF Accepted, Receipts, Restart, Within
<1>5. Grounded'
  BY <1>1, <1>4 DEF IInv, Grounded, Restart, Within
<1>6. (Alone => OneObject)'
  BY <1>1, <1>4 DEF IInv, Alone, OneObject, SingleUse, Restart
<1> QED BY <1>3, <1>4, <1>5, <1>6 DEF IInv

\* The steps of the gateway, another store and the clock.
LEMMA OutsideKeeps ==
  ASSUME IInv, Mirrored \/ Evict \/ Tick
  PROVE  IInv' /\ Accepted' = Accepted /\ Receipts' = Receipts
<1>1. task' = task /\ issued' = issued /\ heap' = heap /\ config' = config
  BY DEF Mirrored, Evict, Tick
<1>2. Accepted' = Accepted /\ Receipts' = Receipts
  BY <1>1 DEF Accepted, Receipts
<1>3. TypeOK'
  BY DEF IInv, TypeOK, Mirrored, Evict, Tick, GatewayStatus
<1>4. now' # 0
  BY DEF IInv, TypeOK, Grounded, Mirrored, Evict, Tick
<1>5. Grounded'
  BY <1>1, <1>2, <1>4 DEF IInv, Grounded
<1>6. (Alone => OneObject)'
  BY <1>1, <1>2 DEF IInv, Alone, OneObject, SingleUse, Mirrored, Evict, Tick
<1> QED BY <1>2, <1>3, <1>5, <1>6 DEF IInv

-----------------------------------------------------------------------------
\* Every step keeps the invariant and is a step of the promise, or none of its.
LEMMA StepKeeps ==
  ASSUME IInv, [Next]_vars
  PROVE  IInv' /\ [Promise!Next]_(Promise!vars)
<1> DEFINE Quiet == IInv' /\ Accepted' = Accepted /\ Receipts' = Receipts
<1>0. config' = config /\ Alone' = Alone
  BY DEF Next, Handle, Receive, Read, Fetch, FetchFails, Merge, View, CompleteAgain,
         CompleteRefused, Complete, AskSettlement, Settle, Finish, Fail, Verify,
         Mirrored, Restart, Evict, Tick, vars, Alone
<1>1. ASSUME Quiet
      PROVE  IInv' /\ [Promise!Next]_(Promise!vars)
  BY <1>0, <1>1 DEF Promise!vars
<1>2. ASSUME NEW h \in Handlers, Handle(h)
      PROVE  IInv' /\ [Promise!Next]_(Promise!vars)
  <2>1. CASE \E kind \in Kinds, r \in Handlers \cup {Nothing} : Receive(h, kind, r)
    BY <1>1, <2>1, ReceiveKeeps
  <2>2. CASE Read(h) \/ Fetch(h) \/ Merge(h)
    BY <1>1, <2>2, ReadKeeps, FetchKeeps, MergeKeeps
  <2>3. CASE FetchFails(h) \/ CompleteRefused(h) \/ Fail(h)
    <3>1. \E pc \in Ends \ {"accepted"} : End(h, pc, Nothing)
      BY <2>3 DEF FetchFails, CompleteRefused, Fail, Ends
    <3>2. task[h].pc \in Within /\ UNCHANGED <<config, now, mirror, issued, heap, stored>>
      BY <2>3 DEF FetchFails, CompleteRefused, Fail, Within
    <3> QED BY <1>1, <3>1, <3>2, EndKeeps
  <2>4. CASE View(h) \/ AskSettlement(h)
    BY <1>1, <2>4, ViewKeeps, AskKeeps
  <2>5. CASE CompleteAgain(h)
    <3>1. task[h].pc \in Within /\ UNCHANGED <<config, now, mirror, issued, heap, stored>>
      BY <2>5 DEF CompleteAgain, Within
    <3>2. heap[task[h].ref].url \in Handlers \cup {Nothing}
      BY <2>5 DEF CompleteAgain, IInv, TypeOK, Grounded, Session
    <3>3. \E pc \in Ends \ {"accepted"}, r \in Handlers \cup {Nothing} : End(h, pc, r)
      BY <2>5, <3>2 DEF CompleteAgain, Ends
    <3> QED BY <1>1, <3>1, <3>3, EndKeeps
  <2>6. CASE Complete(h) \/ \E paid \in BOOLEAN : Settle(h, paid)
    <3>1. PICK paid \in BOOLEAN : Finish(h, paid) /\ task[h].pc \in {"checking", "settling"}
      BY <2>6 DEF Complete, Settle
    <3>2. IInv' /\ Accepted' = Accepted /\ Receipts' \in {Receipts, Receipts \cup {h}}
      BY <3>1, FinishKeeps
    <3> QED BY <1>0, <3>2 DEF Promise!Next, Promise!Pay, Promise!vars
  <2>7. CASE Verify(h)
    <3>1. CASE End(h, "refused", Nothing) /\ UNCHANGED <<heap, stored>>
      BY <1>1, <2>7, <3>1, EndKeeps DEF Verify, Ends, Within
    <3>2. CASE /\ Usable(heap[task[h].ref], task[h].receipt)
               /\ Put(task[h].ref, Used(heap[task[h].ref])) /\ End(h, "accepted", Nothing)
      BY <1>0, <2>7, <3>2, AcceptKeeps DEF Promise!Next, Promise!Grant
    <3> QED BY <2>7, <3>1, <3>2 DEF Verify
  <2> QED BY <1>2, <2>1, <2>2, <2>3, <2>4, <2>5, <2>6, <2>7 DEF Handle
<1>3. CASE Restart
  BY <1>1, <1>3, RestartKeeps
<1>4. CASE Mirrored \/ Evict \/ Tick
  BY <1>1, <1>4, OutsideKeeps
<1>5. CASE UNCHANGED vars
  <2>1. Accepted' = Accepted /\ Receipts' = Receipts
    BY <1>5 DEF vars, Accepted, Receipts
  <2>2. IInv'
    BY <1>5, <2>1 DEF vars, IInv, TypeOK, Grounded, OneObject, SingleUse, Alone
  <2> QED BY <1>1, <2>1, <2>2
<1> QED BY <1>2, <1>3, <1>4, <1>5 DEF Next

LEMMA InitPromise == Init => Promise!Init
  BY PaymentAssumption
     DEF Init, Promise!Init, Receipts, Accepted, Alone, Unused

LEMMA Invariance == Spec => []IInv
<1>1. Init => IInv
  BY InitIInv
<1>2. IInv /\ [Next]_vars => IInv'
  BY StepKeeps
<1> QED BY <1>1, <1>2, PTL DEF Spec

-----------------------------------------------------------------------------
\* Alone, the session bears the marks of what was signed and accepted for it.
PaidMarks ==
  /\ Receipts # {} => heap[Home].status \in {"completed", "authorized"}
  /\ heap[Home].status = "authorized" => heap[Home].usedAt # 0
  /\ heap[Home].usedAt # 0 => Accepted # {}

\* If nothing settles it either, it is completed in one step, and its URL is the
\* redirect that everybody was given.
CompletedOnce ==
  /\ \A h \in Handlers : task[h].pc # "settling"
  /\ heap[Home].url # Nothing => heap[Home].status \in {"completed", "authorized"}
  /\ \A h \in Handlers : task[h].pc = "redirected" =>
       task[h].receipt = heap[Home].url /\ heap[Home].url # Nothing

Marked == PaidMarks /\ (~config.settles => CompletedOnce)

\* The three things that a step does to the session of a lone deployment.
Passes ==
  /\ heap'[Home] = heap[Home] /\ Receipts' = Receipts /\ Accepted' = Accepted
  /\ \A h \in Handlers :
       /\ task'[h].pc = "settling" => config.settles \/ task[h].pc = "settling"
       /\ task'[h].pc = "redirected" =>
            \/ task[h].pc = "redirected" /\ task'[h].receipt = task[h].receipt
            \/ task'[h].receipt = heap[Home].url /\ heap[Home].url # Nothing

Completes(h) ==
  /\ task[h].pc = "settling" \/ Completable(heap[Home])
  /\ heap'[Home] = [heap[Home] EXCEPT !.status = "completed", !.url = h]
  /\ Accepted' = Accepted
  /\ task'[h].pc = "redirected" /\ task'[h].receipt = h
  /\ \A g \in Handlers \ {h} : task'[g] = task[g]

Accepts(h) ==
  /\ Usable(heap[Home], task[h].receipt)
  /\ heap'[Home] = Used(heap[Home])
  /\ Receipts' = Receipts /\ h \in Accepted'
  /\ task'[h].pc = "accepted"
  /\ \A g \in Handlers \ {h} : task'[g] = task[g]

LEMMA HomeAlone ==
  ASSUME IInv, Alone, NEW h \in Handlers, task[h].pc \in {"checking", "settling"}
  PROVE  task[h].ref = Home /\ Home \in Objects
  BY PaymentAssumption DEF IInv, OneObject, Grounded, Objects

\* The request of h ends, and the session is as it was.
LEMMA EndPasses ==
  ASSUME IInv, NEW h \in Handlers, NEW pc \in Ends, NEW r \in Handlers \cup {Nothing},
         End(h, pc, r), heap'[Home] = heap[Home], Receipts' = Receipts, Accepted' = Accepted,
         pc = "redirected" => r = heap[Home].url /\ heap[Home].url # Nothing
  PROVE  Passes
<1>1. task'[h].pc = pc /\ task'[h].receipt = r
      /\ \A g \in Handlers \ {h} : task'[g] = task[g]
  BY DEF IInv, TypeOK, End, Unused, Task
<1> QED BY <1>1 DEF Passes, Ends

LEMMA AloneStep ==
  ASSUME IInv, Alone, [Next]_vars
  PROVE  Passes \/ \E h \in Handlers : Completes(h) \/ Accepts(h)
<1>0. TypeOK /\ config.inMemory /\ ~config.gateway /\ Home \in Objects
  BY DEF IInv, Alone, Objects
<1>1. ASSUME NEW h \in Handlers, Handle(h)
      PROVE  Passes \/ Completes(h) \/ Accepts(h)
  <2>0. task[h] \in Task
    BY <1>0 DEF TypeOK
  <2>1. CASE \E kind \in Kinds, r \in Handlers \cup {Nothing} : Receive(h, kind, r)
    <3>1. PICK kind \in Kinds, r \in Handlers \cup {Nothing} : Receive(h, kind, r)
      BY <2>1
    <3>2. task'[h].pc = "reading" /\ heap' = heap
          /\ \A g \in Handlers \ {h} : task'[g] = task[g]
      BY <1>0, <2>0, <3>1 DEF Receive, TypeOK, Task
    <3> QED BY <3>1, <3>2, ReceiveKeeps DEF Passes
  <2>2. CASE Read(h)
    <3>1. Accepted' = Accepted /\ Receipts' = Receipts
      BY <2>2, ReadKeeps
    <3>2. CASE Kept # Nothing /\ Take(h, [task[h] EXCEPT !.pc = "checking"])
      <4>1. heap' = heap /\ task'[h].pc = "checking"
            /\ \A g \in Handlers \ {h} : task'[g] = task[g]
        BY <1>0, <2>0, <3>2 DEF Take, TypeOK, Task
      <4> QED BY <3>1, <4>1 DEF Passes
    <3>3. CASE End(h, "refused", Nothing) /\ heap' = heap
      BY <3>1, <3>3, EndPasses DEF Ends
    <3> QED BY <1>0, <2>2, <3>2, <3>3 DEF Read
  <2>3. CASE Fetch(h) \/ FetchFails(h) \/ Merge(h)
    BY <2>3 DEF Fetch, FetchFails, Merge, IInv, OneObject
  <2>4. CASE View(h)
    <3>1. task[h].ref = Home /\ End(h, "answered", Nothing) /\ heap'[Home] = heap[Home]
      BY <1>0, <2>4, HomeAlone DEF View, Put, TypeOK
    <3> QED BY <2>4, <3>1, ViewKeeps, EndPasses DEF Ends
  <2>5. CASE CompleteAgain(h)
    <3>1. task[h].ref = Home /\ task[h].pc \in Within /\ heap[Home].url \in Handlers \cup {Nothing}
      BY <1>0, <2>5, HomeAlone DEF CompleteAgain, Within, TypeOK, Session
    <3>2. PICK pc \in {"refused", "redirected"}, r \in Handlers \cup {Nothing} :
            /\ End(h, pc, r)
            /\ pc = "redirected" => r = heap[Home].url /\ heap[Home].url # Nothing
      BY <2>5, <3>1 DEF CompleteAgain
    <3>3. UNCHANGED <<config, now, heap, stored, mirror, issued>>
      BY <2>5 DEF CompleteAgain
    <3>4. Accepted' = Accepted /\ Receipts' = Receipts
      BY <3>1, <3>2, <3>3, EndKeeps DEF Ends
    <3> QED BY <3>2, <3>3, <3>4, EndPasses DEF Ends
  <2>6. CASE CompleteRefused(h) \/ Fail(h)
    <3>1. PICK pc \in {"refused", "failed"} : End(h, pc, Nothing)
      BY <2>6 DEF CompleteRefused, Fail
    <3>2. task[h].pc \in Within /\ UNCHANGED <<config, now, heap, stored, mirror, issued>>
      BY <2>6 DEF CompleteRefused, Fail, Within
    <3> QED BY <3>1, <3>2, EndKeeps, EndPasses DEF Ends
  <2>7. CASE Complete(h) \/ \E paid \in BOOLEAN : Settle(h, paid)
    <3>1. PICK paid \in BOOLEAN : Finish(h, paid)
      BY <2>7 DEF Complete, Settle
    <3>2. /\ task[h].pc \in {"checking", "settling"} /\ task[h].ref = Home
          /\ task[h].pc = "settling" \/ Completable(heap[Home])
      BY <2>7, HomeAlone DEF Complete, Settle
    <3>3. heap'[Home] = [heap[Home] EXCEPT !.status = "completed", !.url = h]
      BY <1>0, <3>1, <3>2 DEF Finish, Put, TypeOK
    <3>4. task'[h].pc = "redirected" /\ task'[h].receipt = h
          /\ \A g \in Handlers \ {h} : task'[g] = task[g]
      BY <1>0, <3>1 DEF Finish, End, Unused, TypeOK
    <3> QED BY <3>1, <3>2, <3>3, <3>4, FinishKeeps DEF Completes
  <2>8. CASE AskSettlement(h)
    <3>1. config.settles /\ heap' = heap /\ task'[h].pc = "settling"
          /\ \A g \in Handlers \ {h} : task'[g] = task[g]
      BY <1>0, <2>0, <2>8 DEF AskSettlement, TypeOK, Task
    <3> QED BY <2>8, <3>1, AskKeeps DEF Passes
  <2>9. CASE Verify(h)
    <3>0. task[h].ref = Home /\ task[h].pc \in Within
      BY <2>9, HomeAlone DEF Verify, Within
    <3>1. CASE End(h, "refused", Nothing) /\ UNCHANGED <<heap, stored>>
      BY <2>9, <3>0, <3>1, EndKeeps, EndPasses DEF Verify, Ends
    <3>2. CASE /\ Usable(heap[Home], task[h].receipt)
               /\ Put(Home, Used(heap[Home])) /\ End(h, "accepted", Nothing)
      <4>1. Receipts' = Receipts /\ h \in Accepted'
        BY <2>9, <3>0, <3>2, AcceptKeeps
      <4>2. heap'[Home] = Used(heap[Home])
        BY <1>0, <3>2 DEF Put, TypeOK
      <4>3. task'[h].pc = "accepted" /\ \A g \in Handlers \ {h} : task'[g] = task[g]
        BY <1>0, <3>2 DEF End, Unused, TypeOK
      <4> QED BY <3>2, <4>1, <4>2, <4>3 DEF Accepts
    <3> QED BY <2>9, <3>0, <3>1, <3>2 DEF Verify
  <2> QED BY <1>1, <2>1, <2>2, <2>3, <2>4, <2>5, <2>6, <2>7, <2>8, <2>9 DEF Handle
<1>2. CASE Restart
  <2>1. \A h \in Handlers : task'[h] = task[h] \/ task'[h].pc = "failed"
    BY <1>2 DEF Restart, Unused
  <2> QED BY <1>2, <2>1, RestartKeeps DEF Passes, Restart
<1>3. CASE Mirrored \/ Evict \/ Tick
  <2>1. task' = task /\ heap' = heap
    BY <1>3 DEF Mirrored, Evict, Tick
  <2> QED BY <1>3, <2>1, OutsideKeeps DEF Passes
<1>4. CASE UNCHANGED vars
  BY <1>4 DEF vars, Passes, Receipts, Accepted
<1> QED BY <1>1, <1>2, <1>3, <1>4 DEF Next

LEMMA ConfigKept ==
  ASSUME [Next]_vars
  PROVE  config' = config
  BY DEF Next, Handle, Receive, Read, Fetch, FetchFails, Merge, View, CompleteAgain,
         CompleteRefused, Complete, AskSettlement, Settle, Finish, Fail, Verify,
         Mirrored, Restart, Evict, Tick, vars

LEMMA MarkedStep ==
  ASSUME IInv, Alone, Marked, [Next]_vars
  PROVE  Marked'
<1>0. config' = config /\ heap[Home] \in Session /\ now # 0
  BY ConfigKept DEF IInv, TypeOK, Grounded, Objects
<1>1. CASE Passes
  BY <1>0, <1>1 DEF Marked, PaidMarks, CompletedOnce, Passes
<1>2. ASSUME NEW h \in Handlers, Completes(h)
      PROVE  Marked'
  <2>1. /\ heap'[Home].status = "completed" /\ heap'[Home].url = h
        /\ heap'[Home].usedAt = heap[Home].usedAt
    BY <1>0, <1>2 DEF Completes, Session
  <2>2. PaidMarks'
    BY <1>2, <2>1 DEF Marked, PaidMarks, Completes
  <2>3. ASSUME ~config.settles PROVE CompletedOnce'
    <3>1. CompletedOnce /\ heap[Home].url = Nothing
      BY <1>2, <2>3 DEF Marked, CompletedOnce, Completes, Completable
    <3>2. h # Nothing
      BY PaymentAssumption
    <3> QED BY <1>2, <2>1, <3>1, <3>2 DEF CompletedOnce, Completes
  <2> QED BY <1>0, <2>2, <2>3 DEF Marked
<1>3. ASSUME NEW h \in Handlers, Accepts(h)
      PROVE  Marked'
  <2>1. /\ heap'[Home].status = "authorized" /\ heap'[Home].usedAt = now
        /\ heap'[Home].url = heap[Home].url
    BY <1>0, <1>3 DEF Accepts, Used, Session
  <2>2. PaidMarks'
    BY <1>0, <1>3, <2>1 DEF PaidMarks, Accepts
  <2>3. ASSUME ~config.settles PROVE CompletedOnce'
    BY <1>3, <2>1, <2>3 DEF Marked, CompletedOnce, Accepts
  <2> QED BY <1>0, <2>2, <2>3 DEF Marked
<1> QED BY <1>1, <1>2, <1>3, AloneStep

LEMMA Marking == Spec => [](Alone => Marked)
<1>1. Init => (Alone => Marked)
  BY PaymentAssumption
     DEF Init, Marked, PaidMarks, CompletedOnce, New, Unused, Receipts, Accepted, Objects
<1>2. IInv /\ (Alone => Marked) /\ [Next]_vars => (Alone => Marked)'
  BY MarkedStep, ConfigKept DEF Alone
<1> QED BY <1>1, <1>2, Invariance, PTL DEF Spec

-----------------------------------------------------------------------------
\* Sessions, tasks and references are well typed in every deployment.
THEOREM PaymentTypeCorrect == Spec => []TypeOK
<1>1. IInv => TypeOK
  BY DEF IInv
<1> QED BY <1>1, Invariance, PTL

\* In memory and without a gateway one receipt of a session is accepted, by one
\* verification, however many completions and verifications overlap.
THEOREM OneUseAlone == Spec => []SingleUseAlone
<1>1. IInv => SingleUseAlone
  BY DEF IInv, OneObject, SingleUseAlone
<1> QED BY <1>1, Invariance, PTL

\* The handler implements the promise of a payment session.
THEOREM HandlerKeepsPromise == Spec => KeepsPromise
<1>1. Init => Promise!Init
  BY InitPromise
<1>2. IInv /\ [Next]_vars => [Promise!Next]_(Promise!vars)
  BY StepKeeps
<1> QED BY <1>1, <1>2, Invariance, PTL DEF Spec, KeepsPromise, Promise!Spec

\* In memory, without a gateway and without a settlement callback, all who complete
\* the session are given one redirect, whatever overlaps (handleComplete).
THEOREM OneReceiptAlone == Spec => []OneReceipt
<1>1. (Alone => Marked) => OneReceipt
  BY DEF Marked, CompletedOnce, OneReceipt
<1> QED BY <1>1, Marking, PTL

\* There a used session stays used as long as the store keeps it.
THEOREM UseIsFinal == Spec => UsedIsFinal
<1> DEFINE Final ==
      Alone /\ ~config.settles /\ stored # Nothing /\ heap[stored].status = "authorized" =>
        stored' = Nothing \/ heap'[stored'].status = "authorized"
<1>1. IInv /\ (Alone => Marked) /\ IInv' /\ [Next]_vars => Final
  <2> SUFFICES ASSUME IInv, Alone, Marked, IInv', [Next]_vars, ~config.settles,
                      stored # Nothing, heap[stored].status = "authorized", stored' # Nothing
               PROVE  heap'[stored'].status = "authorized"
    OBVIOUS
  <2>1. stored = Home /\ stored' = Home
    BY ConfigKept DEF IInv, OneObject, Alone
  <2>2. CASE Passes
    BY <2>1, <2>2 DEF Passes
  <2>3. ASSUME NEW h \in Handlers, Completes(h) PROVE FALSE
    BY <2>1, <2>3 DEF Marked, CompletedOnce, Completes, Completable
  <2>4. ASSUME NEW h \in Handlers, Accepts(h) PROVE FALSE
    BY <2>1, <2>4 DEF Accepts, Usable
  <2> QED BY <2>1, <2>2, <2>3, <2>4, AloneStep
<1>2. IInv /\ (Alone => Marked) /\ IInv' /\ [Next]_vars => [Final]_vars
  BY <1>1
<1> QED BY <1>2, Invariance, Marking, PTL DEF Spec, UsedIsFinal

\* There, whoever presents a receipt in time is let through, unless the payment was
\* used or its session is gone (handleVerifyEvidence).
THEOREM PaymentHonoured == Spec => PaidIsHonoured
<1> DEFINE Honoured ==
      \A h \in Handlers :
        Alone /\ task[h].kind = "verify" /\ task[h].pc \in Within /\ task'[h].pc = "refused" =>
          \/ Accepted # {}
          \/ now > issued[task[h].receipt] + MaxAge
          \/ stored' = Nothing
<1>1. IInv /\ (Alone => Marked) /\ [Next]_vars => Honoured
  <2> SUFFICES ASSUME IInv, Alone, Marked, [Next]_vars, NEW h \in Handlers,
                      task[h].kind = "verify", task[h].pc \in Within, task'[h].pc = "refused",
                      stored' # Nothing, Accepted = {}
               PROVE  now > issued[task[h].receipt] + MaxAge
    OBVIOUS
  <2>0. TypeOK /\ task[h].receipt \in Receipts
    BY DEF IInv, Grounded
  <2>1. ~Usable(heap[Home], task[h].receipt)
    <3>1. ASSUME NEW g \in Handlers, Handle(g), g # h PROVE FALSE
      <4>1. task'[h] = task[h]
        BY <2>0, <3>1 DEF Handle, Receive, Read, Fetch, FetchFails, Merge, View, CompleteAgain,
           CompleteRefused, Complete, AskSettlement, Settle, Finish, Fail, Verify, End, Take,
           TypeOK
      <4> QED BY <4>1 DEF Within
    <3>2. ASSUME Handle(h) PROVE ~Usable(heap[Home], task[h].receipt)
      <4>1. ~\E kind \in Kinds, r \in Handlers \cup {Nothing} : Receive(h, kind, r)
        BY DEF Receive, Within
      <4>2. ~Read(h)
        <5>1. SUFFICES ASSUME Read(h) PROVE FALSE
          OBVIOUS
        <5>2. Kept # Nothing /\ Take(h, [task[h] EXCEPT !.pc = "checking"])
          BY <5>1 DEF Read
        <5> QED BY <2>0, <5>2 DEF Take, TypeOK, Task
      <4>3. ~(Fetch(h) \/ FetchFails(h) \/ Merge(h))
        BY DEF Fetch, FetchFails, Merge, IInv, OneObject
      <4>4. ~(View(h) \/ CompleteAgain(h) \/ CompleteRefused(h) \/ Complete(h) \/ AskSettlement(h))
        BY DEF View, CompleteAgain, CompleteRefused, Complete, AskSettlement
      <4>5. ~(\E paid \in BOOLEAN : Settle(h, paid)) /\ ~Fail(h)
        BY <2>0 DEF Settle, Finish, Fail, End, Unused, TypeOK
      <4>6. Verify(h)
        BY <3>2, <4>1, <4>2, <4>3, <4>4, <4>5 DEF Handle
      <4>7. task[h].ref = Home
        BY <4>6, HomeAlone DEF Verify
      <4>8. ~End(h, "accepted", Nothing)
        BY <2>0 DEF End, Unused, TypeOK
      <4> QED BY <4>6, <4>7, <4>8 DEF Verify
    <3>3. ~Restart
      BY DEF Restart, Unused
    <3>4. ~(Mirrored \/ Evict \/ Tick \/ UNCHANGED vars)
      BY DEF Mirrored, Evict, Tick, vars, Within
    <3> QED BY <3>1, <3>2, <3>3, <3>4 DEF Next
  <2>2. heap[Home].usedAt = 0 /\ heap[Home].status = "completed"
    BY <2>0 DEF Marked, PaidMarks
  <2>3. now \in Nat /\ issued[task[h].receipt] \in Nat /\ MaxAge \in Nat
    BY <2>0, PaymentAssumption DEF TypeOK, Receipts
  <2> QED BY <2>1, <2>2, <2>3 DEF Usable
<1>2. IInv /\ (Alone => Marked) /\ [Next]_vars => [Honoured]_vars
  BY <1>1
<1> QED BY <1>2, Invariance, Marking, PTL DEF Spec, PaidIsHonoured
=============================================================================
