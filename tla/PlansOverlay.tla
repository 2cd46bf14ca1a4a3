----------------------------- MODULE PlansOverlay -----------------------------
(***************************************************************************)
(* The overlay of plans that XappsHost opens over the page                 *)
(* (openMonetizationPlans of embed-sdk), with the return of a payment in   *)
(* the URL of the page.                                                    *)
(*                                                                         *)
(* Everything the overlay does is a task: it renders, which loads from the *)
(* host API and may first finalize a paid return, and then goes on with a  *)
(* checkout or a change of the subscription.  Tasks overlap, and go on     *)
(* when their overlay is closed.                                           *)
(*                                                                         *)
(* What was handled, and the overlay on display, are those of one          *)
(* XappsHost.  The runtime's mount destroys the host it has and makes      *)
(* another one in the same page, which remembers nothing, while the tasks  *)
(* of the former go on.  A navigation or a reload ends all tasks; the URL  *)
(* stays in both cases.                                                    *)
(***************************************************************************)
EXTENDS FiniteSets, Naturals

CONSTANTS
  Overlays,   \* overlays opened by openMonetizationPlans
  Tasks,      \* renders and what follows them
  Intents,    \* purchase intents
  MaxMounts,  \* bound: hosts made in one page
  NoOverlay, NoReturn

\* The return of a payment in the parameters of the URL.
Returns == [intent : Intents, status : {"paid", "cancelled", "failed"}]

ASSUME OverlaysAssumption ==
  /\ NoOverlay \notin Overlays /\ NoReturn \notin Intents \cup Returns
  /\ MaxMounts \in Nat \ {0}

\* The hosts that one page may have, in the order the runtime makes them.
Hosts == 1 .. MaxMounts

VARIABLES
  url,         \* the return that the URL of the page carries
  mounts,      \* the hosts made in this page: the last one is the runtime's
  mounting,    \* those whose mount awaits the catalog session
  handled,     \* lastHandledMonetizationReturnKey of a host
  overlay,     \* the overlay that activePlansOverlayCleanup of a host closes
  view,        \* the tab of an overlay (currentView)
  surface,     \* what an overlay displays
  task,        \* where a task stands, its host, its overlay and what follows its render
  intent,      \* the intent of the checkout of a task
  prepared,    \* server: the intents that were prepared
  finalized,   \* server: the intents whose payment was finalized
  posts        \* history: finalize requests of a host for a return

runtime  == <<mounts, mounting>>
memory   == <<runtime, handled, overlay, view, surface, task, intent>>
server   == <<prepared, finalized>>
planVars == <<url, memory, server, posts>>

-----------------------------------------------------------------------------
Views == {"plans", "history"}

\* "loading" and "finalizing" are the render; "preparing", "paying" and "settling" the
\* checkout; "changing" the refresh or the cancellation of a subscription.
Rendering == {"loading", "finalizing"}
Steps == {"none", "preparing", "changing"}
Stage == {"idle", "preparing", "paying", "settling", "changing"} \cup Rendering
Idle == [stage |-> "idle", host |-> 1, overlay |-> NoOverlay, next |-> "none"]

PlansTypeOK ==
  /\ url \in Returns \cup {NoReturn}
  /\ mounts \in Hosts /\ mounting \subseteq Hosts
  /\ handled \in [Hosts -> Returns \cup {NoReturn}]
  /\ overlay \in [Hosts -> Overlays \cup {NoOverlay}]
  /\ view \in [Overlays -> Views]
  /\ surface \in [Overlays -> Views \cup {"loading", "error"}]
  /\ task \in [Tasks -> [stage : Stage, host : Hosts,
                         overlay : Overlays \cup {NoOverlay}, next : Steps]]
  /\ intent \in [Tasks -> Intents \cup {NoReturn}]
  /\ prepared \subseteq Intents /\ finalized \subseteq Intents
  /\ posts \in [Hosts -> [Intents -> Nat]]

PlansInit ==
  /\ url = NoReturn /\ mounts = 1 /\ mounting = {1}
  /\ handled = [h \in Hosts |-> NoReturn] /\ overlay = [h \in Hosts |-> NoOverlay]
  /\ view = [o \in Overlays |-> "plans"] /\ surface = [o \in Overlays |-> "loading"]
  /\ task = [t \in Tasks |-> Idle] /\ intent = [t \in Tasks |-> NoReturn]
  /\ prepared = {} /\ finalized = {}
  /\ posts = [h \in Hosts |-> [i \in Intents |-> 0]]

\* Another page is loaded, with a host of its own: nothing is left of the former ones.
NewPage ==
  /\ mounts' = 1 /\ mounting' = {1}
  /\ handled' = [h \in Hosts |-> NoReturn] /\ overlay' = [h \in Hosts |-> NoOverlay]
  /\ view' = [o \in Overlays |-> "plans"] /\ surface' = [o \in Overlays |-> "loading"]
  /\ task' = [t \in Tasks |-> Idle] /\ intent' = [t \in Tasks |-> NoReturn]
  /\ posts' = [h \in Hosts |-> [i \in Intents |-> 0]]

-----------------------------------------------------------------------------
\* Mutant of Marked: a return is handled once it is finalized.
MarkedLate(h, return) == handled[h]

\* What a host remembers as handled when it sends the finalize request of a return.
Marked(h, return) == return

\* Mutant of Cleared: the return is cleared from the URL in any case.
ClearedAlways(ok) == NoReturn

\* clearMonetizationReturnParams, once the return is finalized.
Cleared(ok) == IF ok THEN NoReturn ELSE url

\* The tab that is rendered: the one selected when the data is there.
Tab(o) == view[o]

\* A return that the URL carries and the host h has not handled.
Unhandled(h) == url \notin {NoReturn, handled[h]}

\* A render of the overlay o of h starts: the surface is cleared first.
Render(t, h, o, next) ==
  /\ task' = [task EXCEPT ![t] = [stage |-> "loading", host |-> h, overlay |-> o, next |-> next]]
  /\ surface' = [surface EXCEPT ![o] = "loading"]

RenderAgain(t, next) == Render(t, task[t].host, task[t].overlay, next)

\* The render of t is over, and the task goes on.
Proceed(t) ==
  LET next == task[t].next IN
  task' = [task EXCEPT ![t] = IF next = "none" THEN Idle
                              ELSE [@ EXCEPT !.stage = next, !.next = "none"]]

\* openMonetizationPlans of h, which does not look whether h was destroyed.
Open(t, h, o, v) ==
  /\ task[t] = Idle
  /\ \A u \in Tasks : task[u].overlay # o
  /\ \A g \in Hosts \ {h} : overlay[g] # o
  /\ overlay' = [overlay EXCEPT ![h] = o]
  /\ view' = [view EXCEPT ![o] = v]
  /\ Render(t, h, o, "none")

\* A widget asks the page for the plans: the bridge of the runtime's host is attached.
OpenPlans(t, o, v) ==
  /\ Open(t, mounts, o, v)
  /\ UNCHANGED <<url, runtime, handled, intent, server, posts>>

\* The catalog of a host is there, which may have been destroyed meanwhile: it opens the
\* plans for the return in the URL.
CatalogMounted(h, t, o) ==
  /\ h \in mounting /\ mounting' = mounting \ {h}
  /\ Unhandled(h)
  /\ Open(t, h, o, "plans")
  /\ UNCHANGED <<url, mounts, handled, intent, server, posts>>

\* There is no such return, or the session is refused.
MountEnds(h) ==
  /\ h \in mounting /\ mounting' = mounting \ {h}
  /\ UNCHANGED <<url, mounts, handled, overlay, view, surface, task, intent, server, posts>>

\* mountCatalog or mountXapp again on the host of the page.
MountAgain ==
  /\ mounts \notin mounting /\ mounting' = mounting \cup {mounts}
  /\ UNCHANGED <<url, mounts, handled, overlay, view, surface, task, intent, server, posts>>

\* The runtime's mount in a page that has a host: that one is destroyed, which closes
\* its overlay, and the next one is made.
Remount ==
  /\ mounts < MaxMounts
  /\ mounts' = mounts + 1
  /\ mounting' = mounting \cup {mounts'}
  /\ overlay' = [overlay EXCEPT ![mounts] = NoOverlay]
  /\ UNCHANGED <<url, handled, view, surface, task, intent, server, posts>>

\* The close button of one overlay; Escape closes those of all hosts.
ClosePlans(closed) ==
  /\ \E h \in closed : overlay[h] # NoOverlay
  /\ overlay' = [h \in Hosts |-> IF h \in closed THEN NoOverlay ELSE overlay[h]]
  /\ UNCHANGED <<url, runtime, handled, view, surface, task, intent, server, posts>>

SelectTab(t, h) ==
  /\ task[t] = Idle /\ overlay[h] # NoOverlay
  /\ view' = [view EXCEPT ![overlay[h]] = IF @ = "plans" THEN "history" ELSE "plans"]
  /\ Render(t, h, overlay[h], "none")
  /\ UNCHANGED <<url, runtime, handled, overlay, intent, server, posts>>

\* onCheckoutPackage, onRefreshSubscription and a confirmed onCancelSubscription render
\* a busy surface first.
Act(t, h, next) ==
  /\ task[t] = Idle /\ overlay[h] # NoOverlay
  /\ surface[overlay[h]] = "plans" /\ next # "none"
  /\ Render(t, h, overlay[h], next)
  /\ UNCHANGED <<url, runtime, handled, overlay, view, intent, server, posts>>

\* The data is there: a paid return of this app that its host has not handled is
\* finalized.
FinalizeReturn(t) ==
  LET h == task[t].host IN
  /\ task[t].stage = "loading"
  /\ Unhandled(h) /\ url.status = "paid"
  /\ handled' = [handled EXCEPT ![h] = Marked(h, url)]
  /\ posts' = [posts EXCEPT ![h][url.intent] = @ + 1]
  /\ intent' = [intent EXCEPT ![t] = url.intent]
  /\ task' = [task EXCEPT ![t].stage = "finalizing"]
  /\ UNCHANGED <<url, runtime, overlay, view, surface, server>>

\* Otherwise the surface is rendered; another return is cleared when it is told.
Loaded(t) ==
  LET h == task[t].host IN
  /\ task[t].stage = "loading"
  /\ \/ ~Unhandled(h) /\ UNCHANGED <<url, handled>>
     \/ /\ Unhandled(h) /\ url.status # "paid"
        /\ handled' = [handled EXCEPT ![h] = url] /\ url' = NoReturn
  /\ surface' = [surface EXCEPT ![task[t].overlay] = Tab(task[t].overlay)]
  /\ Proceed(t)
  /\ UNCHANGED <<runtime, overlay, view, intent, server, posts>>

\* renderState shows its own errors and never fails: a checkout goes on.
LoadFailed(t) ==
  /\ task[t].stage = "loading"
  /\ surface' = [surface EXCEPT ![task[t].overlay] = "error"]
  /\ Proceed(t)
  /\ UNCHANGED <<url, runtime, handled, overlay, view, intent, server, posts>>

\* The answer to the finalize request; the render then starts again.
ReturnFinalized(t) ==
  /\ task[t].stage = "finalizing"
  /\ finalized' = finalized \cup {intent[t]}
  /\ url' = Cleared(TRUE)
  /\ RenderAgain(t, task[t].next)
  /\ intent' = [intent EXCEPT ![t] = NoReturn]
  /\ UNCHANGED <<runtime, handled, overlay, view, prepared, posts>>

\* The server may have done it all the same.
FinalizeFailed(t) ==
  /\ task[t].stage = "finalizing"
  /\ finalized' \in {finalized, finalized \cup {intent[t]}}
  /\ url' = Cleared(FALSE)
  /\ surface' = [surface EXCEPT ![task[t].overlay] = "error"]
  /\ Proceed(t)
  /\ intent' = [intent EXCEPT ![t] = NoReturn]
  /\ UNCHANGED <<runtime, handled, overlay, view, prepared, posts>>

-----------------------------------------------------------------------------
\* The checkout of a package.

Prepare(t, i) ==
  /\ task[t].stage = "preparing"
  /\ i \notin prepared
  /\ prepared' = prepared \cup {i}
  /\ intent' = [intent EXCEPT ![t] = i]
  /\ task' = [task EXCEPT ![t].stage = "paying"]
  /\ UNCHANGED <<url, runtime, handled, overlay, view, surface, finalized, posts>>

\* The payment session says paid and has no page: nothing is left to pay.
PaidAlready(t) ==
  /\ task[t].stage = "paying"
  /\ task' = [task EXCEPT ![t].stage = "settling"]
  /\ UNCHANGED <<url, runtime, handled, overlay, view, surface, intent, server, posts>>

Settle(t) ==
  /\ task[t].stage = "settling"
  /\ finalized' = finalized \cup {intent[t]}
  /\ intent' = [intent EXCEPT ![t] = NoReturn]
  /\ RenderAgain(t, "none")
  /\ UNCHANGED <<url, runtime, handled, overlay, view, prepared, posts>>

\* The page is left for the payment page, and comes back with a return for it.
Checkout(t, status) ==
  /\ task[t].stage = "paying"
  /\ url' = [intent |-> intent[t], status |-> status]
  /\ NewPage
  /\ UNCHANGED server

\* The subscription is refreshed or cancelled: shown by another render.
Changed(t) ==
  /\ task[t].stage = "changing"
  /\ RenderAgain(t, "none")
  /\ UNCHANGED <<url, runtime, handled, overlay, view, intent, server, posts>>

\* A request of a checkout or a subscription fails: shown by another render.
ActFailed(t) ==
  /\ task[t].stage \in {"preparing", "paying", "settling", "changing"}
  /\ RenderAgain(t, "none")
  /\ intent' = [intent EXCEPT ![t] = NoReturn]
  /\ UNCHANGED <<url, runtime, handled, overlay, view, server, posts>>

Reload ==
  /\ NewPage
  /\ UNCHANGED <<url, server>>

PlansNext ==
  \/ \E t \in Tasks, o \in Overlays :
       \/ \E v \in Views : OpenPlans(t, o, v)
       \/ \E h \in Hosts : CatalogMounted(h, t, o)
  \/ \E h \in Hosts : MountEnds(h) \/ ClosePlans({h})
  \/ ClosePlans(Hosts) \/ MountAgain \/ Remount \/ Reload
  \/ \E t \in Tasks :
       \/ FinalizeReturn(t) \/ Loaded(t) \/ LoadFailed(t)
       \/ ReturnFinalized(t) \/ FinalizeFailed(t)
       \/ PaidAlready(t) \/ Settle(t) \/ Changed(t) \/ ActFailed(t)
       \/ \E h \in Hosts : SelectTab(t, h) \/ \E next \in Steps : Act(t, h, next)
       \/ \E i \in Intents : Prepare(t, i)
       \/ \E status \in {"paid", "cancelled", "failed"} : Checkout(t, status)

PlansSpec == PlansInit /\ [][PlansNext]_planVars

-----------------------------------------------------------------------------
\* However its renders overlap, whatever overlay they belong to, and although they go on
\* after it was destroyed, a host finalizes the payment of a return by one request at
\* most (renderState).  A host mounted after it in the same page may send its own.
FinalizeOnce == \A h \in Hosts : \A i \in Intents : posts[h][i] <= 1

\* A paid return leaves the URL only when its payment is finalized or the page goes to
\* another checkout: after a failed request, a reload or a remount tries again.
EvidenceKept ==
  [][\A i \in Intents :
       url = [intent |-> i, status |-> "paid"] /\ url' = NoReturn => i \in finalized']_planVars
=============================================================================
