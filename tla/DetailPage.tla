------------------------------ MODULE DetailPage ------------------------------
(***************************************************************************)
(* What the detail page of an xapp shows of the user's access              *)
(* (XappDetailPage of marketplace-ui): it reads the monetization state     *)
(* whenever the xapp, the installation or the tab's visibility changes,    *)
(* finalizes the paid return that its URL carries, starts checkouts and    *)
(* changes the subscription.                                               *)
(*                                                                         *)
(* All of these await the host API and then write the same state; only the *)
(* finalization of a return minds that the page has changed meanwhile.  An *)
(* action of the page is a render with the effects that it triggers.       *)
(***************************************************************************)

CONSTANTS
  Xapps,
  Installations,    \* installations that the host may name for the xapp of the page
  Packages,
  Loads,       \* bound: what may begin refreshMonetization by an effect, once each
  Checkouts,   \* bound: the clicks on a package, startPackageCheckout
  Changes,     \* bound: the clicks that refresh or cancel the subscription
  Effect,      \* the effect that finalizes the return in the URL
  Ended,       \* what the server knows of a subscription that was cancelled
  Nobody

\* Each stands for calls of one function of the page.
ASSUME DetailAssumption ==
  /\ Effect \notin Loads \cup Checkouts \cup Changes
  /\ Loads \cap (Checkouts \cup Changes) = {}

Awaited == Loads \cup Checkouts \cup Changes \cup {Effect}
Grants == Packages \cup {Ended}
Paid == [package : Packages, status : {"paid", "cancelled", "failed"}]

VARIABLES
  page,        \* the xapp of the URL; Nobody when the page is left
  install,     \* installation?.installationId
  return,      \* the payment return in the URL of the xapp's page
  handled,     \* checkoutFinalizeKeyRef
  shown,       \* monetization, with the page it was read for
  notice, error, \* checkoutNotice and checkoutError
  busy,        \* checkoutBusyPackageSlug
  acting,      \* subscriptionActionBusy
  confirm,     \* cancelSubscriptionConfirmOpen
  awaits,      \* where everything that awaits stands
  cancelled,   \* the cleanup of the effect has run
  owned,       \* server: the access that was granted
  paying,      \* server: the checkout that the page was left for
  late         \* history: shown was written by a call for another page

display    == <<notice, error, busy, acting, confirm>>
detailVars == <<page, install, return, handled, shown, display, awaits, cancelled, owned,
                paying, late>>

-----------------------------------------------------------------------------
DetailStages == {"idle", "over", "read", "prepare", "create", "finalize", "contract", "history"}
Keys == [xapp : Xapps, install : Installations \cup {Nobody}]
Idle == [stage |-> "idle", of |-> Nobody, package |-> Nobody, answer |-> "none", seen |-> {}]
Spent == [Idle EXCEPT !.stage = "over"]

DetailTypeOK ==
  /\ page \in Xapps \cup {Nobody} /\ install \in Installations \cup {Nobody}
  /\ return \in [Xapps -> Paid \cup {Nobody}]
  /\ handled \in [xapp : Xapps, return : Paid] \cup {Nobody}
  /\ shown \in [of : Keys, owned : SUBSET Grants] \cup {Nobody}
  /\ notice \in {"none", "finalizing", "finalized", "cancelled"} /\ error \in BOOLEAN
  /\ busy \in Packages \cup {Nobody} /\ acting \in BOOLEAN /\ confirm \in BOOLEAN
  /\ awaits \in [Awaited -> [stage : DetailStages, of : Keys \cup {Nobody},
                             package : Packages \cup {Nobody},
                             answer : {"none", "ok", "failed"}, seen : SUBSET Grants]]
  /\ cancelled \in BOOLEAN /\ late \in BOOLEAN
  /\ owned \in [Xapps -> SUBSET Grants]
  /\ paying \in [xapp : Xapps, package : Packages] \cup {Nobody}

DetailInit ==
  /\ page = Nobody /\ install = Nobody /\ return = [x \in Xapps |-> Nobody]
  /\ handled = Nobody /\ shown = Nobody
  /\ notice = "none" /\ error = FALSE /\ busy = Nobody /\ acting = FALSE /\ confirm = FALSE
  /\ awaits = [c \in Awaited |-> Idle] /\ cancelled = FALSE
  /\ owned \in [Xapps -> SUBSET Packages] /\ late = FALSE
  /\ paying \in [xapp : Xapps, package : Packages] \cup {Nobody}

-----------------------------------------------------------------------------
\* A call is sent, and the same function goes on to its next call.
Sent(stage, key, package) ==
  [Idle EXCEPT !.stage = stage, !.of = key, !.package = package]
Then(c, stage) == awaits' = [awaits EXCEPT ![c] = Sent(stage, @.of, @.package)]
Ends(c) == IF c = Effect \/ awaits[c] = Idle THEN Idle ELSE Spent
Over(c) == awaits' = [awaits EXCEPT ![c] = Ends(c)]

\* A render for the xapp x and its installation i: the effects whose dependencies have
\* changed clean up and run again.  The return r is finalized once: its key is kept.
Render(l, x, i, r, mounted) ==
  LET key  == [xapp |-> x, install |-> i]
      new  == r # Nobody /\ (mounted \/ handled # [xapp |-> x, return |-> r])
      reads == mounted \/ <<x, i>> # <<page, install>>
      old  == IF mounted THEN [c \in Awaited |-> Ends(c)] ELSE awaits
  IN /\ page' = x /\ install' = i
     /\ handled' = IF new THEN [xapp |-> x, return |-> r] ELSE IF mounted THEN Nobody ELSE handled
     /\ cancelled' = ~(new /\ r.status = "paid")
     /\ awaits' = [c \in Awaited |->
          IF c = l /\ reads THEN Sent("read", key, Nobody)
          ELSE IF c = Effect /\ new /\ r.status = "paid" THEN Sent("finalize", key, r.package)
          ELSE old[c]]
     /\ return' = [return EXCEPT ![x] = IF new /\ r.status # "paid" THEN Nobody ELSE r]
     /\ CASE ~new -> IF mounted THEN notice' = "none" /\ error' = FALSE
                                ELSE UNCHANGED <<notice, error>>
          [] new /\ r.status = "paid" -> notice' = "finalizing" /\ error' = FALSE
          [] new /\ r.status = "cancelled" -> notice' = "cancelled" /\ error' = FALSE
          [] OTHER -> notice' = "none" /\ error' = TRUE
     /\ late' = FALSE

-----------------------------------------------------------------------------
\* The page is loaded, possibly with the return of the payment it was left for.
Open(l, x, i, r) ==
  /\ page = Nobody /\ awaits[l] = Idle
  /\ r # Nobody => paying = [xapp |-> x, package |-> r.package]
  /\ paying' = Nobody
  /\ Render(l, x, i, r, TRUE)
  /\ shown' = Nobody /\ busy' = Nobody /\ acting' = FALSE /\ confirm' = FALSE
  /\ UNCHANGED owned

\* Another xapp is shown by the same component, with the URL and the installation it has.
Navigate(l, x, i) ==
  /\ page \notin {Nobody, x} /\ awaits[l] = Idle
  /\ Render(l, x, i, return[x], FALSE)
  /\ UNCHANGED <<shown, busy, acting, confirm, owned, paying>>

\* The host names another installation: it has loaded them, or one was added or removed.
InstallationChanges(l, i) ==
  /\ page # Nobody /\ i # install /\ awaits[l] = Idle
  /\ Render(l, page, i, return[page], FALSE)
  /\ UNCHANGED <<shown, busy, acting, confirm, owned, paying>>

\* The tab becomes visible again.
Visible(l) ==
  /\ page # Nobody /\ awaits[l] = Idle
  /\ awaits' = [awaits EXCEPT ![l] = Sent("read", [xapp |-> page, install |-> install], Nobody)]
  /\ UNCHANGED <<page, install, return, handled, shown, display, cancelled, owned, paying, late>>

-----------------------------------------------------------------------------
\* The server handles a call: a read tells the access of this moment; a finalized payment
\* or a cancelled contract changes it, even if the answer is an error.
ServerHandles(c) ==
  LET call == awaits[c] IN
  /\ call.stage \notin {"idle", "over"} /\ call.answer = "none"
  /\ \E answer \in {"ok", "failed"} :
       awaits' = [awaits EXCEPT ![c].answer = answer, ![c].seen = owned[call.of.xapp]]
  /\ owned' \in CASE call.stage = "finalize" ->
                       {[owned EXCEPT ![call.of.xapp] = @ \cup {call.package}]}
                  [] call.stage = "contract" -> {owned, [owned EXCEPT ![call.of.xapp] = @ \cup {Ended}]}
                  [] OTHER -> {owned}
  /\ UNCHANGED <<page, install, return, handled, shown, display, cancelled, paying, late>>

Answered(c, stage) == awaits[c].stage = stage /\ awaits[c].answer = "ok"
Rejected(c, stage) == awaits[c].stage = stage /\ awaits[c].answer = "failed"

\* setMonetization with the answer to a read.
Write(c) ==
  /\ shown' = [of |-> awaits[c].of, owned |-> awaits[c].seen]
  /\ late' = (c # Effect /\ awaits[c].of # [xapp |-> page, install |-> install])

\* refreshMonetization: whatever the page shows by now, the answer is written.
Loaded(l) ==
  /\ \/ Answered(l, "read") /\ Write(l)
     \/ Rejected(l, "read") /\ shown' = Nobody /\ late' = FALSE
  /\ Over(l)
  /\ UNCHANGED <<page, install, return, handled, display, cancelled, owned, paying>>

-----------------------------------------------------------------------------
\* The finalization of a return.

\* Mutant of StillLive: the effect does not look at its flag.
StillLiveAlways == TRUE

\* The effect has not been cleaned up since it began.
StillLive == ~cancelled

ReturnFinalized ==
  /\ Answered(Effect, "finalize")
  /\ Then(Effect, "read")
  /\ UNCHANGED <<page, install, return, handled, shown, display, cancelled, owned, paying, late>>

ReturnShown ==
  /\ Answered(Effect, "read")
  /\ IF StillLive THEN /\ Write(Effect) /\ notice' = "finalized"
                  /\ return' = [return EXCEPT ![page] = Nobody]
             ELSE UNCHANGED <<shown, late, notice, return>>
  /\ Over(Effect)
  /\ UNCHANGED <<page, install, handled, error, busy, acting, confirm, cancelled, owned, paying>>

ReturnFailed ==
  /\ \E stage \in DetailStages : Rejected(Effect, stage)
  /\ IF StillLive THEN notice' = "none" /\ error' = TRUE ELSE UNCHANGED <<notice, error>>
  /\ Over(Effect)
  /\ UNCHANGED <<page, install, return, handled, shown, busy, acting, confirm, cancelled, owned,
                 paying, late>>

-----------------------------------------------------------------------------
\* A checkout of a package that is listed and not owned, as far as the page knows.
StartCheckout(c, p) ==
  /\ page # Nobody /\ awaits[c] = Idle
  /\ shown # Nobody /\ p \notin shown.owned
  /\ busy # p
  /\ busy' = p /\ error' = FALSE /\ notice' = "none"
  /\ awaits' = [awaits EXCEPT ![c] = Sent("prepare", [xapp |-> page, install |-> install], p)]
  /\ UNCHANGED <<page, install, return, handled, shown, acting, confirm, cancelled, owned,
                 paying, late>>

Prepared(c) ==
  /\ c \in Checkouts /\ Answered(c, "prepare")
  /\ Then(c, "create")
  /\ UNCHANGED <<page, install, return, handled, shown, display, cancelled, owned, paying, late>>

\* The page is left for the payment page.
Redirected(c) ==
  /\ Answered(c, "create")
  /\ page' = Nobody /\ install' = Nobody
  /\ paying' = [xapp |-> awaits[c].of.xapp, package |-> awaits[c].package]
  /\ return' = [x \in Xapps |-> Nobody] /\ handled' = Nobody /\ shown' = Nobody
  /\ notice' = "none" /\ error' = FALSE /\ busy' = Nobody /\ acting' = FALSE /\ confirm' = FALSE
  /\ awaits' = [d \in Awaited |-> Ends(d)] /\ cancelled' = FALSE /\ late' = FALSE
  /\ UNCHANGED owned

\* The session is paid and has no page.
PaidAlready(c) ==
  /\ Answered(c, "create")
  /\ notice' = "finalizing" /\ error' = FALSE
  /\ Then(c, "finalize")
  /\ UNCHANGED <<page, install, return, handled, shown, busy, acting, confirm, cancelled, owned,
                 paying, late>>

Purchased(c) ==
  /\ c \in Checkouts /\ Answered(c, "finalize")
  /\ Then(c, "read")
  /\ UNCHANGED <<page, install, return, handled, shown, display, cancelled, owned, paying, late>>

\* finalizeCurrentUserCheckoutIntent writes what it read for the page it began on.
PurchaseShown(c) ==
  /\ c \in Checkouts /\ Answered(c, "read")
  /\ Write(c) /\ notice' = "finalized" /\ busy' = Nobody
  /\ Over(c)
  /\ UNCHANGED <<page, install, return, handled, error, acting, confirm, cancelled, owned, paying>>

\* A request fails, or the session has neither a page nor a payment.
CheckoutFailed(c) ==
  /\ c \in Checkouts
  /\ Answered(c, "create") \/ \E stage \in DetailStages : Rejected(c, stage)
  /\ error' = TRUE /\ busy' = Nobody
  /\ Over(c)
  /\ UNCHANGED <<page, install, return, handled, shown, notice, acting, confirm, cancelled,
                 owned, paying, late>>

-----------------------------------------------------------------------------
\* The subscription.  Its buttons are disabled while one of them acts; the dialog's is not.

AskCancel ==
  /\ page # Nobody /\ shown # Nobody /\ ~acting /\ ~confirm
  /\ confirm' = TRUE
  /\ UNCHANGED <<page, install, return, handled, shown, notice, error, busy, acting, awaits,
                 cancelled, owned, paying, late>>

DismissCancel ==
  /\ confirm /\ confirm' = FALSE
  /\ UNCHANGED <<page, install, return, handled, shown, notice, error, busy, acting, awaits,
                 cancelled, owned, paying, late>>

ChangeSubscription(c) ==
  /\ page # Nobody /\ awaits[c] = Idle
  /\ shown # Nobody /\ shown.owned # {}
  /\ confirm \/ ~acting
  /\ acting' = TRUE
  /\ awaits' = [awaits EXCEPT ![c] =
                  Sent("contract", [xapp |-> page, install |-> install], Nobody)]
  /\ UNCHANGED <<page, install, return, handled, shown, notice, error, busy, confirm, cancelled,
                 owned, paying, late>>

\* Then refreshMonetization and refreshMonetizationHistory as they were at the click.
SubscriptionChanged(c) ==
  /\ c \in Changes
  /\ \/ Answered(c, "contract") /\ Then(c, "read") /\ UNCHANGED <<shown, late>>
     \/ Answered(c, "read") /\ Then(c, "history") /\ Write(c)
     \/ Rejected(c, "read") /\ Then(c, "history") /\ shown' = Nobody /\ late' = FALSE
  /\ UNCHANGED <<page, install, return, handled, display, cancelled, owned, paying>>

ChangeOver(c) ==
  /\ c \in Changes
  /\ \/ Rejected(c, "contract") /\ UNCHANGED confirm
     \/ (Answered(c, "history") \/ Rejected(c, "history")) /\ confirm' \in {confirm, FALSE}
  /\ acting' = FALSE
  /\ Over(c)
  /\ UNCHANGED <<page, install, return, handled, shown, notice, error, busy, cancelled, owned,
                 paying, late>>

-----------------------------------------------------------------------------
Proceed(c) ==
  \/ ServerHandles(c)
  \/ c \in Loads /\ Loaded(c)
  \/ c = Effect /\ (ReturnFinalized \/ ReturnShown \/ ReturnFailed)
  \/ Prepared(c) \/ Redirected(c) \/ PaidAlready(c) \/ Purchased(c) \/ PurchaseShown(c)
  \/ CheckoutFailed(c) \/ SubscriptionChanged(c) \/ ChangeOver(c)

DetailNext ==
  \/ \E l \in Loads :
       \/ \E i \in Installations \cup {Nobody} :
            \/ \E x \in Xapps, r \in Paid \cup {Nobody} : Open(l, x, i, r)
            \/ \E x \in Xapps : Navigate(l, x, i)
            \/ InstallationChanges(l, i)
       \/ Visible(l)
  \/ \E c \in Checkouts, p \in Packages : StartCheckout(c, p)
  \/ AskCancel \/ DismissCancel
  \/ \E c \in Changes : ChangeSubscription(c)
  \/ \E c \in Awaited : Proceed(c)

\* The server answers every call, with a result or an error.
DetailFairness == \A c \in Awaited : WF_detailVars(Proceed(c))

DetailSpec == DetailInit /\ [][DetailNext]_detailVars /\ DetailFairness

-----------------------------------------------------------------------------
\* The page shows the access for another xapp or installation than its own only while its
\* own read is under way, or because a call begun before the change ended after it: a
\* read, a checkout or a change of the subscription, which write in any case.  The effect
\* that finalizes a return never does.
AccessCurrent ==
  LET here == [xapp |-> page, install |-> install] IN
  shown # Nobody /\ shown.of # here =>
    late \/ \E l \in Loads : awaits[l].stage = "read" /\ awaits[l].of = here

\* The test of the page says that it "finalizes a paid monetization return and refreshes
\* current access automatically": once the server has answered that the payment of the
\* return is finalized, the page that is not left shows what was bought or an error.
AccessRefreshed ==
  \A x \in Xapps, p \in Packages :
    (/\ Answered(Effect, "finalize") /\ awaits[Effect].package = p
     /\ page = x /\ awaits[Effect].of.xapp = x)
      ~> (page # x \/ error \/ (shown # Nobody /\ p \in shown.owned))
=============================================================================
