----------------------------- MODULE WidgetBridge -----------------------------
(***************************************************************************)
(* The bridge of widget-sdk (createBridge): how the code of a widget, in   *)
(* its iframe, calls the host page by messages and gets its answers back.  *)
(*                                                                         *)
(* A call of sendRequest is a promise, an entry of the pending map under a *)
(* fresh id and a timer.  getContext is different: all its callers wait on *)
(* one promise, without a timer, for any context the host posts.           *)
(*                                                                         *)
(* The host is what the hosts of this repository (XappsHost of embed-sdk,  *)
(* WidgetView of marketplace-ui) and the integrations behind them do to a  *)
(* widget: serve a message at any later time, in any order, or not at all. *)
(* Messages in flight are sets: nothing depends on the order of delivery.  *)
(* Broadcasts only call listeners and are left out, except TOKEN_REFRESH,  *)
(* which is also the answer to requestTokenRefresh.                        *)
(***************************************************************************)
EXTENDS Naturals

CONSTANTS
  Requests,    \* calls of sendRequest, each with its own id
  Refreshes,   \* those made by requestTokenRefresh
  Waits        \* calls of getContext

ASSUME RequestsAssumption == Refreshes \subseteq Requests

VARIABLES
  embedded,    \* the widget runs in an iframe (parentWindow # window)
  destroyed,   \* destroy() was called
  pending,     \* the ids in the pending map
  timers,      \* the calls whose timeout is running
  promise,     \* how the promise of a call stands
  cached,      \* contextCache is set
  current,     \* the getContext calls on the promise that resolveContext settles
  wait,        \* how the promise of a getContext call stands
  toHost,      \* messages on their way to the host
  serving,     \* calls the host is working on
  toWidget,    \* messages on their way to the widget
  served,      \* history: calls the host answered with a result
  heard        \* history: calls whose answer came while they were pending

bridge   == <<embedded, destroyed>>
callVars == <<pending, timers, promise>>
context  == <<cached, current, wait>>
hostEnd  == <<toHost, serving, toWidget>>
history  == <<served, heard>>
bridgeVars == <<bridge, callVars, context, hostEnd, history>>

-----------------------------------------------------------------------------
Handshake == "handshake"

\* What the host may answer to a call: its result, the result with ok = false,
\* an XAPPS_ERROR, or a message of another type with the id of the call.
Forms == {"result", "refused", "error", "unexpected"}

Answers == [type : Forms, id : Requests]
TokenRefreshes == [type : {"refresh"}, id : Refreshes]
\* A context without the ids that toWidgetContext requires is ignored.
Contexts == [type : {"context", "partial"}]
ContextMessage == [type |-> "context"]

Outcomes == {"resolved", "refused", "error", "unexpected", "timeout", "destroyed",
             "unavailable"}
WaitOutcomes == {"context", "standalone", "failed"}

\* Mutants of OutcomeOf: the form is taken for the outcome; a result with ok = false
\* is not an outcome.
OutcomeOfForm(form) == form
OutcomeOfOk(form) == IF form = "result" THEN "resolved" ELSE IF form = "refused" THEN "open" ELSE form

\* The outcome of a call that gets an answer of this form.
OutcomeOf(form) == IF form = "result" THEN "resolved" ELSE form

\* Mutant of Settle: the promise is forgotten with the entry.
SettleForgotten(c, outcome) ==
  /\ pending' = pending \ {c}
  /\ timers' = timers \ {c}
  /\ UNCHANGED promise

\* clearTimeout, pending.delete, and the promise is settled.
Settle(c, outcome) ==
  /\ pending' = pending \ {c}
  /\ timers' = timers \ {c}
  /\ promise' = [promise EXCEPT ![c] = outcome]

\* post is silent outside an iframe and once the bridge is destroyed.
Post(message) ==
  toHost' = IF embedded /\ ~destroyed THEN toHost \cup {message} ELSE toHost

-----------------------------------------------------------------------------
BridgeTypeOK ==
  /\ embedded \in BOOLEAN /\ destroyed \in BOOLEAN /\ cached \in BOOLEAN
  /\ pending \subseteq Requests /\ timers \subseteq Requests
  /\ promise \in [Requests -> {"none", "open"} \cup Outcomes]
  /\ current \subseteq Waits
  /\ wait \in [Waits -> {"none", "open", "orphan"} \cup WaitOutcomes]
  /\ toHost \subseteq Requests \cup {Handshake}
  /\ serving \subseteq Requests
  /\ toWidget \subseteq Answers \cup TokenRefreshes \cup Contexts
  /\ served \subseteq Requests /\ heard \subseteq Requests

BridgeInit ==
  /\ embedded \in BOOLEAN
  /\ destroyed = FALSE
  /\ pending = {} /\ timers = {}
  /\ promise = [c \in Requests |-> "none"]
  /\ cached = FALSE /\ current = {}
  /\ wait = [w \in Waits |-> "none"]
  \* The handshake of createBridge, unless autoHandshake is off.
  /\ toHost \in (IF embedded THEN {{}, {Handshake}} ELSE {{}})
  /\ serving = {} /\ toWidget = {}
  /\ served = {} /\ heard = {}

-----------------------------------------------------------------------------
\* The calls of the widget.

SendRequest(c) ==
  /\ promise[c] = "none"
  /\ IF embedded
     THEN /\ pending' = pending \cup {c}
          /\ timers' = timers \cup {c}
          /\ promise' = [promise EXCEPT ![c] = "open"]
     ELSE /\ promise' = [promise EXCEPT ![c] = "unavailable"]
          /\ UNCHANGED <<pending, timers>>
  /\ Post(c)
  /\ UNCHANGED <<bridge, context, serving, toWidget, history>>

\* Mutant of Joined: every call of getContext makes a promise of its own.
JoinedAlone(w) == {w}

\* The callers that share contextPromise once w has joined them.
Joined(w) == current \cup {w}

\* After destroy a new promise is made, but the context no longer arrives.
GetContext(w) ==
  /\ wait[w] = "none"
  /\ \/ /\ cached
        /\ wait' = [wait EXCEPT ![w] = "context"]
        /\ UNCHANGED <<current, toHost>>
     \/ /\ ~cached /\ ~embedded
        /\ wait' = [wait EXCEPT ![w] = "standalone"]
        /\ UNCHANGED <<current, toHost>>
     \/ /\ ~cached /\ embedded
        /\ wait' = [wait EXCEPT ![w] = IF destroyed THEN "orphan" ELSE "open"]
        /\ current' = IF destroyed THEN current ELSE Joined(w)
        /\ Post(Handshake)
  /\ UNCHANGED <<bridge, callVars, cached, serving, toWidget, history>>

\* Mutant of Unsettled: the calls that the host is serving are left to it.
UnsettledUnserved == pending \ serving

\* The calls that failPending rejects.
Unsettled == pending

DestroyBridge ==
  /\ ~destroyed
  /\ destroyed' = TRUE
  /\ pending' = pending \ Unsettled
  /\ timers' = timers \ pending
  /\ promise' = [c \in Requests |-> IF c \in Unsettled THEN "destroyed" ELSE promise[c]]
  /\ wait' = [w \in Waits |-> IF w \in current THEN "failed" ELSE wait[w]]
  /\ current' = {}
  /\ UNCHANGED <<embedded, cached, hostEnd, history>>

TimeOut(c) ==
  /\ c \in timers
  /\ Settle(c, "timeout")
  /\ UNCHANGED <<bridge, context, hostEnd, history>>

-----------------------------------------------------------------------------
\* onMessage: once the bridge is destroyed its listener is gone.

\* Mutant of CallOf: an answer settles any call that is pending.
AnyCallOf(c) == IF pending = {} THEN c ELSE CHOOSE d \in pending : TRUE

\* The call that an answer with the id of c is correlated with.
CallOf(c) == c

DeliverAnswer(c, form) ==
  LET message == [type |-> form, id |-> c] IN
  /\ message \in toWidget
  /\ toWidget' = toWidget \ {message}
  /\ \/ /\ ~destroyed /\ CallOf(c) \in pending
        /\ Settle(CallOf(c), OutcomeOf(form))
        /\ heard' = heard \cup {c}
     \/ /\ destroyed \/ CallOf(c) \notin pending
        /\ UNCHANGED <<callVars, heard>>
  /\ UNCHANGED <<bridge, context, toHost, serving, served>>

\* The token goes to the context and the listeners; the id is not looked at.
DeliverTokenRefresh(c) ==
  LET message == [type |-> "refresh", id |-> c] IN
  /\ message \in toWidget
  /\ toWidget' = toWidget \ {message}
  /\ heard' = IF ~destroyed /\ c \in pending THEN heard \cup {c} ELSE heard
  /\ UNCHANGED <<bridge, callVars, context, toHost, serving, served>>

DeliverContext(message) ==
  /\ message \in toWidget \cap Contexts
  /\ toWidget' = toWidget \ {message}
  /\ IF ~destroyed /\ message = ContextMessage
     THEN /\ cached' = TRUE
          /\ wait' = [w \in Waits |-> IF w \in current THEN "context" ELSE wait[w]]
          /\ current' = {}
     ELSE UNCHANGED context
  /\ UNCHANGED <<bridge, callVars, toHost, serving, history>>

-----------------------------------------------------------------------------
\* The host.

\* WidgetView posts a full context once it has a widget token, XappsHost one
\* without installation, client and xapp, both on the handshake.
AnswerHandshake(message) ==
  /\ Handshake \in toHost
  /\ toHost' = toHost \ {Handshake}
  /\ toWidget' = toWidget \cup {message}
  /\ UNCHANGED <<bridge, callVars, context, serving, history>>

TakeUp(c) ==
  /\ c \in toHost
  /\ toHost' = toHost \ {c}
  /\ serving' = serving \cup {c}
  /\ UNCHANGED <<bridge, callVars, context, toWidget, history>>

\* A host without a handler for the message, or not listening yet, drops it.
Ignore(m) ==
  /\ m \in toHost
  /\ toHost' = toHost \ {m}
  /\ UNCHANGED <<bridge, callVars, context, serving, toWidget, history>>

AnswerRequest(c, form) ==
  /\ c \in serving
  /\ c \in Refreshes => form = "error"
  /\ serving' = serving \ {c}
  /\ toWidget' = toWidget \cup {[type |-> form, id |-> c]}
  /\ served' = IF form = "result" THEN served \cup {c} ELSE served
  /\ UNCHANGED <<bridge, callVars, context, toHost, heard>>

\* The token is minted; the answer has the id and the type the widget asked for.
AnswerRefresh(c) ==
  /\ c \in serving \cap Refreshes
  /\ serving' = serving \ {c}
  /\ toWidget' = toWidget \cup {[type |-> "refresh", id |-> c]}
  /\ served' = served \cup {c}
  /\ UNCHANGED <<bridge, callVars, context, toHost, heard>>

\* WidgetView answers a failed refresh with a broadcast only.
GiveUpRefresh(c) ==
  /\ c \in serving \cap Refreshes
  /\ serving' = serving \ {c}
  /\ UNCHANGED <<bridge, callVars, context, toHost, toWidget, history>>

Deliver ==
  \/ \E c \in Requests, form \in Forms : DeliverAnswer(c, form)
  \/ \E c \in Refreshes : DeliverTokenRefresh(c)
  \/ \E message \in Contexts : DeliverContext(message)

Serve ==
  \/ \E message \in Contexts : AnswerHandshake(message)
  \/ \E c \in Requests : TakeUp(c)
  \/ \E m \in Requests \cup {Handshake} : Ignore(m)
  \/ \E c \in Requests, form \in Forms : AnswerRequest(c, form)
  \/ \E c \in Refreshes : AnswerRefresh(c) \/ GiveUpRefresh(c)

BridgeNext ==
  \/ \E c \in Requests : SendRequest(c) \/ TimeOut(c)
  \/ \E w \in Waits : GetContext(w)
  \/ DestroyBridge
  \/ Deliver
  \/ Serve

BridgeSpec == BridgeInit /\ [][BridgeNext]_bridgeVars

\* A timer that is not cleared fires.
BridgeFairSpec == BridgeSpec /\ \A c \in Requests : WF_bridgeVars(TimeOut(c))

-----------------------------------------------------------------------------
\* A promise that is still open is known to the pending map and has a timer, and
\* no other call has one: no call hangs and no entry or timer is left behind, also
\* for calls made after destroy (sendRequest, failPending, onMessage).
NothingForgotten ==
  \A c \in Requests :
    /\ promise[c] = "open" <=> c \in pending
    /\ promise[c] = "open" <=> c \in timers

\* A call resolves only on the result the host gave to that very call, whatever
\* else is in flight, late or answered after a timeout.
AnswersNotCrossed ==
  \A c \in Requests : promise[c] = "resolved" => c \in served

\* Whoever waits for the context is on the promise that the next context settles:
\* with a context in the cache, or after destroy, nobody is left there.
WaitersReachable ==
  \A w \in Waits :
    wait[w] = "open" => w \in current /\ ~cached /\ ~destroyed

\* An answer that comes in time is the outcome of its call: the call neither stays
\* open nor times out nor is failed by destroy.
Counts(c) == c \in heard => promise[c] \in {"resolved", "refused", "error", "unexpected"}
AnswerCounts == \A c \in Requests \ Refreshes : Counts(c)

\* requestTokenRefresh is a call like the others: the token the host sends with its
\* id, of the type it expects, is its answer.
RefreshCounts == \A c \in Refreshes : Counts(c)

\* Every call settles, also when the host never answers or the bridge is gone.
CallsSettle == \A c \in Requests : promise[c] = "open" ~> promise[c] # "open"
=============================================================================
