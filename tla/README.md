# Verification of the xapps SDK

TLA+ models of the parts of this repository whose correctness depends on what
happens between two steps: host sessions and their records in files and in Redis,
the lock around the file store, the message bridge of a widget, the host page with
its frames and overlays, the browser's session with the host's backend, payments
and callbacks. TLC checks the models on small instances, TLAPS proves the main
invariants for all sizes.

Contents: [inventory](#inventory) · [modules](#modules-and-their-code) ·
[runs](#runs) · [fairness](#fairness) · [proofs](#proofs) ·
[findings](#findings) · [not modelled](#not-modelled) · [plan](#plan)

## Inventory

Paths are below `src/packages/`. The packages form three sides: the *tenant
backend* (backend-kit over server-sdk), the *host page* in the browser
(browser-host, xapps-embed-sdk, marketplace-ui) and the *widget* in an iframe
(widget-sdk, widget-runtime). The platform's gateway is outside the repository.

| component | state it keeps | operations | what is hard | what makes it correct |
|---|---|---|---|---|
| Host session routes (`backend-kit/src/backend/routes/gateway/hostApiCore.ts`, `shared.ts`) | none of their own: signed tokens in cookies, records in a store | bootstrap, exchange, every authenticated route, logout | handlers of one session interleave at each awaited store call, on several replicas | one session per bootstrap token; a logout is final; nobody is refused without a reason |
| File host store (`fileHostStore.ts`) | three JSON files, a lock file each, an in-memory queue per file | consumeJti, activate, touch, isRevoked, revoke | takeover of stale locks, late heartbeats, crashes, processes that share a directory | mutual exclusion, no lost update, every call ends, a dead owner's lock goes |
| Redis host store (`redisHostStore.ts`) | keys with EX | the same | atomicity is that of one command or script; fallback when EVAL is missing; retried SET NX | as the file store |
| Widget bridge (`widget-sdk/src/index.ts`) | pending map, timers, cached context, one context promise | sendRequest and its callers, getContext, onMessage, destroy | answers come late, wrong, crossed or never; destroy at any time | every call settles once, on its own answer; no caller is cut off |
| Catalog host (`xapps-embed-sdk/src/catalogHost.ts`, `hostUiBridge.ts`, `hostExpandOverlay.ts`) | frames, their sessions and tokens, overlays and what closes them, the return of a payment, expand state | openWidget, onMessage, guards, plans, expand, destroy | calls overlap at their awaits; state read before an await and used after it; overlays displace each other | frame, token and named widget belong together; no overlay or call is orphaned; a host finalizes a paid return once; shells show the stage their frame has |
| Embed host (`embedHost.ts`, `paymentReturn.ts`, `guardTakeover.ts`) | mounted panels, the resume target of a payment | mount, resumeWidget, guard takeover | resume across remounts and failed opens | a resume target is given up only for a widget on the screen |
| Payment handler (`server-sdk/src/paymentHandler.ts`, `backend-kit/.../paymentRuntime.ts`) | payment sessions in a store | page session, completion, evidence verification, gateway mirror | get and set are separate awaits; in-memory objects are shared, others are copies; sessions are pruned | a payment lets one request through; a session is completed once |
| Gateway and publisher clients (`server-sdk/src/*ApiClient.ts`) | none | HTTP calls, retries, timeouts | retry of a call that was applied | with an idempotency key it is done once |
| Backend modes, XMS, references (`backend-kit/src/backend/*`) | configuration; purchases at the gateway | options and modules, purchase reconciliation, payment policy | reconciliation of late provider events | a purchase is activated once |
| Browser host (`browser-host/src/*`) | identity and its bootstrap token in memory and local storage, session flag, shared refresh and exchange; overlays | mount, exchange, refresh, API calls, logout | refresh, exchange and logout each set what the others read; reloads | a bootstrap token that was exchanged is gone everywhere |
| Widget runtime (`widget-runtime/src/*`) | session, request, busy flag | useWidgetSession, UI bridge | a refresh skipped while another is under way; event stream | state belongs to the current widget |
| Marketplace UI (`marketplace-ui/src/*`) | pages, payment lock, expand requests | WidgetView, detail and request pages | host messages during renders; timers of nested expansion | a widget gets the answers to its calls |
| Manifest and pure algorithms (`xapp-manifest`, `platform-i18n`, `openapi-import`) | none | parsing, validation, cross references, locale resolution | sequential | accepted manifests have no dangling references |
| Command line and signing (`xapps-cli`, `signing-client`, `publisher-verifier`) | files | commands | sequential | — |

How they meet: the host page obtains a bootstrap token from its backend, which
exchanges it for a session cookie (routes → store). It opens a widget session at
the gateway and mounts the widget's iframe; from then on widget and host only
exchange `postMessage` messages (bridge ↔ host). A guarded tool sends the user
to a hosted payment page; the page completes the payment session and returns
with signed evidence, which a policy has the payment handler verify.

`PROJECT.json` lists the hazards found on the way, each at its line, with the
properties that cover it.

## Modules and their code

Each component has a module; the modules `…Proofs` have the theorems, OverlayProofs
those of both overlays, PageProofs those of SurfaceSession, CallbackClient and
DetailPage. A module `MC…` has the small instances. In `PROJECT.json`, `map` names the lines of every definition.

**HostSession** — handlers of `hostApiCore.ts` over the records of either store.
`req[r].pc` is the await at which handler `r` stands. One store call is one
action: `ConsumeBootstrap`, `ActivateSession`, `CheckRevoked`, `TouchSession`,
`RevokeSession`, `DeleteState` (a second file, hence a second action, in the
file store only). A record `[jti |-> expiry]` is a function to the second it
lapses; `Pruned` is what a file write drops, `Expired` what Redis expires. Reply
and cookie are one: a session is `delivered` when the handler has answered.
`StepFails` lets any store call throw before its effect.

**FileStateLock** — inside one such store call: `runWithFileStateQueue` and
`acquireFileStateLock`. Each `await` of the code is a boundary between actions:
`OpenLock` (`open` with `wx`), `StampLock`, `FindLock` (EEXIST), `JudgeStale`
(read and judge), `Steal` (unlink *the path*, whoever owns it by then),
`ReadState`, `WriteState`, `Release`. Processes start and crash; a restart is
another process, possibly with the same pid. Times are ages that stop growing
where the code stops telling them apart.

**WidgetBridge** — `createBridge`: `pending`, `timers` and `promise` for calls,
`cached`, `current` and `wait` for `getContext`. The hosts (`XappsHost`,
`WidgetView`) are the actions under "The host": they serve messages at any time,
in any order, wrongly or not at all. Messages in flight are sets; nothing in the
bridge depends on their order.

**PaymentHandler** — one payment session. The in-memory store hands out the
object it keeps, any other store a copy: `heap` holds the objects and `stored`,
`task[h].ref` the references, so that "two handlers share an object" and "a
handler writes an old copy back" are both behaviours. `Read`, `Fetch`, `Merge`,
`AskSettlement` and `Settle` are the awaits of `handleGetSession`,
`handleComplete` and `handleVerifyEvidence`; what runs between two awaits is one
action. `config` is the deployment: store, gateway, settlement callback.

**PaymentOnce** — what a payment session promises: nothing is granted without a
paid receipt, and, where single use is promised, one request. PaymentHandler
implements it (`KeepsPromise`) with the completions that signed a paid receipt as
`receipts` and the accepted verifications as `granted`. It promises single use
where the session is in memory and no gateway can bring it back (`Alone`).

**CatalogHost** — `XappsHost` of `catalogHost.ts` with the standard runtime of
`embedHost.ts` around it. The fields of a host (`catalogIframe`, `widgetIframe`,
`widgetContext`, `activeWidget`) hold the mount or the open they came from, so
that "the token of another widget's session" is a state. `stage[c]` is the await
at which a call stands: the server, the profile overlay of a guard, the guard
widget, the session that `resumeWidget` asks for itself. `Remount` is the runtime's
`mount`: destroy, empty the panel, ask for the new catalog, all before the first
await; answers to calls on a destroyed host still come (`MountAnswered`, `Show`), as
the code does not look. `Settled` is what closing an overlay does to the call that
waits for it.

**PlansOverlay** — `openMonetizationPlans`. Every `renderState`, checkout and
subscription change is a task that goes on at its own pace, closed overlay or not.
`url` is the return in the query string and belongs to the page; `handled[h]` is the
key that host `h` remembers, `overlay[h]` what its `activePlansOverlayCleanup` closes.
A navigation keeps the URL and loses the rest (`NewPage`). `Remount` is the runtime's
`mount` in the same page: the host is destroyed, which closes its overlay, and the
next one starts with an empty key, while the tasks of the former go on with theirs
(`task[t].host`). The new host's mount opens the plans for the return that the URL
still carries (`CatalogMounted`), and so does the mount of a destroyed host that was
under way, as the code looks at `destroyed` only when it begins; overlays of two hosts
are then on the page. Which intents are prepared and finalized is the server's.

**ExpandOverlay** — `createHostExpandOverlayController` and the shell in
`WidgetView.tsx`. `run[r]` is the await of `setStage`; the browser changes
`document.fullscreenElement` and fires `fullscreenchange` (`BecomeFullscreen`)
before the run goes on (`Resume`). A shell shows what it asked for at once, its
entry goes from "waiting" to "late" after 1200 ms and is dropped 4000 ms later
(`TimeOut`, `Forget`). The history `missed` names the shells that were not told;
`ShellAgrees` is about the others.

**RedisHostStore** and **SessionStore** — `touch`, `revoke` and the replay consumer
command by command. `redisEval` tries three argument forms and `redisSetWithEx` and
`redisSetWithNxEx` two; each may be applied and throw all the same. Without EVAL,
`touch` is `isRevoked`, `read`, `recheck`, `write`, `confirm`. SessionStore is what
the routes need of it: a touch that began with the token alive is let through only
while the session is not revoked, and who is told of a revocation can rely on it.
RedisHostStore implements it (`StorePromise`): the session is "over", "revoked" or
"live" by the clock and the revocation record, a call is open from its start to its
answer.

**SurfaceSession** — `mountXappsSurface`: `currentIdentity`, the stored identity,
`useHostSession`, and the two shared promises `refreshInFlight` and
`exchangeHostSessionInFlight`. Calls that get a 401 wait at "token" or "session" and
go on together. The host's server is external: it issues tokens and consumes each
once. A refresh given by the application may or may not write the storage. An identity
given by the application is assumed to have a new token: the code keeps and sends the
one it is given at every mount (`embed-surface.ts:318`), spent or not.

**DetailPage** — the monetization of `XappDetailPage.tsx`. `awaits[c]` is the await
at which an effect, a checkout or a change of the subscription stands, with the xapp
and the installation of the render that began it (`of`), as the closures of the code
have them. `Render` is a render with the effects whose dependencies changed: the read
of the access, and the finalization of the return in the URL with its key `handled`
and its cleanup flag `cancelled`. A call is `Write`n to the page whatever the page
shows by then; `late` is the history of that. The server (`ServerHandles`) is
external: a payment may be finalized although the answer is an error. The user has a
subject; the catalog data of the page and the error line of the subscription are left
out.

**CallbackClient** — `postJson`: attempts, delays, the classes of failures. Earlier
attempts stay on their way to the gateway, which is external and does what has one
Idempotency-Key once.

## Runs

Deadlock is checked except in the WidgetTokenRefresh, DetailReturn, HostPage and
HostParts runs, where
everything may have settled or been destroyed. History variables (`minted`, `everRevoked`, `served`, …) are read by
properties only.

| run | instance | checks |
|---|---|---|
| HostSessionRedis | 2 handlers, 1 bootstrap token, 2 sessions, with and without idle expiry, clock to 5 | `SingleMint`, `RevocationFinal`, `RevocationOutlivesToken`, `RequestsAnswered` |
| HostSessionFile | 2 handlers, 2 tokens, 2 sessions, idle expiry | `RevocationFinal`, `NoResurrection` of a revoked state by a late touch, `IdleWindow`, `NoSpuriousReject` |
| HostSessionFileReplay | the file records, a handler in flight for a second | *violates* `SingleMint` |
| FileLockOneProcess | 3 calls in 2 processes, one alive at a time, crashes, heartbeats late | `Exclusion`, `NoLostUpdate`, `CallsEnd`, `DeadLockReclaimed` |
| FileLockLostUpdate | two processes alive, timely heartbeats | *violates* `NoLostUpdate` |
| FileLockPidReused | the restarted process has the dead one's pid | *violates* `DeadLockReclaimed` |
| WidgetTokenRefresh | a call, a token refresh, two `getContext` callers | *violates* `RefreshCounts` |
| PaymentSessions | 4 requests; in memory with and without callback, or another store with a gateway | `SingleUseAlone`, `OneReceipt`, `KeepsPromise`, `UsedIsFinal`, `PaidIsHonoured` |
| PaymentReuse | 3 requests; in memory with a gateway, as backend-kit sets it up | *violates* `SingleUse` |
| DetailReturn | 1 xapp, an installation that comes late, 2 reads, nothing clicked | *violates* `AccessRefreshed` |
| HostPage | 2 hosts, one with a panel, 2 mounts, an install and a resume; 2 API calls and 3 tokens; 2 callbacks, one with a key; a call, a token refresh and two `getContext` callers against any host; 2 xapps, an installation, a package, 2 reads and a click | `FrameMatchesSession`, `OverlayReachable`, `ResumeNotLost`, `OpensSettle`; `NothingForgotten`, `AnswersNotCrossed`, `WaitersReachable`, `AnswerCounts`, `CallsSettle`; `TokenSpent`; `CallbackOnce`; `AccessCurrent` |
| HostParts | 2 frames, one in place, 2 requests or one and a click; 2 plan overlays, 2 tasks, 2 intents, 2 hosts mounted in a page; 2 touches, a revoke, 2 consumers, token over at 2, clock to 3 | `FramesInPlace`, `ShellAgrees`, `FinalizeOnce`, `EvidenceKept`, `ConsumedOnce`, `StorePromise` |

Each passing run also checks its module's `TypeOK` (HostSession's in the first
run, `PageTypeOK` and `PartsTypeOK` for the parts of the last two). HostPage and
HostParts put several modules into one run: they share no variable, and `part` says
which of them moves in a behaviour, so that each is explored with its own bounds.

*Bounds.* Two handlers are enough for a race of two, and the third party of the
longer ones (a token, a session, a process) is a value of its own. The clock
runs to one or two ticks beyond the longest lifetime, so that every record
lapses within the run. FileStateLock needs no bound on time. Two calls are
enough for answers to be crossed; the refresh stands for the call whose answer is
a broadcast as well. Four payment requests are two completions and two
verifications, or a view in the middle of them; the lifetimes in `PaymentSessions`
let a session expire and a used one be pruned before the clock stops. In
HostSession, `MaxLatency` bounds how long a handler is in flight; the clock waits
for a handler that has reached it.

In HostPage, two opens are enough for the slower one to come second, for one
overlay to displace the other, and for a resume to meet an install; two hosts for
answers to a destroyed one, and the one without a panel for the way through the
catalog frame. `MaxTokens` is 3, see the cfg: one at the mount, one for a renewal
and one for a reload. On the detail page two reads are one before and one after a change of
xapp or installation, and every call is made once. The user either has nothing and
buys, by a click or by the return of one (`MCBuys`), or has the xapp and changes the
subscription (`MCSubscribed`); the installation comes after the page (`MCPageFirst`).
In HostParts, two requests cross in every order of asking,
awaiting and answering (`ExpandBound` makes the first be `q1`, as requests are alike,
and allows a click instead of the second); the proofs have no such bound. Two tasks
render at once, in one overlay or in two, of one host or of two; two intents are two
checkouts one after the other. A page is mounted again while its URL carries a paid
return, and no history tab is shown then (`PlansBound`): without the return a remount
leaves nothing to finalize, and the tab is not read by what finalizes. The proofs have
no such bounds. Touches are alike, and so are overlays, tasks and intents: hence the
symmetry. The clock passes the session's end and
the fallback lifetime is as long as the token's, so that records written late lapse
within the run.

## Fairness

Safety is checked of `Init /\ [][Next]_vars`. The liveness properties assume only
what the runtime does by itself:

- HostSession: weak fairness of each handler's step. An awaited store call or a
  gateway call settles, with a result or an error. `StepFails` is one of the
  steps, so success is not assumed; nothing makes requests come.
- FileStateLock: weak fairness of a live task's step (a promise that can settle
  does; file operations end) and of `Tick`. None of heartbeats, starts, crashes
  or new calls: a process may never come back, and then `CallsEnd` holds because
  its calls ended with it. `DeadLockReclaimed` is conditional on calls running
  into the lock again and again, as nothing else looks at it.
- WidgetBridge: weak fairness of `TimeOut`: a timer that is not cleared fires.
  None of the host.
- DetailPage (in DetailReturn): weak fairness of `Proceed(c)`: the server answers
  every call, with a result or an error.
- CatalogHost (in HostPage): weak fairness of `Continue(o)` for every open: the
  server answers or fails, and the user ends the overlay that is shown, with a
  resolution or without. That an overlay *is* shown is not assumed:
  `OpensSettle` fails when a displaced overlay goes without settling its call.

## Proofs

`tlapm` checks every proof; what they assume is in the statements and in the
named assumptions on the constants.

- **HostSessionProofs.** `TypeCorrect`; `RevocationRecordHolds` for every
  lifetime; `MintOnce` and `LogoutIsFinal` assuming `Grace >= MaxLatency`. Neither
  is inductive by itself. `RecordsCover` says that a record written for a token
  counts at least as long as the token plus the grace; `HandlersFresh` that a
  handler verified its token when it was valid and at most `MaxLatency` ago.
  Together a second handler always finds the record of the first in force:
  `OneHolder` and `LateStops` carry that through the handlers' steps. The file
  store has no grace, and there the argument ends for the bootstrap tokens: see
  HostSessionFileReplay. A logout is final there too, if sessions have an idle
  expiry (`LogoutIsFinalWithIdle`): a late request that finds the record gone is in
  time for no touch either (`LateExpires`).
  `DeletedStateStays`, `TouchedInTime` and `RefusedForCause` are about the records
  meaning what they say and need no assumption on lifetimes. `MeantInv` adds to the
  above: who still works on a session has it from its own activation or from a cookie
  that was delivered (`SessionsShown`), so no activation is in flight for a session
  that was logged out; records exist only of tokens that were consumed and of sessions
  that were logged out, and a live session's state lasts exactly to the end of its idle
  window or of its token (`RecordsMeant`).
- **FileStateLockProofs.** `LockTypeCorrect`. `OneTaskPerProcess`: the promise chain
  lets one task of a process past it, whatever happens to the lock (`AtHead`: a task
  beyond "waiting" is first in its live process's queue). With `MaxAlive = 1`,
  `SoleProcessExclusion` and `SoleProcessKeepsUpdates`: `SoleInv` adds that live
  tasks are of one process and that the task inside has read the file as it is.
- **WidgetBridgeProofs.** The five invariants of the bridge, with no assumption on
  the host. `ResultsServed` is what makes `AnswersNotCrossed` inductive: a result
  on its way names a call that the host served.
- **PaymentHandlerProofs.** `PaymentTypeCorrect`, `OneUseAlone`,
  `HandlerKeepsPromise`, for any deployments, lifetimes and number of requests.
  `OneObject` is the argument for single use: alone, all handlers refer to the one
  object of the session, so that the mark of the accepted verification is seen by
  each of them, however old their reference is. `Grounded` is the other half of
  the promise: who verifies holds a receipt that was signed. `StepKeeps` shows for
  every step that the invariant is kept and that it is a step of PaymentOnce or
  leaves it alone.
  `OneReceiptAlone`, `UseIsFinal` and `PaymentHonoured` rest on what that object says:
  while nobody used it, it is completed for as long as a receipt is out (`PaidMarks`),
  and without a settlement callback its URL is that of the one receipt
  (`CompletedOnce`). `AloneStep` says that a step of a lone deployment passes the
  object by, completes it or accepts its receipt, and nothing else.
- **CatalogHostProofs.** `FrameMatches`, `OverlaysReached`, `ResumesKept`.
  `HostInv` adds what a step needs to know of calls that are still under way:
  `NoFrameWithoutMount` (a frame in a host's fields belongs to a call that got as far
  as showing it, on that host) and `OnlyResumesHost` (only a resume comes to the
  stage at which it asks for a session itself). `OverlaysReached` is inductive with
  the types: an overlay is opened only by a step that closes the one before.
- **OverlayProofs**, expanded widgets. `FramesStayInPlace`, for any number of
  requests, clicks and messages. `RunsPlaced`, `MessagesAsked` and `PendingAsked` say
  that whatever is awaited, on its way or pending belongs to a request that was made,
  so that no answer is about a frame nobody named.
  `ShellKeepsUp` is that the shells end up with the stage of their frames. At rest
  this says nothing of the steps before, so `ShellFollows` says what it is when not at
  rest: a frame that is not in `missed` has a request on its way, or a run that will
  tell its shell, or the *last* message on its way is the present stage, or its shell
  displays it or waits for an answer. `MessagesInv` is why a shell hears that last
  message: a request is asked and answered once, and its entry waits until then.
  `FramesAssumption` says that the panel, `Nothing`, frames and requests are different
  things.
- **OverlayProofs**, plans. `FinalizedOnce` from `HandledOnce`: once a host sent a
  request for a return, that return is the one it remembers, and the URL carries it or
  none, as a page gets no other return without being loaded again. This is about one
  host: a page that is mounted again while the return is in its URL has a host that
  remembers nothing and may send a request of its own. `EvidenceStays` from
  `IntentKnown`: a task at "finalizing" has the intent that its host sent, so whichever
  host's answer clears the URL, it is the answer for the return in it.
- **RedisHostStoreProofs.** `TokenConsumedOnce` and `StoreKeepsPromise`.
  `CallsBegun`: a touch beyond the read did it with the token alive. `RecordsOutlive`:
  a revocation record in force counts beyond the token (`LifetimeLong`: it is written
  by a call that began before, for the rest of the token and the grace), so a revoke
  that has marked or answered finds the session revoked as long as it could be
  touched. `TouchKeeps` and `RevokeKeeps` then map every step of a call to one of
  SessionStore or none; `StorePromise` needs no assumption on how commands fail.
- **PageProofs.** `TokenStaysSpent`: only tokens that were issued are kept, sent and
  exchanged (`TokensKnown`), so that the next one the server issues is none of those
  whose exchange was answered. `CallbackDoneOnce`: every effect is that of an attempt
  that was made, and one with a key is the only one of its call (`AttemptsMade`,
  `EffectsAsked`); how many there can be then follows from the cardinality of an
  interval. `AccessStaysCurrent`: an effect that was not cleaned up finalizes for the
  page there is (`EffectHere`), so that it writes nothing of another one; the history
  `late` names the other writers. `DetailAssumption` keeps the effect, the reads and
  the clicks apart: they stand for calls of different functions.
- **The compositions.** `PageTypeCorrect` (PageProofs) and `PartsTypeCorrect`
  (OverlayProofs): every step of MCHostPage and MCHostParts is a step of one part and
  none of the others, so each keeps its own invariant, whatever the constants.

The type theorems of the single parts (`CatalogTypeCorrect`, `BridgeTypeCorrect`,
`SurfaceTypeCorrect`, …) are beside them.

*Model-checked only.* Every invariant and every action property of a passing run is
stated by a theorem, `SingleMint`, `Exclusion` and `NoLostUpdate` under the assumption
that their run makes. Liveness is out of the prover's reach and stays with TLC:
`RequestsAnswered`, `CallsEnd`, `DeadLockReclaimed`, `CallsSettle`, `OpensSettle`.
`RevocationFinal` is not proved for file records without a grace and without an idle
expiry; no run checks it there either.

## Findings

1. `fileHostStore.ts:274` — the file replay record lapses with the token, so that an
   exchange caught between verification and consumption is accepted twice
   (HostSessionFileReplay).
2. `fileHostStore.ts:113` — a lock that vanishes while it is judged counts as stale;
   with two processes the next owner's lock is unlinked and an update is lost
   (FileLockLostUpdate).
3. `fileHostStore.ts:115` — a restarted backend with the pid of its predecessor never
   takes over the lock left behind (FileLockPidReused).
4. `widget-sdk/src/index.ts:956` — `requestTokenRefresh` never resolves: its answer
   is taken for an event (WidgetTokenRefresh).
5. `paymentHandler.ts:251` — with an in-memory store and a gateway, a used payment
   session is forgotten while its receipt is still accepted (PaymentReuse).
6. `XappDetailPage.tsx:1064` — when an installation comes while a paid return is
   finalized, the page drops the answer and stays at "Finalizing payment" with the
   access from before (DetailReturn).

## Not modelled

Signatures, origins, CORS and cookie attributes (cryptography and HTTP; the
models take a token that verifies). Construction of requests, options and pages,
DOM and React rendering, wording: most of the large files (`xms.ts`,
`subjectProfile.ts`, the rest of `XappDetailPage.tsx`, `cli.ts`, the API clients) are this. The
command line. What the gateway does inside. The in-memory objects of HostSession's
rate limiter only make a request fail, which `StepFails` covers.

Where the code orders nothing and says nothing of the outcome there is no property
to check, only a hazard to know: the slower of two `openWidget` calls wins; a
proxied request carries the token of the frame's opening and its answer goes to the
frame of that moment (`catalogHost.ts:2451`, `2455`); a token refresh is retried
while its caller has given up (`1101`); `getContext` never ends without a good
context (`widget-sdk/src/index.ts:1106`); `useWidgetSession` skips the refresh of a
new widget while that of the former one is under way; a page that is mounted again
while its URL carries a paid return finalizes the payment once more, by the new host
(a behaviour of PlansOverlay); a browser refresh that ends after the logout writes
an identity again (`embed-surface.ts:424`), and a page that is left between exchange
and strip sends a spent token at its next mount (both are behaviours of
SurfaceSession).

HostPage and HostParts do not let their parts interact. CatalogHost and PlansOverlay
are of one class and meet where a host is mounted and destroyed: the remount, the
answer to a mount and the destruction are actions of each (`Remount`, `MountAgain`
and `MountAnswered` there, `Remount`, `MountAgain` and `CatalogMounted` here), and neither
reads what the other keeps. A surface has one page; two tabs over one
storage are not modelled.

## Plan

1. **Proofs** — refinements of the parts that have none yet: an abstract bridge (a
   call, its one outcome) for WidgetBridge, and an abstract lock for FileStateLock with
   one process.
2. **Algorithms** — cross references of the manifest, `paymentLock.ts`, locale
   resolution, purchase reconciliation: operators checked against a reference
   definition over bounded inputs.
3. **Activity pages** — overlapping polls of the request page
   (`RequestDetailPage.tsx:169`: an older answer can overwrite the final one after the
   timer is cleared) and the focused item of the notifications page.
