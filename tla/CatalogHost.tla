----------------------------- MODULE CatalogHost -----------------------------
(***************************************************************************)
(* XappsHost of embed-sdk (catalogHost.ts) with the page around it         *)
(* (embedHost.ts): the catalog frame, the widget panel, the overlays of    *)
(* guards and the resume after a payment.                                  *)
(*                                                                         *)
(* Every call awaits the server, and some the user, while the page goes    *)
(* on: other calls start, the page mounts another host or clears the       *)
(* panel.  A call stands at a stage.  An install is the part of the        *)
(* marketplace handler that may end in openWidget; a resume is openWidget  *)
(* called by resumeWidget, which falls back to a frame of its own.         *)
(*                                                                         *)
(* Messages of the frames that the host answers from its fields change     *)
(* none of them: what they rely on is FrameMatchesSession.                 *)
(***************************************************************************)
EXTENDS FiniteSets

CONSTANTS
  Hosts,      \* the hosts that the page makes, one after the other
  Split,      \* those with a widgetMount
  Mounts,     \* calls of mountCatalog and mountXapp
  Opens,      \* calls of openWidget
  Installs,   \* those of the marketplace handler, which installs first
  Resumes,    \* those of resumeWidget
  None

ASSUME HostsAssumption ==
  /\ Split \subseteq Hosts
  /\ Installs \subseteq Opens /\ Resumes \subseteq Opens
  /\ Installs \cap Resumes = {} /\ Mounts \cap Opens = {}
  /\ None \notin Mounts \cup Opens /\ "pending" \notin Resumes

VARIABLES
  life,            \* "new", "live" or "dead" (destroyed)
  listening,       \* the hosts whose message listener is on the window
  catalogIframe,   \* the mount whose frame is the catalog frame of a host
  catalogToken,    \* the mount whose session gave currentCatalogToken
  container,       \* the mounts whose frames are in the container
  widgetIframe,    \* the open whose frame is the widget frame of a host
  widgetContext,   \* the open whose session gave the token of the context
  activeWidget,    \* the open whose widget the host says is active
  panel,           \* the open whose frame is in the widget mount
  stage,           \* where a call stands
  request,         \* what an open is asking the server for
  host,            \* the host that a call is made on
  shells,          \* the opens whose profile overlay is on the page
  cleanup,         \* the open that activeSubjectProfileOverlayCleanup closes
  resume           \* "pending", or the resume that consumed the target

catalogPart == <<listening, catalogIframe, catalogToken, container>>
widgetPart  == <<widgetIframe, widgetContext, activeWidget>>
overlayPart == <<shells, cleanup>>
panelPart   == <<panel, resume>>
callPart    == <<stage, request, host>>
hostVars    == <<life, catalogPart, widgetPart, overlayPart, panelPart, callPart>>

-----------------------------------------------------------------------------
Calls == Mounts \cup Opens

\* "asked" and "again" (with the resolution of a guard) wait for the server, "guard"
\* for the profile overlay, "fallback" for the session of the guard widget and
\* "guardWidget" for its overlay, "hosting" for the session of resumeWidget itself;
\* "shown" is done, with a frame put into the panel.
Waiting == {"asked", "guard", "fallback", "guardWidget", "again", "hosting"}
Stages == {"idle", "done", "shown", "failed"} \cup Waiting

\* What a failed openWidget leads to: resumeWidget catches the error.
GivenUp(o) == IF o \in Resumes THEN "hosting" ELSE "failed"

\* Mutant of Settled: the overlay goes without its promise.
SettledNever(S) == stage

\* The stages once the overlays of S are closed without a resolution; one whose
\* rendering failed has rejected its promise before.
Settled(S) == [c \in Calls |-> IF c \in S /\ stage[c] = "guard" THEN GivenUp(c) ELSE stage[c]]

\* Mutant of Displaced: an overlay is opened over the one before.
DisplacedNone(h) == {}

\* The overlay that the host has to close before it opens another, or is destroyed.
Displaced(h) == {cleanup[h]} \ {None}

\* Mutant of ConsumedBy: the target is consumed in any case.
ConsumedAlways(o, ok) == IF o \in Resumes /\ resume = "pending" THEN o ELSE resume

\* resumeWidget consumes the target once the widget is shown.
ConsumedBy(o, ok) == IF ok /\ o \in Resumes /\ resume = "pending" THEN o ELSE resume

\* Mutant of TokenOf: the token of the first widget is kept.
TokenOfFirst(h, o) == IF widgetContext[h] = None THEN o ELSE widgetContext[h]

\* The session whose token the host uses once it shows o.
TokenOf(h, o) == o

-----------------------------------------------------------------------------
CatalogTypeOK ==
  /\ life \in [Hosts -> {"new", "live", "dead"}]
  /\ listening \subseteq Hosts
  /\ catalogIframe \in [Hosts -> Mounts \cup {None}]
  /\ catalogToken \in [Hosts -> Mounts \cup {None}]
  /\ container \subseteq Mounts
  /\ widgetIframe \in [Hosts -> Opens \cup {None}]
  /\ widgetContext \in [Hosts -> Opens \cup {None}]
  /\ activeWidget \in [Hosts -> Opens \cup {None}]
  /\ panel \in Opens \cup {None}
  /\ stage \in [Calls -> Stages]
  /\ request \in [Opens -> {"install", "session"}]
  /\ host \in [Calls -> Hosts]
  /\ shells \subseteq Opens
  /\ cleanup \in [Hosts -> Opens \cup {None}]
  /\ resume \in {"pending"} \cup Resumes

HostInit ==
  /\ life = [h \in Hosts |-> "new"]
  /\ listening = {} /\ container = {}
  /\ catalogIframe = [h \in Hosts |-> None] /\ catalogToken = [h \in Hosts |-> None]
  /\ widgetIframe = [h \in Hosts |-> None] /\ widgetContext = [h \in Hosts |-> None]
  /\ activeWidget = [h \in Hosts |-> None]
  /\ panel = None
  /\ stage = [c \in Calls |-> "idle"]
  /\ request = [o \in Opens |-> IF o \in Installs THEN "install" ELSE "session"]
  /\ host \in [Calls -> Hosts]
  /\ shells = {} /\ cleanup = [h \in Hosts |-> None]
  /\ resume = "pending"

-----------------------------------------------------------------------------
\* The page: hosts come and go.

\* destroy of the hosts of D, up to the calls it settles.
Discard(D) ==
  LET closed == UNION {Displaced(h) : h \in D}
      Without(field) == [h \in Hosts |-> IF h \in D THEN None ELSE field[h]] IN
  /\ listening' = listening \ D
  /\ container' = container \ {catalogIframe[h] : h \in D}
  /\ catalogIframe' = Without(catalogIframe)
  /\ catalogToken' = Without(catalogToken)
  /\ widgetIframe' = Without(widgetIframe)
  /\ widgetContext' = Without(widgetContext)
  /\ shells' = shells \ closed
  /\ cleanup' = Without(cleanup)
  /\ UNCHANGED activeWidget

Live == {h \in Hosts : life[h] = "live"}

\* mount of the standard runtime: the host it had is destroyed, the panel emptied, and
\* the new host asks for its catalog, all before the first await.
Remount(m) ==
  LET h == host[m]
      closed == UNION {Displaced(g) : g \in Live} IN
  /\ stage[m] = "idle" /\ life[h] = "new"
  /\ Discard(Live)
  /\ life' = [g \in Hosts |-> IF g \in Live THEN "dead" ELSE IF g = h THEN "live" ELSE life[g]]
  /\ stage' = [Settled(closed) EXCEPT ![m] = "asked"]
  /\ panel' = None
  /\ UNCHANGED <<resume, request, host>>

Destroy(h) ==
  /\ life[h] = "live"
  /\ Discard({h})
  /\ life' = [life EXCEPT ![h] = "dead"]
  /\ stage' = Settled(Displaced(h))
  /\ UNCHANGED <<panelPart, request, host>>

\* mountCatalog again, or mountXapp; a destroyed host refuses.
MountAgain(m) ==
  /\ stage[m] = "idle" /\ life[host[m]] = "live"
  /\ stage' = [stage EXCEPT ![m] = "asked"]
  /\ UNCHANGED <<life, catalogPart, widgetPart, overlayPart, panelPart, request, host>>

\* The answer is used whether or not the host has been destroyed meanwhile.
MountAnswered(m) ==
  LET h == host[m] IN
  /\ stage[m] = "asked"
  /\ stage' = [stage EXCEPT ![m] = "done"]
  /\ catalogToken' = [catalogToken EXCEPT ![h] = m]
  /\ container' = (container \ {catalogIframe[h]}) \cup {m}
  /\ catalogIframe' = [catalogIframe EXCEPT ![h] = m]
  /\ listening' = listening \cup {h}
  /\ UNCHANGED <<life, widgetPart, overlayPart, panelPart, request, host>>

MountRefused(m) ==
  /\ stage[m] = "asked"
  /\ stage' = [stage EXCEPT ![m] = "failed"]
  /\ UNCHANGED <<life, catalogPart, widgetPart, overlayPart, panelPart, request, host>>

\* clearWidgetPanel: the user left the app; the host keeps its fields.
ClearPanel ==
  /\ panel # None
  /\ panel' = None
  /\ UNCHANGED <<life, catalogPart, widgetPart, overlayPart, resume, callPart>>

-----------------------------------------------------------------------------
\* openWidget, from its start to the frame in the panel.

\* An event of a frame, a click of the page, an install or a pending resume.
Ask(o) ==
  /\ stage[o] = "idle" /\ life[host[o]] = "live"
  /\ request[o] = "install" => host[o] \in listening
  /\ o \in Resumes => resume = "pending"
  /\ request[o] = "install" \/ host[o] \in Split
  /\ stage' = [stage EXCEPT ![o] = "asked"]
  /\ UNCHANGED <<life, catalogPart, widgetPart, overlayPart, panelPart, request, host>>

\* Without a widgetMount the catalog frame is sent to the widget, at once.
OpenInCatalog(o) ==
  /\ request[o] = "session" /\ host[o] \notin Split
  /\ stage[o] = "idle" /\ life[host[o]] = "live"
  /\ o \in Resumes => resume = "pending"
  /\ stage' = [stage EXCEPT ![o] = "done"]
  /\ activeWidget' = [activeWidget EXCEPT ![host[o]] = o]
  /\ resume' = ConsumedBy(o, TRUE)
  /\ UNCHANGED <<life, catalogPart, widgetIframe, widgetContext, overlayPart, panel,
                 request, host>>

\* The install is done: the widget is opened if the event asked for it.
Installed(o) ==
  /\ stage[o] \in {"asked", "again"} /\ request[o] = "install"
  /\ request' = [request EXCEPT ![o] = "session"]
  /\ \/ /\ stage' = [stage EXCEPT ![o] = "done"]
        /\ activeWidget' \in {activeWidget} \cup
             {[activeWidget EXCEPT ![h] = o] : h \in {host[o]} \ Split}
     \/ /\ host[o] \in Split
        /\ stage' = [stage EXCEPT ![o] = "asked"]
        /\ UNCHANGED activeWidget
  /\ UNCHANGED <<life, catalogPart, widgetIframe, widgetContext, overlayPart, panelPart, host>>

\* The session is there: context, active widget and frame change together.
Show(o) ==
  LET h == host[o] IN
  /\ stage[o] \in {"asked", "again"} /\ request[o] = "session" /\ h \in Split
  /\ stage' = [stage EXCEPT ![o] = "shown"]
  /\ widgetContext' = [widgetContext EXCEPT ![h] = TokenOf(h, o)]
  /\ activeWidget' = [activeWidget EXCEPT ![h] = o]
  /\ widgetIframe' = [widgetIframe EXCEPT ![h] = o]
  /\ panel' = o
  /\ resume' = ConsumedBy(o, TRUE)
  /\ UNCHANGED <<life, catalogPart, overlayPart, request, host>>

\* Any error; a second guard is one too.
Refused(o) ==
  /\ stage[o] \in {"asked", "again", "fallback"} /\ o \in Opens
  /\ stage' = [stage EXCEPT ![o] = GivenUp(o)]
  /\ UNCHANGED <<life, catalogPart, widgetPart, overlayPart, panelPart, request, host>>

\* GUARD_BLOCKED: resolveGuardUi opens a profile overlay; when it cannot render the
\* surface the overlay stays, and a guard widget is asked for.
Guarded(o) ==
  LET h == host[o] IN
  /\ o \in Opens /\ stage[o] = "asked"
  /\ shells' = (shells \ Displaced(h)) \cup {o}
  /\ cleanup' = [cleanup EXCEPT ![h] = o]
  /\ stage' \in {[Settled(Displaced(h)) EXCEPT ![o] = next] : next \in {"guard", "fallback"}}
  /\ UNCHANGED <<life, catalogPart, widgetPart, panelPart, request, host>>

\* The user ends the profile overlay, with a resolution or without.
CloseShell(o, resolved) ==
  /\ o \in shells
  /\ shells' = shells \ {o}
  /\ cleanup' = [cleanup EXCEPT ![host[o]] = None]
  /\ stage' = IF resolved /\ stage[o] = "guard" THEN [stage EXCEPT ![o] = "again"] ELSE Settled({o})
  /\ UNCHANGED <<life, catalogPart, widgetPart, panelPart, request, host>>

OpenGuardWidget(o) ==
  /\ stage[o] = "fallback"
  /\ stage' = [stage EXCEPT ![o] = "guardWidget"]
  /\ UNCHANGED <<life, catalogPart, widgetPart, overlayPart, panelPart, request, host>>

CloseGuardWidget(o, resolved) ==
  /\ stage[o] = "guardWidget"
  /\ stage' = [stage EXCEPT ![o] = IF resolved THEN "again" ELSE GivenUp(o)]
  /\ UNCHANGED <<life, catalogPart, widgetPart, overlayPart, panelPart, request, host>>

\* resumeWidget after a failed openWidget: a frame that belongs to no host.
ShowHosted(o) ==
  /\ stage[o] = "hosting"
  /\ stage' = [stage EXCEPT ![o] = "shown"]
  /\ panel' = o
  /\ resume' = ConsumedBy(o, TRUE)
  /\ UNCHANGED <<life, catalogPart, widgetPart, overlayPart, request, host>>

\* No mount or endpoint for it, or an error: the target is kept.
HostedRefused(o) ==
  /\ stage[o] = "hosting"
  /\ stage' = [stage EXCEPT ![o] = "failed"]
  /\ resume' = ConsumedBy(o, FALSE)
  /\ UNCHANGED <<life, catalogPart, widgetPart, overlayPart, panel, request, host>>

-----------------------------------------------------------------------------
\* The answers of the server, and the user closing what is on the screen.
Continue(o) ==
  \/ Installed(o) \/ Show(o) \/ Refused(o) \/ Guarded(o)
  \/ OpenGuardWidget(o) \/ ShowHosted(o) \/ HostedRefused(o)
  \/ \E resolved \in BOOLEAN : CloseShell(o, resolved) \/ CloseGuardWidget(o, resolved)

HostNext ==
  \/ \E m \in Mounts : Remount(m) \/ MountAgain(m) \/ MountAnswered(m) \/ MountRefused(m)
  \/ \E h \in Hosts : Destroy(h)
  \/ ClearPanel
  \/ \E o \in Opens : Ask(o) \/ OpenInCatalog(o) \/ Continue(o)

HostSpec == HostInit /\ [][HostNext]_hostVars

-----------------------------------------------------------------------------
\* The widget frame of a host, the token it uses for the requests of that frame and
\* the widget it names to it come from the same openWidget, however the calls of
\* openWidget overlap; and a frame in the panel that a live host put there is the one
\* this host serves (openWidget, destroy, onMessage).
Served(h) ==
  /\ h \in Split => widgetContext[h] = widgetIframe[h]
  /\ widgetIframe[h] # None => activeWidget[h] = widgetIframe[h]
FrameMatchesSession ==
  /\ \A h \in Hosts : Served(h)
  /\ \A h \in Hosts : \A o \in Opens :
       panel = o /\ host[o] = h /\ life[h] = "live" => widgetIframe[h] = o \/ o \in Resumes

\* Every profile overlay on the page is the one its host would close before the next
\* or when it is destroyed, and a call that waits for the user has its overlay: none is
\* left over the page, and no call waits for one that is gone.
OverlayReachable ==
  /\ \A o \in shells : cleanup[host[o]] = o
  /\ \A o \in Opens : stage[o] = "guard" => o \in shells

\* The target of a resume is given up only for a widget that came into the panel: a
\* failed resume can be tried again (resumeWidget).
ResumeNotLost == resume \in Resumes /\ host[resume] \in Split => stage[resume] = "shown"

\* Every openWidget ends, also when another overlay takes the place of its own or the
\* host is destroyed, if the server answers and the user ends what is shown.
OpensSettle == \A o \in Opens : stage[o] \in Waiting ~> stage[o] \notin Waiting
=============================================================================
