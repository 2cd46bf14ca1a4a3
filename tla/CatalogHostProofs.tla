--------------------------- MODULE CatalogHostProofs ---------------------------
(***************************************************************************)
(* What holds of the host and its page for any number of hosts and of      *)
(* calls, however they overlap.                                            *)
(***************************************************************************)
EXTENDS CatalogHost, TLAPS

\* A host without a widgetMount has no widget frame.
NoFrameWithoutMount == \A h \in Hosts \ Split : widgetIframe[h] = None

\* Only resumeWidget shows a frame of its own.
OnlyResumesHost == \A c \in Calls : stage[c] = "hosting" => c \in Resumes

HostInv ==
  /\ CatalogTypeOK
  /\ OnlyResumesHost
  /\ NoFrameWithoutMount
  /\ FrameMatchesSession
  /\ OverlayReachable
  /\ ResumeNotLost

\* The parts of the invariant that the stage of a call is in.
StageInv == OverlayReachable /\ ResumeNotLost /\ OnlyResumesHost

-----------------------------------------------------------------------------
\* The helpers.

\* What happens to the calls whose overlays are closed: they leave "guard", and the
\* others stay where they are.
LEMMA SettledStage ==
  ASSUME CatalogTypeOK, NEW S
  PROVE  /\ Settled(S) \in [Calls -> Stages]
         /\ \A c \in Calls : Settled(S)[c] = "guard" => stage[c] = "guard" /\ c \notin S
         /\ \A c \in Calls : stage[c] = "shown" => Settled(S)[c] = "shown"
         /\ \A c \in Calls : Settled(S)[c] = "hosting" => stage[c] = "hosting" \/ c \in Resumes
  BY DEF CatalogTypeOK, Settled, GivenUp, Stages, Waiting

LEMMA GivenUpStage ==
  ASSUME NEW o
  PROVE  /\ GivenUp(o) \in Stages /\ GivenUp(o) \notin {"guard", "shown"}
         /\ GivenUp(o) = "hosting" => o \in Resumes
  BY DEF GivenUp, Stages, Waiting

\* A call that is shown stays so when another one moves, and one that moves to a stage
\* other than "guard" keeps the overlays right.
LEMMA Moved ==
  ASSUME HostInv, NEW c \in Calls, NEW s \in Stages \ {"guard"},
         stage[c] # "shown", s = "hosting" => c \in Resumes, stage' = [stage EXCEPT ![c] = s],
         UNCHANGED <<overlayPart, resume, host>>
  PROVE  StageInv'
  BY DEF HostInv, StageInv, CatalogTypeOK, OverlayReachable, ResumeNotLost,
         OnlyResumesHost, overlayPart, Calls

-----------------------------------------------------------------------------
\* The page.

\* The overlays of the hosts of D are closed, and the calls that wait for them settled.
LEMMA ClosedOverlays ==
  ASSUME HostInv, NEW D \in SUBSET Hosts, Discard(D), UNCHANGED <<resume, host>>,
         NEW T, T = UNION {Displaced(h) : h \in D}, NEW m,
         \/ stage' = Settled(T)
         \/ m \in Calls /\ stage[m] = "idle" /\ stage' = [Settled(T) EXCEPT ![m] = "asked"]
  PROVE  StageInv'
<1> USE DEF HostInv
<1>1. /\ \A c \in Calls : stage'[c] = "guard" => stage[c] = "guard" /\ c \notin T
      /\ \A c \in Calls : stage[c] = "shown" => stage'[c] = "shown"
      /\ \A c \in Calls : stage'[c] = "hosting" => stage[c] = "hosting" \/ c \in Resumes
  BY SettledStage
<1>2. shells' = shells \ T /\ cleanup' = [h \in Hosts |-> IF h \in D THEN None ELSE cleanup[h]]
  BY DEF Discard
<1>3. \A o \in shells' : cleanup'[host'[o]] = o
  <2> SUFFICES ASSUME NEW o \in shells' PROVE cleanup'[host'[o]] = o
    OBVIOUS
  <2>1. o \in shells /\ o \notin T /\ cleanup[host[o]] = o /\ host[o] \in Hosts /\ o # None
    BY <1>2, HostsAssumption DEF CatalogTypeOK, OverlayReachable, Calls
  <2>2. host[o] \notin D
    BY <2>1 DEF Displaced
  <2> QED BY <1>2, <2>1, <2>2
<1>4. OverlayReachable'
  BY <1>1, <1>2, <1>3 DEF OverlayReachable, Calls
<1>5. ResumeNotLost'
  BY <1>1, HostsAssumption DEF ResumeNotLost, Calls
<1>6. OnlyResumesHost'
  BY <1>1 DEF OnlyResumesHost
<1> QED BY <1>4, <1>5, <1>6 DEF StageInv

LEMMA RemountKeeps ==
  ASSUME HostInv, NEW m \in Mounts, Remount(m)
  PROVE  HostInv'
<1> DEFINE T == UNION {Displaced(g) : g \in Live}
<1> USE DEF HostInv
<1>0. /\ Discard(Live) /\ Live \in SUBSET Hosts /\ m \in Calls /\ stage[m] = "idle"
      /\ stage' = [Settled(T) EXCEPT ![m] = "asked"]
      /\ life' = [g \in Hosts |-> IF g \in Live THEN "dead"
                                  ELSE IF g = host[m] THEN "live" ELSE life[g]]
      /\ panel' = None /\ UNCHANGED <<resume, request, host>>
  BY DEF Remount, Live, Calls
<1>1. CatalogTypeOK'
  <2>1. stage' \in [Calls -> Stages]
    BY <1>0, SettledStage DEF Stages, Waiting
  <2>2. life' \in [Hosts -> {"new", "live", "dead"}]
    BY <1>0 DEF CatalogTypeOK
  <2> QED BY <1>0, <2>1, <2>2 DEF CatalogTypeOK, Discard
<1>2. NoFrameWithoutMount'
  BY <1>0 DEF NoFrameWithoutMount, Discard, CatalogTypeOK
<1>3. FrameMatchesSession'
  BY <1>0, HostsAssumption DEF FrameMatchesSession, Served, Discard, CatalogTypeOK
<1>4. StageInv'
  BY <1>0, ClosedOverlays
<1> QED BY <1>1, <1>2, <1>3, <1>4 DEF StageInv

LEMMA DestroyKeeps ==
  ASSUME HostInv, NEW h \in Hosts, Destroy(h)
  PROVE  HostInv'
<1> USE DEF HostInv
<1>0. /\ Discard({h}) /\ {h} \in SUBSET Hosts
      /\ stage' = Settled(Displaced(h)) /\ life' = [life EXCEPT ![h] = "dead"]
      /\ Displaced(h) = UNION {Displaced(g) : g \in {h}}
      /\ UNCHANGED <<panel, resume, request, host>>
  BY DEF Destroy, panelPart
<1>1. CatalogTypeOK'
  <2>1. stage' \in [Calls -> Stages]
    BY <1>0, SettledStage
  <2> QED BY <1>0, <2>1 DEF CatalogTypeOK, Discard
<1>2. NoFrameWithoutMount'
  BY <1>0 DEF NoFrameWithoutMount, Discard, CatalogTypeOK
<1>3. FrameMatchesSession'
  BY <1>0 DEF FrameMatchesSession, Served, Discard, CatalogTypeOK
<1>4. StageInv'
  BY <1>0, ClosedOverlays
<1> QED BY <1>1, <1>2, <1>3, <1>4 DEF StageInv

\* The steps of a mount that leave the widget and the overlays alone.
LEMMA MountKeeps ==
  ASSUME HostInv, NEW m \in Mounts, MountAgain(m) \/ MountAnswered(m) \/ MountRefused(m)
  PROVE  HostInv'
<1> USE DEF HostInv, MountAgain, MountAnswered, MountRefused
<1>0. /\ m \in Calls /\ stage[m] # "shown"
      /\ \E s \in Stages \ {"guard", "hosting"} : stage' = [stage EXCEPT ![m] = s]
      /\ UNCHANGED <<life, widgetPart, overlayPart, panel, resume, request, host>>
  BY DEF Calls, Stages, Waiting, panelPart
<1>1. CatalogTypeOK'
  BY <1>0 DEF CatalogTypeOK, catalogPart, widgetPart, overlayPart
<1>2. NoFrameWithoutMount' /\ FrameMatchesSession'
  BY <1>0 DEF NoFrameWithoutMount, FrameMatchesSession, Served, widgetPart
<1>3. StageInv'
  BY <1>0, Moved
<1> QED BY <1>1, <1>2, <1>3 DEF StageInv

LEMMA ClearPanelKeeps ==
  ASSUME HostInv, ClearPanel
  PROVE  HostInv'
<1> USE DEF HostInv, ClearPanel, catalogPart, widgetPart, overlayPart, callPart
<1>1. CatalogTypeOK' /\ NoFrameWithoutMount'
  BY DEF CatalogTypeOK, NoFrameWithoutMount
<1>2. FrameMatchesSession'
  BY HostsAssumption DEF FrameMatchesSession, Served
<1>3. StageInv'
  BY DEF StageInv, OverlayReachable, ResumeNotLost, OnlyResumesHost
<1> QED BY <1>1, <1>2, <1>3 DEF StageInv

-----------------------------------------------------------------------------
\* openWidget.

\* The steps that only move the call.
LEMMA MoveKeeps ==
  ASSUME HostInv, NEW o \in Opens,
         \/ Ask(o) \/ Refused(o) \/ OpenGuardWidget(o)
         \/ \E resolved \in BOOLEAN : CloseGuardWidget(o, resolved)
  PROVE  HostInv'
<1> USE DEF HostInv, Ask, Refused, OpenGuardWidget, CloseGuardWidget
<1>0. /\ o \in Calls /\ stage[o] # "shown"
      /\ \E s \in Stages \ {"guard"} :
           stage' = [stage EXCEPT ![o] = s] /\ (s = "hosting" => o \in Resumes)
      /\ UNCHANGED <<life, catalogPart, widgetPart, overlayPart, panel, resume, request, host>>
  BY GivenUpStage DEF Calls, Stages, Waiting, panelPart
<1>1. CatalogTypeOK'
  BY <1>0 DEF CatalogTypeOK, catalogPart, widgetPart, overlayPart
<1>2. NoFrameWithoutMount' /\ FrameMatchesSession'
  BY <1>0 DEF NoFrameWithoutMount, FrameMatchesSession, Served, widgetPart
<1>3. StageInv'
  BY <1>0, Moved
<1> QED BY <1>1, <1>2, <1>3 DEF StageInv

LEMMA InCatalogKeeps ==
  ASSUME HostInv, NEW o \in Opens, OpenInCatalog(o)
  PROVE  HostInv'
<1> USE DEF HostInv, OpenInCatalog, ConsumedBy
<1>0. o \in Calls
  BY DEF Calls
<1>1. CatalogTypeOK'
  BY <1>0, HostsAssumption DEF CatalogTypeOK, catalogPart, overlayPart, Stages
<1>2. NoFrameWithoutMount'
  BY DEF NoFrameWithoutMount
<1>3. FrameMatchesSession'
  BY <1>0 DEF CatalogTypeOK, NoFrameWithoutMount, FrameMatchesSession, Served
<1>4. OverlayReachable'
  BY <1>0 DEF CatalogTypeOK, OverlayReachable, overlayPart
<1>5. ResumeNotLost'
  BY <1>0, HostsAssumption DEF CatalogTypeOK, ResumeNotLost, Calls
<1>6. OnlyResumesHost'
  BY <1>0 DEF CatalogTypeOK, OnlyResumesHost
<1> QED BY <1>1, <1>2, <1>3, <1>4, <1>5, <1>6

LEMMA InstalledKeeps ==
  ASSUME HostInv, NEW o \in Opens, Installed(o)
  PROVE  HostInv'
<1> USE DEF HostInv
<1>0. /\ o \in Calls /\ stage[o] # "shown" /\ host[o] \in Hosts
      /\ \E s \in Stages \ {"guard", "hosting"} : stage' = [stage EXCEPT ![o] = s]
      /\ \/ UNCHANGED activeWidget
         \/ host[o] \notin Split /\ activeWidget' = [activeWidget EXCEPT ![host[o]] = o]
      /\ UNCHANGED <<life, catalogPart, widgetIframe, widgetContext, overlayPart, panel, resume, host>>
  BY DEF Installed, CatalogTypeOK, Calls, Stages, Waiting, panelPart
<1>1. CatalogTypeOK'
  <2>1. request' \in [Opens -> {"install", "session"}]
    BY DEF Installed, CatalogTypeOK
  <2> QED BY <1>0, <2>1 DEF CatalogTypeOK, catalogPart, overlayPart
<1>2. NoFrameWithoutMount'
  BY <1>0 DEF NoFrameWithoutMount
<1>3. FrameMatchesSession'
  BY <1>0 DEF CatalogTypeOK, NoFrameWithoutMount, FrameMatchesSession, Served
<1>4. StageInv'
  BY <1>0, Moved
<1> QED BY <1>1, <1>2, <1>3, <1>4 DEF StageInv

LEMMA ShowKeeps ==
  ASSUME HostInv, NEW o \in Opens, Show(o)
  PROVE  HostInv'
<1> USE DEF HostInv, Show, ConsumedBy, TokenOf
<1>0. o \in Calls /\ host[o] \in Hosts
  BY DEF CatalogTypeOK, Calls
<1>1. CatalogTypeOK'
  BY <1>0, HostsAssumption DEF CatalogTypeOK, catalogPart, overlayPart, Stages
<1>2. NoFrameWithoutMount'
  BY <1>0 DEF CatalogTypeOK, NoFrameWithoutMount
<1>3. FrameMatchesSession'
  BY <1>0 DEF CatalogTypeOK, FrameMatchesSession, Served
<1>4. OverlayReachable'
  BY <1>0 DEF CatalogTypeOK, OverlayReachable, overlayPart, Calls
<1>5. ResumeNotLost'
  BY <1>0, HostsAssumption DEF CatalogTypeOK, ResumeNotLost, Calls
<1>6. OnlyResumesHost'
  BY <1>0 DEF CatalogTypeOK, OnlyResumesHost
<1> QED BY <1>1, <1>2, <1>3, <1>4, <1>5, <1>6

LEMMA HostedKeeps ==
  ASSUME HostInv, NEW o \in Opens, ShowHosted(o) \/ HostedRefused(o)
  PROVE  HostInv'
<1> USE DEF HostInv, ShowHosted, HostedRefused, ConsumedBy
<1>0. o \in Calls
  BY DEF Calls
<1>1. CatalogTypeOK'
  BY <1>0, HostsAssumption DEF CatalogTypeOK, catalogPart, widgetPart, overlayPart, Stages
<1>2. NoFrameWithoutMount' /\ FrameMatchesSession'
  BY <1>0 DEF OnlyResumesHost, NoFrameWithoutMount, FrameMatchesSession, Served, widgetPart
<1>3. OverlayReachable'
  BY <1>0 DEF CatalogTypeOK, OverlayReachable, overlayPart, Calls
<1>4. ResumeNotLost'
  BY <1>0, HostsAssumption DEF CatalogTypeOK, ResumeNotLost, Calls
<1>5. OnlyResumesHost'
  BY <1>0 DEF CatalogTypeOK, OnlyResumesHost
<1> QED BY <1>1, <1>2, <1>3, <1>4, <1>5

-----------------------------------------------------------------------------
\* The overlays of guards.

LEMMA GuardedKeeps ==
  ASSUME HostInv, NEW o \in Opens, Guarded(o)
  PROVE  HostInv'
<1> DEFINE h == host[o]
           T == Displaced(h)
<1> USE DEF HostInv
<1>0. /\ o \in Calls /\ h \in Hosts /\ stage[o] = "asked"
      /\ shells' = (shells \ T) \cup {o} /\ cleanup' = [cleanup EXCEPT ![h] = o]
      /\ \E next \in {"guard", "fallback"} : stage' = [Settled(T) EXCEPT ![o] = next]
      /\ UNCHANGED <<life, catalogPart, widgetPart, panel, resume, request, host>>
  BY DEF Guarded, CatalogTypeOK, Calls, panelPart
<1>1. CatalogTypeOK'
  <2>1. stage' \in [Calls -> Stages]
    BY <1>0, SettledStage DEF Stages, Waiting
  <2> QED BY <1>0, <2>1 DEF CatalogTypeOK, catalogPart, widgetPart
<1>2. NoFrameWithoutMount' /\ FrameMatchesSession'
  BY <1>0 DEF NoFrameWithoutMount, FrameMatchesSession, Served, widgetPart
<1>3. \A x \in shells' : cleanup'[host'[x]] = x
  <2> SUFFICES ASSUME NEW x \in shells', x # o PROVE cleanup'[host'[x]] = x
    BY <1>0 DEF CatalogTypeOK
  <2>1. x \in shells /\ x \notin T /\ cleanup[host[x]] = x /\ x # None
    BY <1>0, HostsAssumption DEF CatalogTypeOK, OverlayReachable, Calls
  <2>2. host[x] # h
    BY <2>1 DEF Displaced
  <2> QED BY <1>0, <2>1, <2>2 DEF CatalogTypeOK
<1>4. OverlayReachable'
  <2> SUFFICES ASSUME NEW x \in Opens, stage'[x] = "guard" PROVE x \in shells'
    BY <1>3 DEF OverlayReachable
  <2>1. x = o \/ (stage[x] = "guard" /\ x \notin T)
    BY <1>0, SettledStage DEF Calls
  <2> QED BY <1>0, <2>1 DEF OverlayReachable
<1>5. ResumeNotLost'
  BY <1>0, SettledStage, HostsAssumption DEF ResumeNotLost, Calls
<1>6. OnlyResumesHost'
  BY <1>0, SettledStage DEF OnlyResumesHost
<1> QED BY <1>1, <1>2, <1>4, <1>5, <1>6

LEMMA CloseShellKeeps ==
  ASSUME HostInv, NEW o \in Opens, NEW resolved \in BOOLEAN, CloseShell(o, resolved)
  PROVE  HostInv'
<1> USE DEF HostInv
<1>0. /\ o \in Calls /\ host[o] \in Hosts /\ o \in shells
      /\ shells' = shells \ {o} /\ cleanup' = [cleanup EXCEPT ![host[o]] = None]
      /\ \/ stage[o] = "guard" /\ stage' = [stage EXCEPT ![o] = "again"]
         \/ stage' = Settled({o})
      /\ UNCHANGED <<life, catalogPart, widgetPart, panel, resume, request, host>>
  BY DEF CloseShell, CatalogTypeOK, Calls, panelPart
<1>1. CatalogTypeOK'
  <2>1. stage' \in [Calls -> Stages]
    BY <1>0, SettledStage DEF CatalogTypeOK, Stages, Waiting
  <2> QED BY <1>0, <2>1 DEF CatalogTypeOK, catalogPart, widgetPart
<1>2. NoFrameWithoutMount' /\ FrameMatchesSession'
  BY <1>0 DEF NoFrameWithoutMount, FrameMatchesSession, Served, widgetPart
<1>3. \A c \in Calls : /\ stage'[c] = "guard" => stage[c] = "guard" /\ c # o
                       /\ stage[c] = "shown" => stage'[c] = "shown"
                       /\ stage'[c] = "hosting" => stage[c] = "hosting" \/ c \in Resumes
  BY <1>0, SettledStage DEF CatalogTypeOK
<1>4. OverlayReachable'
  BY <1>0, <1>3 DEF CatalogTypeOK, OverlayReachable, Calls
<1>5. ResumeNotLost'
  BY <1>0, <1>3, HostsAssumption DEF ResumeNotLost, Calls
<1>6. OnlyResumesHost'
  BY <1>3 DEF OnlyResumesHost
<1> QED BY <1>1, <1>2, <1>4, <1>5, <1>6

-----------------------------------------------------------------------------
LEMMA HostInitInv == HostInit => HostInv
<1> SUFFICES ASSUME HostInit PROVE HostInv
  OBVIOUS
<1> USE DEF HostInit
<1>1. CatalogTypeOK
  BY DEF CatalogTypeOK, Stages, Calls
<1>2. NoFrameWithoutMount /\ FrameMatchesSession
  BY HostsAssumption DEF NoFrameWithoutMount, FrameMatchesSession, Served
<1>3. OverlayReachable
  BY DEF OverlayReachable, Calls
<1>4. ResumeNotLost
  BY HostsAssumption DEF ResumeNotLost, Calls
<1>5. OnlyResumesHost
  BY DEF OnlyResumesHost
<1> QED BY <1>1, <1>2, <1>3, <1>4, <1>5 DEF HostInv

LEMMA HostNextInv == HostInv /\ [HostNext]_hostVars => HostInv'
<1> SUFFICES ASSUME HostInv, [HostNext]_hostVars PROVE HostInv'
  OBVIOUS
<1>1. CASE \E m \in Mounts : Remount(m) \/ MountAgain(m) \/ MountAnswered(m) \/ MountRefused(m)
  BY <1>1, RemountKeeps, MountKeeps
<1>2. CASE \E h \in Hosts : Destroy(h)
  BY <1>2, DestroyKeeps
<1>3. CASE ClearPanel
  BY <1>3, ClearPanelKeeps
<1>4. CASE \E o \in Opens : Ask(o) \/ OpenInCatalog(o) \/ Continue(o)
  <2> SUFFICES ASSUME NEW o \in Opens, Ask(o) \/ OpenInCatalog(o) \/ Continue(o) PROVE HostInv'
    BY <1>4
  <2>1. CASE Ask(o) \/ Refused(o) \/ OpenGuardWidget(o)
    BY <2>1, MoveKeeps
  <2>2. CASE OpenInCatalog(o) \/ Installed(o) \/ Show(o)
    BY <2>2, InCatalogKeeps, InstalledKeeps, ShowKeeps
  <2>3. CASE ShowHosted(o) \/ HostedRefused(o) \/ Guarded(o)
    BY <2>3, HostedKeeps, GuardedKeeps
  <2>4. CASE \E resolved \in BOOLEAN : CloseShell(o, resolved) \/ CloseGuardWidget(o, resolved)
    BY <2>4, CloseShellKeeps, MoveKeeps
  <2> QED BY <2>1, <2>2, <2>3, <2>4 DEF Continue
<1>5. CASE UNCHANGED hostVars
  BY <1>5 DEF HostInv, CatalogTypeOK, NoFrameWithoutMount, FrameMatchesSession, Served,
              OverlayReachable, ResumeNotLost, OnlyResumesHost, hostVars, catalogPart, widgetPart,
              overlayPart, panelPart, callPart
<1> QED BY <1>1, <1>2, <1>3, <1>4, <1>5 DEF HostNext

LEMMA HostInvHolds == HostSpec => []HostInv
  BY HostInitInv, HostNextInv, PTL DEF HostSpec

\* The state of the host keeps its types.
THEOREM CatalogTypeCorrect == HostSpec => []CatalogTypeOK
  BY HostInvHolds, PTL DEF HostInv

\* The frame in the panel, the token for its requests and the widget named to it are of
\* one openWidget, for any hosts and any openings that overlap.
THEOREM FrameMatches == HostSpec => []FrameMatchesSession
  BY HostInvHolds, PTL DEF HostInv

\* No profile overlay is left that its host does not close, and no call waits for one
\* that is gone.
THEOREM OverlaysReached == HostSpec => []OverlayReachable
  BY HostInvHolds, PTL DEF HostInv

\* A resume target is given up only for a widget in the panel.
THEOREM ResumesKept == HostSpec => []ResumeNotLost
  BY HostInvHolds, PTL DEF HostInv
=============================================================================
