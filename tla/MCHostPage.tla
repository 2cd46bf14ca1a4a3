------------------------------ MODULE MCHostPage ------------------------------
(***************************************************************************)
(* TLC instance of five parts that share no state: the host with its page  *)
(* (CatalogHost), the bridge of a widget (WidgetBridge), the session of a  *)
(* surface (SurfaceSession), the callback client (CallbackClient) and the  *)
(* detail page of an xapp (DetailPage).  A behaviour is one of one part,   *)
(* and every bound is that part's own.                                     *)
(***************************************************************************)
EXTENDS CatalogHost, WidgetBridge, SurfaceSession, CallbackClient, DetailPage

CONSTANTS h1, h2, m1, m2, i1, r1, k1, k2, e1, e2,
  c1, refresh, w1, w2, x1, x2, j1, p1, l1, l2, b1, b2

VARIABLE part   \* the part that the behaviour is of
pageVars == <<part, hostVars, bridgeVars, surfaceVars, clientVars, detailVars>>

\* A host with a panel and one without, mounted in either order and once again; an
\* install that opens its widget and a resume.
MCHosts == {h1, h2}
MCSplit == {h1}
MCMounts == {m1, m2}
MCOpens == {i1, r1}
MCInstalls == {i1}
MCResumes == {r1}
MCApiCalls == {k1, k2}
MCSends == {e1, e2}
MCKeyed == {e1}
\* An ordinary call, a token refresh and two waiters for the context.
MCRequests == {c1, refresh}
MCRefreshes == {refresh}
MCWaits == {w1, w2}
\* Two xapps, an installation that comes late, two reads and a click.
MCXapps == {x1, x2}
MCInstallations == {j1}
MCPackages == {p1}
MCLoads == {l1, l2}
MCCheckouts == {b1}
MCChanges == {b2}

\* Bounds of the detail page: its installation comes after the page; a user who has
\* nothing buys, on x1 if it is from another page; a user who has x1 changes the subscription.
MCPageFirst == page = Nobody => install' = Nobody
MCBuys == part = "buys" /\ ~confirm' /\ \A b \in Changes : awaits'[b] = Idle
MCSubscribed == part = "subscribed" /\ \A b \in Checkouts : awaits'[b] = Idle

PageInit ==
  /\ part \in {"catalog", "bridge", "surface", "client", "buys", "subscribed"}
  /\ HostInit /\ BridgeInit /\ SurfaceInit /\ ClientInit /\ DetailInit
  /\ part # "catalog" => host = [c \in Calls |-> h1]
  /\ part # "bridge" => embedded
  /\ owned = [x \in Xapps |-> IF part = "subscribed" /\ x = x1 THEN {p1} ELSE {}]
  /\ paying # Nobody => part = "buys" /\ paying.xapp = x1

PageNext ==
  /\ UNCHANGED part
  /\ \/ /\ part = "catalog" /\ HostNext
        /\ UNCHANGED <<bridgeVars, surfaceVars, clientVars, detailVars>>
     \/ /\ part = "bridge" /\ BridgeNext
        /\ UNCHANGED <<hostVars, surfaceVars, clientVars, detailVars>>
     \/ /\ part = "surface" /\ SurfaceNext
        /\ UNCHANGED <<hostVars, bridgeVars, clientVars, detailVars>>
     \/ /\ part = "client" /\ ClientNext
        /\ UNCHANGED <<hostVars, bridgeVars, surfaceVars, detailVars>>
     \/ /\ DetailNext /\ MCPageFirst /\ (MCBuys \/ MCSubscribed)
        /\ UNCHANGED <<hostVars, bridgeVars, surfaceVars, clientVars>>

\* The server answers every openWidget, and the user ends what it shows; a timer of the
\* bridge that is not cleared fires.
PageFairness ==
  /\ \A o \in Opens : WF_hostVars(part = "catalog" /\ Continue(o))
  /\ \A c \in Requests : WF_bridgeVars(part = "bridge" /\ TimeOut(c))

PageSpec == PageInit /\ [][PageNext]_pageVars /\ PageFairness

\* The state of each part has the types the code gives it (CatalogHost, WidgetBridge,
\* SurfaceSession, CallbackClient, DetailPage).
PageTypeOK ==
  CatalogTypeOK /\ BridgeTypeOK /\ SurfaceTypeOK /\ ClientTypeOK /\ DetailTypeOK
=============================================================================
