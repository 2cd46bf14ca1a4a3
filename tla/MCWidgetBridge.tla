---------------------------- MODULE MCWidgetBridge ----------------------------
(* An ordinary call, a token refresh and two waiters for the context.         *)
EXTENDS WidgetBridge, TLC

CONSTANTS c1, refresh, w1, w2

MCRequests == {c1, refresh}
MCRefreshes == {refresh}
MCWaits == {w1, w2}
=============================================================================
