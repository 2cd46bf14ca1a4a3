SPECIFICATION BridgeSpec
CONSTANTS
  c1 = c1
  refresh = refresh
  w1 = w1
  w2 = w2
  Requests <- MCRequests
  Refreshes <- MCRefreshes
  Waits <- MCWaits
INVARIANT
  RefreshCounts
CHECK_DEADLOCK FALSE
