SPECIFICATION Spec
CONSTANTS
  Requests = {r1, r2}
  BootTokens = {b1}
  Sessions = {s1, s2}
  Nobody = Nobody
  Backend = "file"
  BootstrapTtl = 1
  AbsoluteTtl = 3
  IdleTtls = {0}
  ReplayFallback = 2
  RevokeFallback = 2
  Grace = 0
  MaxLatency = 1
  MaxTime = 3
INVARIANT
  SingleMint
