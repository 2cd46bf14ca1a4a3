SPECIFICATION FairSpec
CONSTANTS
  Requests = {r1, r2}
  BootTokens = {b1}
  Sessions = {s1, s2}
  Nobody = Nobody
  Backend = "redis"
  BootstrapTtl = 2
  AbsoluteTtl = 3
  IdleTtls = {0, 2}
  ReplayFallback = 2
  RevokeFallback = 2
  Grace = 1
  MaxLatency = 1
  MaxTime = 5
INVARIANTS
  TypeOK
  SingleMint
  RevocationFinal
  RevocationOutlivesToken
PROPERTIES
  RequestsAnswered
