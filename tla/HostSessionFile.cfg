SPECIFICATION Spec
CONSTANTS
  Requests = {r1, r2}
  BootTokens = {b1, b2}
  Sessions = {s1, s2}
  Nobody = Nobody
  Backend = "file"
  BootstrapTtl = 1
  AbsoluteTtl = 2
  IdleTtls = {1}
  ReplayFallback = 2
  RevokeFallback = 2
  Grace = 0
  MaxLatency = 1
  MaxTime = 2
SYMMETRY Perms
INVARIANTS
  RevocationFinal
PROPERTIES
  NoResurrection
  IdleWindow
  NoSpuriousReject
