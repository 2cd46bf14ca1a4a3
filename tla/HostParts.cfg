SPECIFICATION PartsSpec
CONSTANTS
  f1 = f1
  f2 = f2
  q1 = q1
  q2 = q2
  k1 = k1
  Frames <- MCFrames
  InPlace <- MCInPlace
  Requests <- MCRequests
  Clicks <- MCClicks
  Panel = Panel
  Nothing = Nothing
  Overlays = {p1, p2}
  Tasks = {t1, t2}
  Intents = {i1, i2}
  MaxMounts = 2
  NoOverlay = NoOverlay
  NoReturn = NoReturn
  Touches = {u1, u2}
  Revokes = {v1}
  Consumers = {c1, c2}
  Exp = 2
  IdleTtl = 1
  Grace = 1
  Fallback = 2
  MaxTime = 3
INVARIANTS
  PartsTypeOK
  FramesInPlace
  ShellAgrees
  FinalizeOnce
  ConsumedOnce
PROPERTIES
  EvidenceKept
  StorePromise
SYMMETRY PartsSymmetry
CHECK_DEADLOCK FALSE
