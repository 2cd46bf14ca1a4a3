SPECIFICATION Spec
CONSTANTS
  Handlers = {h1, h2, h3}
  Home = Home
  Nothing = Nothing
  Deployments <- BackendKit
  SessionTtl = 3
  UsedTtl = 1
  MaxAge = 2
  MaxTime = 4
INVARIANT
  SingleUse
