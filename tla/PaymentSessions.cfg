SPECIFICATION Spec
CONSTANTS
  Handlers = {h1, h2, h3, h4}
  Home = Home
  Nothing = Nothing
  Deployments <- AnyDeployment
  SessionTtl = 2
  UsedTtl = 1
  MaxAge = 1
  MaxTime = 3
SYMMETRY Perms
INVARIANTS
  TypeOK
  SingleUseAlone
  OneReceipt
PROPERTIES
  KeepsPromise
  UsedIsFinal
  PaidIsHonoured
