SPECIFICATION PageSpec
CONSTANTS
  h1 = h1
  h2 = h2
  m1 = m1
  m2 = m2
  i1 = i1
  r1 = r1
  k1 = k1
  k2 = k2
  e1 = e1
  e2 = e2
  c1 = c1
  refresh = refresh
  w1 = w1
  w2 = w2
  x1 = x1
  x2 = x2
  j1 = j1
  p1 = p1
  l1 = l1
  l2 = l2
  b1 = b1
  b2 = b2
  None = None
  Hosts <- MCHosts
  Split <- MCSplit
  Mounts <- MCMounts
  Opens <- MCOpens
  Installs <- MCInstalls
  Resumes <- MCResumes
  ApiCalls <- MCApiCalls
  MaxTokens = 3
  Sends <- MCSends
  Keyed <- MCKeyed
  MaxAttempts = 3
  Requests <- MCRequests
  Refreshes <- MCRefreshes
  Waits <- MCWaits
  Xapps <- MCXapps
  Installations <- MCInstallations
  Packages <- MCPackages
  Loads <- MCLoads
  Checkouts <- MCCheckouts
  Changes <- MCChanges
  Effect = Effect
  Ended = Ended
  Nobody = Nobody
INVARIANTS
  PageTypeOK
  FrameMatchesSession
  OverlayReachable
  ResumeNotLost
  NothingForgotten
  AnswersNotCrossed
  WaitersReachable
  AnswerCounts
  TokenSpent
  CallbackOnce
  AccessCurrent
PROPERTIES
  OpensSettle
  CallsSettle
CHECK_DEADLOCK FALSE
