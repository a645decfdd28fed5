SPECIFICATION FairSpec
CONSTANTS
  s1 = s1
  s2 = s2
  e1 = e1
  e2 = e2
  Offered <- MCOffered
  Files <- MCFiles
  Names = {s1, s2}
  Endpoints = {e1, e2}
  NoEp = NoEp
  Handlers = {1, 2}
  Browsers = {b1}
  HistorySize = 2
  MaxEntries = 3
  ChanCap = 1
  MaxOps = 4
  Api <- MCApi
  Refused <- MCRefused
  FaultKinds = {"sensor", "fusion", "stale", "drop"}
INVARIANTS NoOrphanSubscriber BrowserGapless ReplyAnswersCall CarriedOutOnce
PROPERTY FanoutReturns
CHECK_DEADLOCK FALSE
