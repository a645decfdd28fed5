SPECIFICATION FairSpec
CONSTANTS
  f1 = f1
  f2 = f2
  f3 = f3
  c1 = c1
  c2 = c2
  ka = ka
  kb = kb
  kc = kc
  Conns = {c1, c2}
  Ask <- MCAsk
  MaxSse = 1
  HistSize = 2
  SockCap = 1
  Frames = {f1, f2, f3}
  Keys = {ka, kb, kc}
  Air <- MCAir
  Info <- MCInfo
  Opens <- MCOpens
  Start <- MCStart
  Presets <- MCPresets
  Lines <- MCLines
  MaxCands = 4
  MaxKeys = 4
  BucketCap = 2
  QueueSlots = 3
  RingSize = 1
  FreshFor = 0
  MaxNow = 1
  MaxTries = 1
  HookOn <- MCHookOn
  MaxAllow = 4
  HookCap = 1
  FenceFile <- MCFence
  MaxPolys = 1
  MaxVerts = 4
  FenceSlots = 1
INVARIANTS IndexExact  StreamGapless 
 
CHECK_DEADLOCK FALSE
