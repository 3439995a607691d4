\* A frame whose outer TTL is 1 on arrival, forwarded by a droplet.
CONSTANTS
  CPUs = {c1}
  RxQueues = {q1}
  Vnis = {"v1"}
  TenantIps = {"t1", "t2"}
  TenantMacs = {"tm1"}
  EpVals <- MCEpVals
  NoEp = NoEp
  None = None
  HostIps = {"h1"}
  HostMacs = {"hm1"}
  EntranceIps = {"i1", "i2"}
  EntranceMacs = {"m1", "m2"}
  Droplets <- MCDroplets
  StackGarbage <- MCGarbageB
  InitConfigs <- MCInitFwd
  MaxEntrances = 2
  MaxTtl = 1
  TotLens = {80}
  OptLens = {3, 4}
  RtsOptSize = 8
  SepOptSize = 8
  AppendTail = FALSE
  SgSupport = TRUE
  SgRules <- MCSgRules
  Ports = {80, 22}
  Batches <- MCBatches
  StageKeys = {"DROP"}
SPECIFICATION Spec
INVARIANT TtlNeverExpiresInFlight
