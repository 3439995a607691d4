\* Two CPUs run _transit at once with appendTail built in; the frames differ
\* in whether bpf_xdp_adjust_tail grew them.
CONSTANTS
  CPUs = {c1, c2}
  RxQueues = {q1}
  Vnis = {"v1"}
  TenantIps = {"t2"}
  TenantMacs = {"tm1"}
  EpVals <- MCEpVals
  NoEp = NoEp
  None = None
  HostIps = {"h1"}
  HostMacs = {"hm1"}
  EntranceIps = {"i1", "i2"}
  EntranceMacs = {"m1", "m2"}
  Droplets <- MCDroplets1
  StackGarbage <- MCGarbageB
  InitConfigs <- MCInitFtn
  MaxEntrances = 2
  MaxTtl = 2
  TotLens = {80}
  OptLens = {4}
  RtsOptSize = 8
  SepOptSize = 8
  AppendTail = TRUE
  SgSupport = FALSE
  SgRules <- MCSgRules
  Ports = {80}
  Batches <- MCBatches
  StageKeys = {}
SPECIFICATION Spec
INVARIANT TrailerOwnTail
