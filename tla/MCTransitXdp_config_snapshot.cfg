\* update_droplet_1_svc moves the entrance of the interface while a
\* frame is in the pipeline.
CONSTANTS
  CPUs = {c1}
  RxQueues = {q1}
  Vnis = {"v1"}
  TenantIps = {"t1", "t2"}
  TenantMacs = {"tm1"}
  EpVals <- MCEpVals
  NoEp = NoEp
  None = None
  HostIps = {"h1"}
  HostMacs = {"hm1"}
  EntranceIps = {"i1", "i2"}
  EntranceMacs = {"m1", "m2"}
  Droplets <- MCDropletsMoving
  StackGarbage <- MCGarbageB
  InitConfigs <- MCInitFwd
  MaxEntrances = 2
  MaxTtl = 2
  TotLens = {80}
  OptLens = {3, 4}
  RtsOptSize = 8
  SepOptSize = 8
  AppendTail = FALSE
  SgSupport = FALSE
  SgRules <- MCSgRules
  Ports = {80, 22}
  Batches = {}
  StageKeys = {"DROP"}
SPECIFICATION Spec
INVARIANT ConfigSnapshotConsistent
