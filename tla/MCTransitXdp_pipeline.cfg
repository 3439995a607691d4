\* One CPU, built with appendTail and sgSupport; endpoint batches and
\* deletes, droplet updates, stage loads and AF_XDP sockets interleave with
\* frames whose tot_len is too short (1), exact (80), and larger than the
\* bytes the frame holds (120).
CONSTANTS
  CPUs = {c1}
  RxQueues = {q1}
  Vnis = {"v1"}
  TenantIps = {"t1", "t2"}
  TenantMacs = {"tm1"}
  EpVals <- MCEpVals
  NoEp = NoEp
  None = None
  HostIps = {"h1"}
  HostMacs = {"hm1"}
  EntranceIps = {"i1", "i2"}
  EntranceMacs = {"m1", "m2"}
  Droplets <- MCDroplets
  StackGarbage <- MCGarbageB
  InitConfigs <- MCInitBoth
  MaxEntrances = 2
  MaxTtl = 1
  TotLens = {1, 80, 120}
  OptLens = {3, 4}
  RtsOptSize = 8
  SepOptSize = 8
  AppendTail = TRUE
  SgSupport = TRUE
  SgRules <- MCSgRules
  Ports = {80, 22}
  Batches <- MCBatches
  StageKeys = {"DROP"}
SPECIFICATION Spec
INVARIANT TypeOK
INVARIANT NoEndpointNeverDelivered
INVARIANT BatchAppliesPrefix
INVARIANT EntranceAnnounced
