CONSTANTS
  Headers <- MCHeaders
  Addrs <- MCAddrs
SPECIFICATION Spec
INVARIANTS
  CsumVerifies
