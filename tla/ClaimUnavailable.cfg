SPECIFICATION ProxyFairSpec
CONSTANTS
  Req = {r1, r2}
  FailureThreshold = 1
  RecoveryTimeout = 1
  HalfOpenMaxCalls = 1
  MaxCount = 1
  Never = Never
  PoolSize = 2
  MaxTerminals = 1
PROPERTIES
  NeverShutForever
