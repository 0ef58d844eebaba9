SPECIFICATION ProxyFairSpec
CONSTANTS
  Req = {r1, r2, r3}
  FailureThreshold = 2
  RecoveryTimeout = 1
  HalfOpenMaxCalls = 1
  MaxCount = 2
  Never = Never
  PoolSize = 2
  MaxTerminals = 2
INVARIANTS
  ProxyTypeOK
  BreakerInv
  ProbesBounded
  OutageBounded
  TrialsAccounted
  StaleKeyOnlyAfterReplacement
PROPERTIES
  
  Heals
