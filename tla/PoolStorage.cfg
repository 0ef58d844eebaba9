SPECIFICATION Spec
CONSTANTS
  u1 = u1
  u2 = u2
  r1 = r1
  r2 = r2
  r3 = r3
  User = {u1}
  Key = {k1, k2, k3}
  NoKey = NoKey
  StorageMode = "perUser"
  RetainPvc = TRUE
  Ttl = 1
  Req = {r1, r2}
  NoReq = NoReq
  UserOf <- Both
  MaxPods = 1
  IdleTimeout = 1
  StartupTimeout = 1
  MaxAge = 2
  MaxFaults = 1
  MaxCrashes = 1
SYMMETRY KeySymmetry
INVARIANTS
  TypeOK
  LockDiscipline
  PvcInUseKept
