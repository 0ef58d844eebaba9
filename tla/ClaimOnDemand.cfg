SPECIFICATION Spec
CONSTANTS
  u1 = u1
  u2 = u2
  r1 = r1
  r2 = r2
  r3 = r3
  User = {u1}
  Key = {k1, k2, k3}
  NoKey = NoKey
  StorageMode = "none"
  RetainPvc = FALSE
  Ttl = 0
  Req = {r1}
  NoReq = NoReq
  UserOf <- OnlyUser
  MaxPods = 1
  IdleTimeout = 1
  StartupTimeout = 1
  MaxAge = 2
  MaxFaults = 0
  MaxCrashes = 0
SYMMETRY KeySymmetry
INVARIANTS
  NoUserStranded
