SPECIFICATION Spec
CONSTANTS
  User = {u1, u2, u3}
  Nobody = Nobody
  StorageMode = "perUser"
  MaxPods = 2
  Threshold = 3
  MaxOutages = 2
INVARIANTS
  TypeOK
  LockedOutOnlyByOutage
  
PROPERTIES
  LockoutLasts
