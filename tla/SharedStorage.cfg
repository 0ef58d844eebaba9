SPECIFICATION Spec
CONSTANTS
  User = {u1, u2, u3}
  Nobody = Nobody
  Node = {n1, n2}
  NoNode = NoNode
  MaxFaults = 1
  MaxCrashes = 1
  MaxLosses = 1
INVARIANTS
  TypeOK
  OneNode
