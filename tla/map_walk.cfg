CONSTANTS
  a = a
  b = b
  c = c
  w1 = w1
  w2 = w2
  Key = {a, b, c, pz, nz}
  Val = {v1, v2}
  PosZero = pz
  NegZero = nz
  Undefined = Undefined
  Idle = Idle
  Refused = {c}
  Hash <- FiveKeys
  FirstCapacity = 2
  FirstSlots = 4
  Walk = {w1, w2}
  MaxCapacity = 4
  ClearInWalk = FALSE
SPECIFICATION Spec
INVARIANTS MapInv IndexExact WalkExact
PROPERTIES ImplementsOrderedMap StorageBounded
