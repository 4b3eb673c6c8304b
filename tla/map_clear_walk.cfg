CONSTANTS
  a = a
  b = b
  c = c
  w1 = w1
  w2 = w2
  Key = {a, b}
  Val = {v1}
  PosZero = pz
  NegZero = nz
  Undefined = Undefined
  Idle = Idle
  Refused = {}
  Hash <- TwoKeys
  FirstCapacity = 2
  FirstSlots = 4
  Walk = {w1}
  MaxCapacity = 4
  ClearInWalk = TRUE
SPECIFICATION Spec
INVARIANTS AddedIsVisited
