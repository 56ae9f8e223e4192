SPECIFICATION Spec
CONSTANTS
  Guids = {g1, g2, g3}
  NoGuid = NoGuid
  Bases = {"a"}
  MaxVen = 1
  MaxInst = 1
  Params = {p1, p2}
  Routes = {r1, r2}
  Services = {s1}
  Paths = {x1, x2}
  Bits = {b1, b2}
  NoBits = NoBits
  Configs <- BlueGreenConfigs
  Failing = {}
  MaxEdits = 2
  MaxMishaps = 0
  LiveEdits = FALSE
  b1 = b1
  b2 = b2
  p1 = p1
  p2 = p2
  r1 = r1
  r2 = r2
  s1 = s1
  x1 = x1
  x2 = x2
CHECK_DEADLOCK FALSE
PROPERTY NeverShutdown
