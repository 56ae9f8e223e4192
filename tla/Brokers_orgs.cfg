SPECIFICATION Spec
CONSTANTS
  Offerings = {v, w}
  Plans = {v1, v2, w1}
  ServiceOf <- PlanServices
  Orgs = {o1, o2}
  None = None
  Urls = {u1}
  Passwords = {k1, k2}
  Catalogs = {c1}
  NoCatalog = NoCatalog
  Configs <- OneOrg
  Failing = {}
  MaxMishaps = 0
  MaxEdits = 1
  v = v
  w = w
  v1 = v1
  v2 = v2
  w1 = w1
  o1 = o1
  o2 = o2
  u1 = u1
  u2 = u2
  k1 = k1
  k2 = k2
  c1 = c1
  c2 = c2
CHECK_DEADLOCK FALSE
INVARIANT NotBeyond
