SPECIFICATION Spec
CONSTANTS
  Resources = {ra, rb}
  Guids = {g1, g2, g3}
  NoGuid = NoGuid
  Spaces = {s1, s2}
  NoSpace = NoSpace
  Names = {"db", "mq"}
  Plans = {plan1, plan2}
  NoPlan = NoPlan
  Tags = {t0, t1, t2}
  NoTags = t0
  Urls = {u0, u1}
  NoUrl = u0
  Params = {m1, m2}
  Apps = {a1}
  Configs <- TwoNames
  Existing = {}
  Failing <- Anything
  MaxMishaps = 1
  MaxEdits = 1
  ra = ra
  rb = rb
  s1 = s1
  s2 = s2
  plan1 = plan1
  plan2 = plan2
  t0 = t0
  t1 = t1
  t2 = t2
  u0 = u0
  u1 = u1
  m1 = m1
  m2 = m2
CHECK_DEADLOCK FALSE
INVARIANTS TypeOK OwnName NotShared
PROPERTY NeverForgets
