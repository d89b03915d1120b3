CONSTANTS
  v1 = v1
  v2 = v2
  v3 = v3
  t1 = t1
  t2 = t2
  Instances = {y1, y2}
  Children = {c1, c2, c3}
  Videos = {v1}
  Targets = {t1}
  TargetOf <- OneTarget
  Failures = {"mkdir", "input"}
  Grows = FALSE
  Deletes = FALSE
  MaxKills = 1
  Nobody = Nobody
SPECIFICATION FairSpec
INVARIANTS ProcessesBounded
PROPERTIES EveryVideoConverted
