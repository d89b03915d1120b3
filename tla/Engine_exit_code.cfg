CONSTANTS
  v1 = v1
  v2 = v2
  v3 = v3
  t1 = t1
  t2 = t2
  Instances = {y1}
  Children = {c1}
  Videos = {v1}
  Targets = {t1}
  TargetOf <- OneTarget
  Failures = {"input"}
  Grows = FALSE
  Deletes = FALSE
  MaxKills = 0
  Nobody = Nobody
SPECIFICATION Spec
INVARIANTS SucceededMeansVideo
