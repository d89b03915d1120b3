CONSTANTS
  v1 = v1
  v2 = v2
  v3 = v3
  t1 = t1
  t2 = t2
  Instances = {y1}
  Children = {c1, c2}
  Videos = {v1, v2, v3}
  Targets = {t1, t2}
  TargetOf <- SameName
  Failures = {"mkdir", "input", "codec", "write"}
  Grows = TRUE
  Deletes = TRUE
  MaxKills = 0
  Nobody = Nobody
SPECIFICATION Spec
INVARIANTS TypeOK OneWriter SkipsExisting
PROPERTIES FinishedVideoKept DirectorySpec
