CONSTANTS
  Workers = {w1}
  Readers = {r1, r2}
  Batches = {b1}
  BatchSize = 2
  ItemsInFinishedList = 1
  NoThread = NoThread
SPECIFICATION FairSpec
INVARIANTS TypeOK SnapshotIsCurrent
PROPERTIES FeedSpec CallsReturn
