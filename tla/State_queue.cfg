CONSTANTS
  Workers = {w1, w2}
  Readers = {}
  Batches = {b1, b2}
  BatchSize = 2
  ItemsInFinishedList = 1
  NoThread = NoThread
SPECIFICATION Spec
SYMMETRY Symmetry
INVARIANTS WindowAtRest EveryItemOnce BatchesStayTogether
PROPERTIES PublishedIsFinal QueueSpec
