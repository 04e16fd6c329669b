\* Custody events, manifests and an off-line device with lost answers.
SPECIFICATION Spec
CONSTANTS
  None = None
  Nodes <- MCNodes
  Lots <- MCLots
  KindOf <- MCKindOf
  InitialQuantity = 2
  Labelled <- MCLabelled
  Movements <- MCMovements
  Scans <- MCScans
  Routes <- MCRoutes
  Lines <- MCLines
  MaxDepth = 3
  MaxEvents = 3
  MaxBehind = 1
  MaxScans = 2
  MaxBatches = 1
INVARIANTS
  TypeOK
  ContainmentIsATree
  RowsReplayTheLog
  ScansContinueHistory
  ScansAppliedOnce
  AppliedBatchesAreClean
  EveryBatchCommits
CHECK_DEADLOCK FALSE
