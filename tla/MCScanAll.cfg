SPECIFICATION Spec
CONSTANTS
  Keys = {k1, k2}
  BatchSize = 2
  MaxScans = 3
  MaxChanges = 2
INVARIANTS
  StableKeysHandled
  ValuesExportInOrder
CHECK_DEADLOCK FALSE
