SPECIFICATION Spec
CONSTANTS
  Tables <- MCTables
  Fields = {"age", "price"}
  Schemas <- MCSchemas
  MaxVersions = 3
  MaxTime = 1
INVARIANT
  ActiveIsPublished
CHECK_DEADLOCK FALSE
