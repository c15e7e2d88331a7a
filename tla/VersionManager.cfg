SPECIFICATION Spec
CONSTANTS
  Tables <- MCTables
  Fields = {"age", "price"}
  Schemas <- MCSchemas
  MaxVersions = 4
  MaxTime = 3
INVARIANTS
  TypeOK
  LineageOK
  ActiveSelectable
  PublishedIsActive
  ActiveLostOnlyByRollback
  UndatedOnlyByRollback
PROPERTIES
  RolledBackForever
  PublishTimeIsFinal
CHECK_DEADLOCK FALSE
