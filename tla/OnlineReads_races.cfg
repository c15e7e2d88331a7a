SPECIFICATION ServerSpec
CONSTANTS
  Tables <- MCTables
  Fields <- MCFields
  Schemas <- EmptyLayout
  Seed <- MCSeed
  Hash <- MCHash
  Values = {"a", "b"}
  NoValue = NoValue
  None = None
  BootTable = "user_profile"
  DraftTable = "item_profile"
  Clients = {c1, c2}
  Ops = {"read", "write", "merge", "compare", "delete", "switch"}
  Keys = {"u1"}
  KeysOf <- SharedKeys
  Payloads <- OneRow
  WriteRefs = {1, 2}
  InitShards = 1
  MaxShards = 1
  MaxVersions = 3
  MaxTime = 1
SYMMETRY ClientSymmetry
INVARIANTS
  ServerTypeOK
  FilteredReads
PROPERTIES
  StaleOnlyByRace
CHECK_DEADLOCK FALSE
