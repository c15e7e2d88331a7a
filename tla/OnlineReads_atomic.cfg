SPECIFICATION ServerSpec
CONSTANTS
  Tables <- MCTables
  Fields <- MCFields
  Schemas <- MCSchemas
  Seed <- MCSeed
  Hash <- MCHash
  Values = {"b"}
  NoValue = NoValue
  None = None
  BootTable = "user_profile"
  DraftTable = "item_profile"
  Clients = {"c1", "c2"}
  Ops = {"read", "write", "delete", "switch"}
  Keys = {"u1", "u2"}
  KeysOf <- OwnKeys
  Payloads <- OneRow
  WriteRefs = {1}
  InitShards = 1
  MaxShards = 1
  MaxVersions = 3
  MaxTime = 2
PROPERTIES
  ImplementsAtomicStore
CHECK_DEADLOCK FALSE
