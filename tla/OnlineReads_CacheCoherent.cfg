SPECIFICATION ServerSpec
CONSTANTS
  Tables <- MCTables
  Fields <- MCFields
  Schemas <- MCSchemas
  Seed <- MCSeed
  Hash <- MCHash
  Values = {"a", "b"}
  NoValue = NoValue
  None = None
  BootTable = "user_profile"
  DraftTable = "item_profile"
  Clients = {"c1", "c2"}
  Ops = {"read", "write"}
  Keys = {"u1"}
  KeysOf <- SharedKeys
  Payloads <- TwoRows
  WriteRefs = {1}
  InitShards = 1
  MaxShards = 1
  MaxVersions = 2
  MaxTime = 1
INVARIANTS
  CacheCoherent
CHECK_DEADLOCK FALSE
