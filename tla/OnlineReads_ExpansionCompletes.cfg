SPECIFICATION FairServerSpec
CONSTANTS
  Tables <- MCTables
  Fields <- MCFields
  Schemas <- MCSchemas
  Seed <- MCSeed
  Hash <- MCHash
  Values = {"a", "b"}
  NoValue = NoValue
  None = None
  BootTable = "user_profile"
  DraftTable = "item_profile"
  Clients = {"c1", "c2"}
  Ops = {"read", "expand"}
  Keys = {"u1"}
  KeysOf <- SharedKeys
  Payloads <- TwoRows
  WriteRefs = {1}
  InitShards = 1
  MaxShards = 2
  MaxVersions = 2
  MaxTime = 1
PROPERTIES
  ExpansionCompletes
CHECK_DEADLOCK FALSE
