SPECIFICATION FairServerSpec
CONSTANTS
  Tables <- MCTables
  Fields <- MCFields
  Schemas <- MCSchemas
  Seed <- MCSeed
  Hash <- MCHash
  Values = {"a", "b"}
  NoValue = NoValue
  None = None
  BootTable = "user_profile"
  DraftTable = "item_profile"
  Clients = {"c1", "c2", "c3"}
  Ops = {"read", "write", "compare", "expand"}
  Keys = {"u1"}
  KeysOf <- ExpanderKeys
  Payloads <- OneRow
  WriteRefs = {1}
  InitShards = 1
  MaxShards = 3
  MaxVersions = 2
  MaxTime = 1
INVARIANTS
  ShardsMatchRouter
  LeakMeansHalfExpanded
PROPERTIES
  ExpansionKeepsData
  ExpansionsCatchUp
CHECK_DEADLOCK FALSE
