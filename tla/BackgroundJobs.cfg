SPECIFICATION JobsSpec
CONSTANTS
  Tables <- MCTables
  Fields <- MCFields
  Schemas <- MCSchemas
  Seed <- MCSeed
  Hash <- MCHash
  BootTable = "user_profile"
  DraftTable = "item_profile"
  one = one
  Values = {0, 1, 2, 3, one}
  IntWidth = 4
  NoValue = NoValue
  None = None
  Keys = {"u1", "u2"}
  InitShards = 2
  MaxShards = 4
  MaxVersions = 3
  MaxTime = 3
  TTL = 1
  Batches = {"b1", "b2", "b3"}
  Files <- MCFiles
  ImportTable <- MCTableOf
  ImportVersion <- MCVersionOf
  MaxOps = 2
  OnlineKeys = {"u1"}
  OnlineRefs = {0, 2}
  Readers = {"q1"}
  Rows <- BothRow
  Tasks = {"t"}
  Runners = {"r1", "r2"}
  Inputs <- MCInputs
  BackfillRefs = {1, 2}
  KeyRank <- MCKeyRank
  Weight <- MCWeight
  MaxAttempts = 3
  Step = 2
  Offline <- MCOffline
  Text <- MCText
  Mixes <- AllMixes
INVARIANTS
  ImportedIsJournaled
  CommittedWasWritten
  TasksSettle
  ComparedOnce
  DifferencesReported
  ScanSparesYoung
  InsertsOnlyAbsent
PROPERTIES
  RollbackRestores
  MergeKeepsOtherFields
  ScanIsComplete
  ResultsAddUp
  RetriesCountOnce
CHECK_DEADLOCK FALSE
