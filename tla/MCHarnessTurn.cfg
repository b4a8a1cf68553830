SPECIFICATION LiveSpec
CONSTANTS
  MaxTurn = 2
  Setups <- MCSetups
  UpdateKinds = {"tool", "bad"}
  StopReasons = {"end_turn"}
  OutboxSize = 1
  ToolLimit = 0
  MaxEntries = 2
  BufferSize = 2
CHECK_DEADLOCK FALSE
INVARIANTS
  EvidenceIsExact
  SettledTurnsAreQuiet
  GrantedMeansRecorded
  PermissionsEndWithTheirTurn
  TranscriptIsWhole
PROPERTIES
  TurnsSettle
