SPECIFICATION FairSettingsSpec
CONSTANTS
  WindowSecs = 2
  Default <- MCDefault
  Typed <- MCTyped
  BAD = BAD
  Bodies <- MCBodies
  Edits <- MCEdits
  MaxActs = 2
  MaxFailures = 2
INVARIANTS SettingsInv
PROPERTIES NothingReset SettingsSettle
CHECK_DEADLOCK FALSE
