SPECIFICATION MCSpec
CONSTANTS
  deploy = deploy
  vault = vault
  typo = typo
  OLD_SLOTS = 2
  NEW_SLOTS = 4
INVARIANTS
  NeverOrphaned
  EngineReadsTheValue
  SeededAfterLaunch
PROPERTY ReachesHandover
CHECK_DEADLOCK FALSE
