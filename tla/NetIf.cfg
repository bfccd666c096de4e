CONSTANTS
  Apps <- AllKinds
  COMMANDS_USED <- AllCommands
  LwipFirst = TRUE
  MAX_BLOCKS = 2
SPECIFICATION FairSpec
INVARIANTS TypeOK NetifInUse NoNetifLeak StateOwnsNetif ConnectedHasAddress DeinitFreesAll
PROPERTIES ReportsStayLinked Recovers
