CONSTANTS
  Apps <- StaticAddress
  COMMANDS_USED <- AllCommands
  LwipFirst = TRUE
  MAX_BLOCKS = 2
SPECIFICATION FairSpec
PROPERTY Recovers
