CONSTANTS
  Apps <- InOrder
  COMMANDS_USED <- AllCommands
  LwipFirst = TRUE
  MAX_BLOCKS = 2
SPECIFICATION Spec
INVARIANTS DeinitFreesAll
