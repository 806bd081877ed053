SPECIFICATION IntakeSpec
CONSTANTS
  Tokens = {"<think>", "</think>", "fence", "ticks", "A", "B", "null", "prose", "[", "]", "{", "}", "word", "label]", "[label", "label[]"}
  IntakeTokens = {"<think>", "</think>", "[", "]", "{", "}", "word", "label]", "[label", "label[]"}
  MaxTokens = 6
INVARIANTS ActionsFromTheRightPlace FieldsOfTheLastList
PROPERTY ClosedBlockIsFinal
CHECK_DEADLOCK FALSE
