SPECIFICATION FairSpec
CONSTANTS
  MaxRepos = 2
  Dirs <- DirsValue
  Files <- FilesValue
  Entries <- EntriesValue
  Binary <- BinaryValue
  Long <- LongValue
  MaxFiles = 3
  MaxFailures = 2
  MaxEdits = 1
INVARIANTS RightRepository  PrecallsFollowTodo DegradesAlone
PROPERTY PromptIsAssembled
CHECK_DEADLOCK FALSE
