SPECIFICATION Spec
CONSTANTS
  MaxRepos = 1
  Dirs <- DirsValue
  Files <- FilesValue
  Entries <- EntriesValue
  Binary <- BinaryValue
  Long <- LongValue
  MaxFiles = 3
  MaxFailures = 0
  MaxEdits = 0
INVARIANT DispatchedIsHydrated
CHECK_DEADLOCK FALSE
