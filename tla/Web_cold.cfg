CONSTANTS
  Parts = {"form"}
  Viewers <- MCViewers
  MaxFetchFails = 1
  Sheets <- ColdSheet
  Fields = {"first", "second"}
  Values = {0, 1}
  Empty = 0
  MaxOthers = 2
  People = {"ada", "bob"}
  MaxSessions = 3
  Terms = {"", "a", "b"}
  MaxTyped = 3
  MaxMoves = 3
  Total = 4
  concurrency = 3
  Names = {"ops", "ops-eu", "ops-us"}
  Wanted = "ops"
  LookupLimit = 1
  SizeLimit = 2
SPECIFICATION Spec
PROPERTY FirstArrivalIsAdopted
CHECK_DEADLOCK FALSE
