CONSTANTS
  Parts = {"own", "form", "tab", "list", "bulk", "refs"}
  Viewers <- MCViewers
  MaxFetchFails = 1
  Sheets <- MCSheets
  Fields = {"first", "second"}
  Values = {0, 1}
  Empty = 0
  MaxOthers = 2
  People = {"ada", "bob"}
  MaxSessions = 3
  Terms = {"", "a", "b"}
  MaxTyped = 3
  MaxMoves = 3
  Total = 4
  concurrency = 3
  Names = {"ops", "ops-eu", "ops-us"}
  Wanted = "ops"
  LookupLimit = 1
  SizeLimit = 2
SPECIFICATION Spec
INVARIANT OwnWriteIsSeen
 
INVARIANT PristineFollows
INVARIANT CacheIsOwn
INVARIANT BulkSettlesEach
INVARIANT AbsentIsEarned
PROPERTY OwnWriteShowsUp
PROPERTY EditsSurviveRefetch
PROPERTY UrlFollowsInput
CHECK_DEADLOCK FALSE
