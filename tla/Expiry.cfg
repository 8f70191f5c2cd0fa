SPECIFICATION FairSpec
CONSTANTS
  overview = overview  config = config  s1 = s1  s2 = s2
  u1 = u1  a1 = a1  a2 = a2  d1 = d1  d2 = d2  None = None
  Callers <- MC_Callers
  Tests <- MC_Tests
  Starts <- MC_Starts
  Users <- MC_Users
  Admins <- MC_Admins
  Dates <- MC_Dates
  MaxChanges = 3
  FirstLeft = 3
INVARIANT AnswerIsFresh
INVARIANT RemindedOnce
INVARIANT RowAccountsForAll
PROPERTY NobodyIsWedged
PROPERTY DueIsReminded
CHECK_DEADLOCK FALSE
