SPECIFICATION Spec
CONSTANTS
  ann = ann  bea = bea  pol1 = pol1  pol2 = pol2  r1 = r1  r2 = r2
  None = None  Permanent = Permanent  Garbled = Garbled  Root = Root  Admin = Admin
  Accounts <- MC_Accounts
  Policies <- MC_Policies
  Readers <- MC_Readers
  Writers <- MC_Writers
  Starts <- MC_Starts
  MaxTime = 3
  MaxFailures = 2
  OverdueGrace = 1
  ReadLimit = 2
  PageSize = 1
  MatchBefore = 2
  MatchAfter = 1
INVARIANT LockedNeverReadsUsable
INVARIANT FiguresAgreeWithRows
INVARIANT MissedIsWarned
INVARIANT OverdueIsMissed
INVARIANT OriginsAreRight
INVARIANT WindowIsWhole
CHECK_DEADLOCK FALSE
