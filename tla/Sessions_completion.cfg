CONSTANTS
  None = None
  alice = alice
  bob = bob
  carol = carol
  r1 = r1
  r2 = r2
  t1 = t1
  t2 = t2
  Users <- MCUsers
  Requests <- MCRequests
  Tokens <- MCTokens
  FirstAccounts <- FirstTwo
  FirstAdmins <- OneAdmin
  Ops = {"delete", "rename", "removeMember", "updateGroup", "setPassword", "lock", "ownPassword", "expire"}
  Faults = {"database", "lookup"}
SPECIFICATION FairMCSpec
PROPERTY RevocationCompletes
CHECK_DEADLOCK FALSE
