CONSTANTS
  None = None
  alice = alice
  bob = bob
  carol = carol
  r1 = r1
  r2 = r2
  t1 = t1
  t2 = t2
  Users <- MCUsers
  Requests <- MCRequests
  Tokens <- MCTokens
  FirstAccounts <- FirstTwo
  FirstAdmins <- OneAdmin
  Ops = {"delete", "create", "rename", "removeMember", "addMember", "updateGroup", "updateUser", "setPassword", "removePassword", "resetPassword", "lock", "unlock", "ownPassword", "expire", "unexpire"}
  Faults = {"audit", "database", "reply", "reread", "lookup", "crash", "outside"}
SPECIFICATION MCSpec
SYMMETRY Symmetry
INVARIANT SessionsFollowDirectory
INVARIANT NoSurvivor
CHECK_DEADLOCK FALSE
