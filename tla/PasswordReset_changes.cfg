CONSTANTS
  None = None
  u1 = u1
  u2 = u2
  m1 = m1
  m2 = m2
  a1 = a1
  r1 = r1
  r2 = r2
  k1 = k1
  k2 = k2
  k3 = k3
  Accounts <- OneAccount
  Mails <- MCMails
  Actors <- MCActors
  Links <- OneLink
  Requests <- MCRequests
  MaxPerUser = 1
  MaxPerActor = 2
  Ops = {"lock", "unlock", "delete", "create", "password", "mail", "issue", "confirm"}
  Faults = {"audit", "database", "reply", "lookup", "crash", "outside"}
SPECIFICATION Spec
SYMMETRY Symmetry
INVARIANT VoidLinksAreRetired
INVARIANT LinksFollowDirectory
INVARIANT ResetHitsItsAccount
INVARIANT SingleUse
