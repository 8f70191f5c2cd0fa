CONSTANTS
  None = None
  u1 = u1
  u2 = u2
  m1 = m1
  m2 = m2
  a1 = a1
  r1 = r1
  r2 = r2
  k1 = k1
  k2 = k2
  k3 = k3
  Accounts <- MCAccounts
  Mails <- OneMail
  Actors <- MCActors
  Links <- ThreeLinks
  Requests <- MCRequests
  MaxPerUser = 1
  MaxPerActor = 2
  Ops = {"issue", "rename"}
  Faults = {}
SPECIFICATION Spec
SYMMETRY Symmetry
CHECK_DEADLOCK FALSE
INVARIANT OneUsableUnlessRivals
INVARIANT IssuanceIsCapped
