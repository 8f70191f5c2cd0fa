SPECIFICATION Spec
CONSTANTS
  ann = ann  bea = bea  role1 = role1  net1 = net1  net2 = net2  net3 = net3  r1 = r1  r2 = r2  None = None
  Uids <- MC_Uids
  Cns <- MC_Cns
  Roles <- MC_Roles
  Nets <- MC_Nets
  Requests <- MC_Requests
  Starts <- MC_Starts
SYMMETRY Symmetry
INVARIANT EditsAreLostOnlyToOverlap
INVARIANT DanglingIsKnown
INVARIANT ExpansionIsReachability
INVARIANT MembershipsMirrorExpansion
CHECK_DEADLOCK FALSE
