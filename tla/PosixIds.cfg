SPECIFICATION Spec
CONSTANTS
  n1 = n1  n2 = n2  r1 = r1  r2 = r2  None = None
  Names <- MC_Names
  Requests <- MC_Requests
  Last = 3
  Attempts = 2
  RidBase = 10
  Starts <- MC_Starts
SYMMETRY Symmetry
INVARIANT SharedNumbersHaveRivals
INVARIANT BareNumbersAreKnown
CHECK_DEADLOCK FALSE
