SPECIFICATION RcSpec
CONSTANTS
  c1 = c1
  c2 = c2
  x = x
  y = y
  Appliers = {fv, fvd}
  Configs = {c1, c2}
  Lines = {x, y}
  Files <- MCFiles
  Edits = 2
  RcFaults = {"crash", "unreadable"}
  MaxApplies = 1
SYMMETRY MCSymmetry
CHECK_DEADLOCK FALSE
INVARIANT RcTypeOK
PROPERTIES OneRegion Preserves NeverReversed
