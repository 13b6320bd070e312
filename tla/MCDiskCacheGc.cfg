SPECIFICATION TrimSpec
CONSTANTS
  f1 = f1
  f2 = f2
  f3 = f3
  Runners = {r1, r2}
  Files = {f1, f2, f3}
  Size <- MCSize
  Cap = 2
  Bazel = {"add", "touch"}
  TrimFaults = {"stuck"}
  MaxRuns = 1
  MaxTime = 4
SYMMETRY Alike
CHECK_DEADLOCK FALSE
INVARIANT TrimTypeOK
PROPERTIES NoOverEviction OldestFirst TrimsToCap
