SPECIFICATION WSpec
CONSTANTS
  Workspaces = {w1, w2}
  Events = {"unmount", "recreate"}
  Faults = {"crash", "stuck"}
  MaxFaults = 1
  Calls <- MCCalls
INVARIANT KeptStaysRegistered
PROPERTIES OnlyOrphansRemoved OrphansReclaimed StaleIsPruned CommitsSurvive
