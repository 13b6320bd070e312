SPECIFICATION Spec
CONSTANTS
  Updaters = {fv, rpc}
  InDaemon = {rpc}
  MaxVersion = 3
  Odd = {3}
  Faults = {"net", "attach", "remove", "copy", "crash", "hang"}
  MaxCalls = 1
  MaxReleases = 2
  None = None
CHECK_DEADLOCK FALSE
INVARIANTS AppStays NotifiesOnce
PROPERTIES NoDowngrade UpdateIsNoticed
