SPECIFICATION Spec
CONSTANTS
  Creators = {gui, cli}
  Locations = {repos, caches}
  Events = {"mount", "unmount"}
  Faults = {"script"}
  MaxCalls = 1
CHECK_DEADLOCK FALSE
INVARIANT OneVolumeEach
PROPERTIES NeverMountedOver
