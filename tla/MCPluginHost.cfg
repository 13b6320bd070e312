SPECIFICATION HostSpec
CONSTANTS
  p1 = p1
  p2 = p2
  p3 = p3
  p4 = p4
  s1 = s1
  s2 = s2
  s3 = s3
  Plugins = {p1, p2, p3, p4}
  Id <- Alike
  Stem <- Alike
  Services <- MCServices
  Elsewhere = {p2}
  Installs = {p2}
  PluginFaults = {"silent", "hang", "unhealthy", "die", "crash"}
  MaxStarts = 2
  NoPlugin = NoPlugin
CHECK_DEADLOCK FALSE
INVARIANT RoutesToImplementer
PROPERTY FvdServes
