SPECIFICATION Spec
CONSTANTS
  Writers = {w1, w2}
  Readers = {}
  Presets <- ClashPresets
  Legacy = {}
  Defaults <- ClashDefaults
  KeychainLocs <- ClashKeychain
  EnvLocs = {}
  Tokens = {t1, t2}
  Ambient = ambient
  Hosts <- ClashHosts
  Ids <- ClashIds
  Faults <- AllFaults
  None = None
SYMMETRY RaceSymmetry
INVARIANTS TokenConfinement StoredBeforeListed
