SPECIFICATION Spec
CONSTANTS
  Writers = {w1, w2}
  Readers = {}
  Presets <- TwoPresets
  Legacy = {}
  Defaults <- MCDefaults
  KeychainLocs <- MCKeychain
  EnvLocs <- MCEnv
  Tokens = {t1, t2}
  Ambient = ambient
  Hosts <- MCHosts
  Ids <- MCIds
  Faults = {}
  None = None
INVARIANT ConnectedIsListed
