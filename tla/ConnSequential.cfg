SPECIFICATION RSpec
CONSTANTS
  Writers = {w1}
  Readers = {}
  Presets <- MCPresets
  Legacy <- OneLegacy
  Defaults <- MCDefaults
  KeychainLocs <- MCKeychain
  EnvLocs <- MCEnv
  Tokens = {t1, t2, t3}
  Ambient = ambient
  Hosts <- MCHosts
  Ids <- MCIds
  Faults = {}
  None = None
  LabelsOf <- MCLabels
  Offered <- MCOffered
  Given <- MCGiven
  Environments <- MCEnvironments
  Requests <- MCRequests
  Intervals = {0, 5}
  MaxInterval = 6
  FlowFaults = {"net", "other", "hasty"}
SYMMETRY TokenSymmetry
INVARIANTS ConnectedIsListed DisconnectErases UniqueIds ExplainAgrees GrantRedeemed KeepsPace
PROPERTIES AnswersTheRequest ImplementsStore
