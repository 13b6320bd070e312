SPECIFICATION Spec
CONSTANTS
  Callers = {p1, p2}
  Users = {u1, u2}
  Nonces = {n1, n2}
  Faults <- AllFaults
  None = None
INVARIANTS OwnCodeOnly TokenMatchesIdentity
PROPERTY LoginReturns
