SPECIFICATION Spec
CONSTANTS
  Clients = {c1, c2}
  Daemons = {d0, d1, d2, d3, d4}
  Retries = 1
  MaxConnects = 3
  Agents = {d4}
  Faults = {"slow", "crash", "missing"}
  None = None
CHECK_DEADLOCK FALSE
INVARIANTS SingleOwner SomeoneAnswers
PROPERTIES EveryDialEnds
