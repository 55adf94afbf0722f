\* One provider, two connections and sockets, one event; fairness.
SPECIFICATION ConnectionSpec
CONSTANTS
  None = None
  Codespaces = codespaces
  Runner = runner
  Providers = {codespaces}
  Preferred = codespaces
  Conns = {c1, c2}
  Procs = {p1}
  Sockets = {s1, s2}
  MaxEvents = 1
  MaxTries = 1
  Threshold = 2
INVARIANTS ReadyIsBacked
  
PROPERTY
  WorkServed
CHECK_DEADLOCK FALSE
