\* Two tasks, two processes, one engine slot, one request at a time, three events.
SPECIFICATION Spec
CONSTANTS
  None = None
  MaxTasks = 2
  MaxMessages = 1
  MaxTries = 1
  Procs = {p1, p2}
  Slots = {e1}
  MaxRounds = 1
  Calls = {c1}
  MaxQueued = 2
  MaxEvents = 3
SYMMETRY Interchangeable
INVARIANTS
  ClaimsAreExclusive
  AnswerHearsUser
  
CHECK_DEADLOCK FALSE
