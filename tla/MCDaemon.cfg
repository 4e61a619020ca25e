SPECIFICATION MCSpec
CONSTANTS
  Clients = {c1, c2}
  NoTerminal = NoTerminal
  MaxSessions = 2
  Threads = 1
  MaxContainers = 1
INVARIANTS
  PoliteIsServed
  OneLeftPerSession
PROPERTIES
  
  TermEndsDaemon
CHECK_DEADLOCK FALSE
