SPECIFICATION MCSpec
CONSTANTS
  Hosts = {tls, plain}
  Secure = {tls}
  Plain = plain
  NoHost = noHost
  MaxLength = 2
  MaxRequests = 3
  MaxHops = 1
INVARIANTS
  OwnAnswer
  
CHECK_DEADLOCK FALSE
