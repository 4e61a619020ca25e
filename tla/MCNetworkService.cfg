SPECIFICATION MCSpec
CONSTANTS
  Networks = {default, n1, n2}
  Default = default
  Containers = {c1, c2}
  First = c1
  Cidrs <- Blocks
  Gateway = gateway
  Subnet = subnet
  None = none
  MaxRows = 3
  MaxNetworks = 3
  MaxCrashes = 1
INVARIANTS
  TypeOK
  JailAddressIsLeased
PROPERTIES
  LeaveCutsOwnLink
  BridgeTakenOnlyAfterLoss
CHECK_DEADLOCK FALSE
