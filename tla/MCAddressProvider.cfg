SPECIFICATION Spec
CONSTANTS
  Cidrs <- MCCidrs
  Identifiers = {c1, c2, c3}
  Gateway = gateway
  Subnet = subnet
  NoAddress = noAddress
INVARIANTS
  TypeOK
  NoSharedAddress
  ReservedForGood
PROPERTIES
  InitializeReturns
  LeaseSpec
