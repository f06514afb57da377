SPECIFICATION Spec
CONSTANTS
  LinkIds <- Ids
  Requests <- OneRequest
  Payloads <- Nothing
  Context <- NoContext
  Served <- Nothing
  Mtus <- SomeMtus
  DefaultMtu = 5
  MtuModulus = 8
  Shared = 2
  MaxResp = 3
  MaxFaults = 2
  MaxReboots = 1
CHECK_DEADLOCK FALSE
INVARIANT ActiveAsSigned
PROPERTY EstablishedIsFrozen
