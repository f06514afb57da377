SPECIFICATION Spec
CONSTANTS
  LinkIds <- OneId
  Requests <- OneRequest
  Payloads <- Hello
  Context <- HelloContext
  Served <- Nothing
  Mtus <- SomeMtus
  DefaultMtu = 5
  MtuModulus = 8
  Shared = 2
  MaxResp = 2
  MaxFaults = 0
  MaxReboots = 0
CHECK_DEADLOCK FALSE
INVARIANT KeysAgree
