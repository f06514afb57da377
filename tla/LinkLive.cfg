SPECIFICATION FairSpec
CONSTANTS
  LinkIds <- Ids
  Requests <- Ids
  Payloads <- Page
  Context <- PageContext
  Served <- Page
  Mtus <- NoMtu
  DefaultMtu = 5
  MtuModulus = 8
  Shared = 1
  MaxResp = 2
  MaxFaults = 0
  MaxReboots = 2
CHECK_DEADLOCK FALSE
INVARIANT KeysAgree
PROPERTIES HandshakeCompletes RequestAnswered
