SPECIFICATION FairSpec
CONSTANTS
  Nodes <- FourNodes
  Ifaces <- DiamondIfaces
  NoIface = NoIface
  Sent = Sent
  Broken = Broken
  Recasts = {Recast}
  Owner <- DiamondOwner
  Hears <- DiamondHears
  Dests <- OneDest
  Home <- HomeH
  Announces <- OneAnnounce
  AnnDest <- AnnDestOne
  Data <- OneData
  DataDest <- DataDestOne
  PATHFINDER_M = 2
  HopModulus = 4
  MaxFaults = 1
  MaxChurn = 1
CHECK_DEADLOCK FALSE
INVARIANTS ActedOnOnce PathIsAWalk RoutesLeadHome
PROPERTIES RouteNeedsNewAnnounce FloodReachesAll DataFollowsRoute
