SPECIFICATION FairSpec
CONSTANTS
  Ids <- TwoKeys
  Peers <- OnePeer
  None = None
  DisplayOn = 1
  Periods <- TwoPeriods
  MaxResets = 1
  MaxFaults = 1
  MaxDrops = 1
CHECK_DEADLOCK FALSE
INVARIANTS AddressIsKept LinkIsToAnother
PROPERTIES HelloIsSent AnnouncesAgain WifiComesBack PressShows
