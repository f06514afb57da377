SPECIFICATION FairSpec
CONSTANTS
    QueueRoom = 2
    MaxAnnounces = 3
    MaxTcpFrames = 3
    MaxHeard = 3
INVARIANTS TransportIsExclusive RadioListens
PROPERTY MainComesRound
