SPECIFICATION Spec
CONSTANTS
    Tasks <- BothTasks
    Pollers <- BothTasks
    MaxSockets = 2
    Packets <- EscapedPackets
    RxCap <- ReceiveRoom
    TxCap <- TransmitRoom
    MaxWrites = 1
    MaxBreaks = 0
    MaxFails = 0
INVARIANT FramesIntact
CHECK_DEADLOCK FALSE
