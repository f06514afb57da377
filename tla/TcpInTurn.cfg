SPECIFICATION FairInTurn
CONSTANTS
    Tasks <- BothTasks
    Pollers <- BothTasks
    MaxSockets = 2
    Packets <- EscapedPackets
    RxCap <- ReceiveRoom
    TxCap <- TransmitRoom
    MaxWrites = 3
    MaxBreaks = 2
    MaxFails = 1
INVARIANT OwnsItsSocket
PROPERTIES ImplementsChannel StreamIsDrained
