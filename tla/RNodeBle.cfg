SPECIFICATION Spec
CONSTANTS
    RingSize = 6
    FrameMax = 1
    NotifyMin = 3
    NotifyMax = 5
    WriteMax = 4
    Script <- ThreeFrames
    Randoms <- JustFend
    MaxConns = 2
    MaxFails = 1
INVARIANTS SlotsAreStable CommandsIntact AnswersIntact RadioAsTold SubscriberIsReady
