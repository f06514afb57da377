SPECIFICATION FairLoopSpec
CONSTANTS
  Callers <- TwoCallers
  Slots <- ThreeSlots
INVARIANTS OneLoop StartedStaysUp
PROPERTY StopEndsLoop
