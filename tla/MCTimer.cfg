SPECIFICATION TimerSpec
CONSTANTS
  MaxTimers = 3
  Func = {f}
  NULL = NULL
  TickMod = 12
  Delays <- MCDelays
  Intervals <- MCIntervals
  LateAfter = 1
  MinInterval = 1
  MaxInterval = 2
  Work = 1
  PacketWork = 0
INVARIANTS
  IdInOnePlace
  HeapInTrueOrder
PROPERTIES
  
  RingsInOrder

