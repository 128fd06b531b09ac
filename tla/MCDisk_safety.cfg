CONSTANTS
  SECTORS = 3
  DISK_DMA_MAX_SECTORS = 2
  MAX_COUNT = 3
  IF_VALUES = {TRUE}
  TIMEOUT_TICKS = 1
  TICK_RANGE = 2
SPECIFICATION Spec
INVARIANTS ReadCorrect WriteCorrect
PROPERTY LateTransfersHarmless
