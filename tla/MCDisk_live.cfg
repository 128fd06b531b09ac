CONSTANTS
  SECTORS = 2
  DISK_DMA_MAX_SECTORS = 1
  MAX_COUNT = 2
  IF_VALUES = {TRUE, FALSE}
  TIMEOUT_TICKS = 2
  TICK_RANGE = 4
SPECIFICATION Spec
PROPERTIES TimeoutReturns AnswerReturns
