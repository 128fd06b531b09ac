CONSTANTS
  TTY_QUEUE_SIZE = 3
  MAX_COUNT = 2
  MAX_KEYS = 9
SPECIFICATION Spec
INVARIANTS NoLoss LossInWholeTurns
PROPERTIES InOrder KeyIsRead
