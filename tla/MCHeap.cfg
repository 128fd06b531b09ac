CONSTANTS
  KERNEL_HEAP_SIZE = 30
  HEADER = 3
  ALIGN = 2
  Request = {1, 4, 5}
SPECIFICATION Spec
INVARIANTS HeapSound FullyCoalesced
PROPERTY OthersUntouched
