CONSTANTS
  SCHEDULER_TICK_INTERVAL = 2
  UserException = {0, 13, 17}
SPECIFICATION Spec
INVARIANTS StubsBalanced EoiOwnRequest EveryTrapHandled Interruptible StackDepth Exclusive
PROPERTY RequestsServed
