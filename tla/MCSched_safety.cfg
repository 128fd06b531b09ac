CONSTANTS
  Task = {t1, t2, t3, t4}
  Idle = Idle
  Boot = Boot
  NULL = NULL
  SCHEDULER_TICK_INTERVAL = 2
  TICK_RANGE = 5
SPECIFICATION Spec
INVARIANTS RingSound NoUseAfterFree CpuBelongsToCurrent PrivateStacks
SYMMETRY Symmetry
