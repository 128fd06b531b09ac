CONSTANTS
  Task = {t1, t2, t3}
  Idle = Idle
  Boot = Boot
  NULL = NULL
  SCHEDULER_TICK_INTERVAL = 2
  TICK_RANGE = 3
SPECIFICATION Spec
PROPERTIES LifeCycle NoStarvation DeadTaskReaped ImplementsRoundRobin
