CONSTANTS
  BUSES = 2
  DEVICES = 2
  FUNCTIONS = 2
  Machine <- Machines
  NONE = NONE
  NULL = NULL
SPECIFICATION PciSpec
INVARIANT FirstController
PROPERTY OnlyBusMaster
