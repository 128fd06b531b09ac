CONSTANTS
  PAGE_SIZE = 2
  ADDRESS_SPACE = 12
  NULL = NULL
  Zero = Zero
  Stale = Stale
  Mm = {m1, m2}
  File = {f1, f2, f3}
  Program <- Programs
  PAGE_TABLE_ENTRIES = 3
  PD_POOL = 2
  PT_POOL = 3
  FRAMES = 4
  USER_STACK_BASE = 8
SPECIFICATION Spec
INVARIANTS AreasDisjoint PoolsAccounted FilesAccounted Cr3Valid ImageCorrect
SYMMETRY Symmetry
