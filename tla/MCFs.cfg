CONSTANTS
  FS_BLOCK_SIZE = 4
  PAGE_SIZE = 8
  INODES_PER_BLOCK = 2
  DIRECT_ZONES = 2
  POINTERS_PER_ZONE = 2
  PATH_COMPONENTS = 3
  MINIX_MAX_NAME_LENGTH = 2
  UINT = 64
  Image <- Disks
  Path <- Paths
  Offset = {0, 1, 3, 4, 7, 8, 11, 15, 16, 18, 24, 30, 32, 34}
  Count = {0, 1, 4, 6, 9, 30}
  Zero = Zero
  NUL = NUL
  NULL = NULL
SPECIFICATION Spec
INVARIANTS ReadsReturnTheFile OpenFollowsThePath
