SPECIFICATION Spec
CONSTANTS
  Threads = {t1, t2}
  Creators = {t1}
  Mkdirs = {}
  Files = {f1, f2}
  fat_length = 9
  EOChain = 100
  INODE_MAGIC = 200
  DISK_SECTOR_SIZE = 2
  Sizes = {0}
  DirSize = 2
  Grow = {2}
  MaxLength = 6
  None = None
SYMMETRY Symmetry
INVARIANT ChainCoversLength
CHECK_DEADLOCK FALSE
