SPECIFICATION Spec
CONSTANTS
  Threads = {t1, t2}
  Creators = {t1}
  Mkdirs = {t1}
  Files = {f1, f2}
  fat_length = 7
  EOChain = 100
  INODE_MAGIC = 200
  DISK_SECTOR_SIZE = 2
  Sizes = {0, 5}
  DirSize = 2
  Grow = {3}
  MaxLength = 6
  None = None
SYMMETRY Symmetry
INVARIANTS NoSharing NoDangling
PROPERTIES FullOnlyWhenFull AppendOnly
CHECK_DEADLOCK FALSE
