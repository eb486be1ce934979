-------------------------------- MODULE Fat --------------------------------
(***************************************************************************)
(* The file allocation table (filesys/fat.c) and the calls that change it: *)
(* filesys_create and sys_mkdir allocate the cluster of an inode and the   *)
(* clusters of its data, inode_write_at appends clusters, and the last     *)
(* inode_close of a removed file gives everything back.                    *)
(*                                                                         *)
(* sys_create, sys_write and sys_remove run under filesys_lock, sys_mkdir  *)
(* and sys_close do not, and the write_lock of struct fat_fs is never      *)
(* taken.  A step is one search for a free cluster, one claim of the       *)
(* cluster found, or the freeing of one entry by fat_remove_chain; its     *)
(* test of last_clst is a step of its own.                                 *)
(***************************************************************************)
EXTENDS Integers, FiniteSets

CONSTANTS
  Threads,
  Creators,          \* threads that call sys_create and sys_write
  Mkdirs,            \* threads that call sys_mkdir
  Files,             \* inodes
  fat_length,        \* entries of the table
  EOChain,
  INODE_MAGIC,
  DISK_SECTOR_SIZE,
  Sizes,             \* initial sizes given to sys_create, in bytes
  DirSize,           \* size of a new directory
  Grow,              \* how many bytes past the end a write reaches
  MaxLength,         \* bound on the length of a file
  None               \* the null pointer

ASSUME ThreadAssumption ==
  Creators \subseteq Threads /\ Mkdirs \subseteq Threads /\ None \notin Threads

ASSUME TableAssumption ==
  /\ fat_length \in Nat /\ fat_length > 4
  /\ EOChain \in Nat /\ EOChain >= fat_length
  /\ INODE_MAGIC \in Nat /\ INODE_MAGIC >= fat_length
  /\ INODE_MAGIC # EOChain

ASSUME SizeAssumption ==
  /\ DISK_SECTOR_SIZE \in Nat \ {0}
  /\ Sizes \subseteq Nat /\ DirSize \in Nat
  /\ Grow \subseteq Nat \ {0}
  /\ MaxLength \in Nat

VARIABLES
  fat,           \* the table in memory
  last_clst,     \* the cluster allocated last
  filesys_lock,  \* its holder
  state,         \* of an inode: "none", "making", "live", or "wrecked" when
                 \* its sector was overwritten with zeros
  clst,          \* the cluster the inode is stored in
  start,         \* inode_disk.start
  length,        \* inode_disk.length
  pc,            \* where the thread is
  goal,          \* what it allocates for
  file,          \* the inode its call is about
  todo,          \* clusters still to allocate
  arg,           \* argument of fat_create_chain
  first,         \* local `start' of fat_allocate
  new,           \* what find_free_cluster returned
  rel,           \* local `clst' of fat_remove_chain
  rest,          \* chain to remove after this one
  freed          \* entry it has cleared and not yet compared with last_clst,
                 \* EOChain if there is none

fatVars  == <<fat, last_clst>>
inodeVars == <<state, clst, start, length>>
callVars == <<goal, file, todo, arg, first>>
relVars  == <<rel, rest, freed>>
vars == <<fat, last_clst, filesys_lock, state, clst, start, length,
          pc, goal, file, todo, arg, first, new, rel, rest, freed>>

Cluster == 0 .. fat_length - 1

ROOT_DIR_CLUSTER == 1

\* ROOT_DIR_SECTOR is also the first sector of the table: entries 0 to 3 are
\* the start, length, magic and isdir of the root inode.
FirstFree == 4

FieldTypes ==
  /\ fat \in [Cluster -> Nat]
  /\ last_clst \in Cluster
  /\ filesys_lock \in Threads \cup {None}
  /\ state \in [Files -> {"none", "making", "live", "wrecked"}]
  /\ clst \in [Files -> Cluster]
  /\ start \in [Files -> Cluster]
  /\ length \in [Files -> Nat]
  /\ pc \in [Threads -> {"idle", "find", "claim", "add", "write",
                         "release", "oob", "panic"}]
  /\ goal \in [Threads -> {"inode", "mkdir", "data", "dir", "head", "extend"}]
  /\ file \in [Threads -> Files \cup {None}]
  /\ todo \in [Threads -> Nat]
  /\ arg \in [Threads -> Cluster]
  /\ first \in [Threads -> Cluster]
  /\ new \in [Threads -> Cluster]
  /\ rel \in [Threads -> Cluster \cup {EOChain}]
  /\ rest \in [Threads -> Cluster \cup {EOChain}]

TypeOK == FieldTypes /\ freed \in [Threads -> Cluster \cup {EOChain}]

\* fat_fs_init and fat_open after do_format.
Init ==
  /\ fat = [c \in Cluster |-> CASE c = 0 -> ROOT_DIR_CLUSTER [] c = 2 -> INODE_MAGIC
                                [] c = 3 -> 1 [] OTHER -> 0]
  /\ last_clst = 2
  /\ filesys_lock = None
  /\ state = [f \in Files |-> "none"]
  /\ clst = [f \in Files |-> 0]
  /\ start = [f \in Files |-> 0]
  /\ length = [f \in Files |-> 0]
  /\ pc = [t \in Threads |-> "idle"]
  /\ goal = [t \in Threads |-> "inode"]
  /\ file = [t \in Threads |-> None]
  /\ todo = [t \in Threads |-> 0]
  /\ arg = [t \in Threads |-> 0]
  /\ first = [t \in Threads |-> 0]
  /\ new = [t \in Threads |-> 0]
  /\ rel = [t \in Threads |-> EOChain]
  /\ rest = [t \in Threads |-> EOChain]
  /\ freed = [t \in Threads |-> EOChain]

-----------------------------------------------------------------------------
(* The table.                                                              *)

bytes_to_sectors(size) == (size + DISK_SECTOR_SIZE - 1) \div DISK_SECTOR_SIZE

\* What fat_get finds on the way from c to the end of its chain.
Chain(c) ==
  LET walk[n \in 0 .. fat_length] ==
        IF n = 0 THEN c
        ELSE IF walk[n - 1] \in Cluster THEN fat[walk[n - 1]] ELSE walk[n - 1]
  IN  {walk[n] : n \in 0 .. fat_length} \cap Cluster

FirstOf(cs) == {c \in cs : \A d \in cs : c <= d}

\* Mutant: after the wrap the first cluster is taken without testing its entry.
find_free_cluster_Untested ==
  LET above == {c \in last_clst + 1 .. fat_length - 1 : fat[c] = 0}
  IN  IF above # {} THEN FirstOf(above) ELSE {2}

\* Next fit: from last_clst + 1 to the end of the table, then from 2 to
\* last_clst - 1; 0 if every entry is in use.
find_free_cluster ==
  LET above == {c \in last_clst + 1 .. fat_length - 1 : fat[c] = 0}
      below == {c \in 2 .. last_clst - 1 : fat[c] = 0}
  IN  IF above # {} THEN FirstOf(above)
      ELSE IF below # {} THEN FirstOf(below) ELSE {0}

\* The cluster that a new one is linked to: the end of the chain, except that
\* the chain of the root directory is not followed.
Ends(c) ==
  IF c = ROOT_DIR_CLUSTER THEN {c} ELSE {e \in Chain(c) : fat[e] = EOChain}

\* Mutant: the entry of the new cluster is not set.
fat_create_chain_NoMark(t) ==
  \/ /\ new[t] = 0
     /\ UNCHANGED fatVars
  \/ /\ new[t] # 0
     /\ last_clst' = new[t]
     /\ \/ arg[t] = 0 /\ UNCHANGED fat
        \/ /\ arg[t] # 0
           /\ \E e \in Ends(arg[t]) : fat' = [fat EXCEPT ![e] = new[t]]

\* fat_create_chain once find_free_cluster has returned: the new cluster ends
\* a chain of its own, or the chain that begins at arg.
fat_create_chain(t) ==
  \/ /\ new[t] = 0
     /\ UNCHANGED fatVars
  \/ /\ new[t] # 0
     /\ last_clst' = new[t]
     /\ \/ /\ arg[t] = 0
           /\ fat' = [fat EXCEPT ![new[t]] = EOChain]
        \/ /\ arg[t] # 0
           /\ \E e \in Ends(arg[t]) :
                fat' = [fat EXCEPT ![new[t]] = EOChain, ![e] = new[t]]

-----------------------------------------------------------------------------
(* What a thread does next.                                                *)

\* Call fat_create_chain(a) with n clusters to go for purpose g.
Ask(t, g, n, a, s) ==
  /\ pc' = [pc EXCEPT ![t] = "find"]
  /\ goal' = [goal EXCEPT ![t] = g]
  /\ todo' = [todo EXCEPT ![t] = n]
  /\ arg' = [arg EXCEPT ![t] = a]
  /\ first' = [first EXCEPT ![t] = s]

GoTo(t, where) ==
  /\ pc' = [pc EXCEPT ![t] = where]
  /\ goal' = [goal EXCEPT ![t] = "inode"]
  /\ todo' = [todo EXCEPT ![t] = 0]
  /\ arg' = [arg EXCEPT ![t] = 0]

\* Return from the system call.
Return(t) ==
  /\ GoTo(t, "idle")
  /\ first' = [first EXCEPT ![t] = 0]
  /\ file' = [file EXCEPT ![t] = None]
  /\ filesys_lock' = IF filesys_lock = t THEN None ELSE filesys_lock

\* The rest of inode_create for a file with data clusters: the inode is
\* written, then as many sectors as it has, counted from its first cluster,
\* are filled with zeros.  They are not its own when the chain is not
\* contiguous.  An inode that is open meanwhile has a copy in memory and
\* survives, hence the subset.
Zero(t, s) ==
  \E hit \in SUBSET {g \in Files :
                        /\ state[g] \in {"live", "wrecked"}
                        /\ clst[g] \in s .. s + bytes_to_sectors(length[file[t]]) - 1} :
    /\ state' = [g \in Files |-> IF g \in hit THEN "wrecked" ELSE state[g]]
    /\ start' = [g \in Files |-> IF g \in hit THEN 0
                                 ELSE IF g = file[t] THEN s ELSE start[g]]
    /\ length' = [g \in Files |-> IF g \in hit THEN 0 ELSE length[g]]

Made(t, s) ==
  /\ Zero(t, s)
  /\ GoTo(t, "add")
  /\ first' = [first EXCEPT ![t] = 0]
  /\ UNCHANGED <<clst, file, filesys_lock>>

Forget(f) ==
  /\ state' = [state EXCEPT ![f] = "none"]
  /\ clst' = [clst EXCEPT ![f] = 0]
  /\ start' = [start EXCEPT ![f] = 0]
  /\ length' = [length EXCEPT ![f] = 0]

\* Creation fails; the clusters it has are not given back.  sys_mkdir then
\* closes a directory through a pointer it has not initialised.
Fail(t) ==
  /\ Forget(file[t])
  /\ \/ Return(t)
     \/ /\ filesys_lock # t
        /\ GoTo(t, "panic")
        /\ UNCHANGED <<first, file, filesys_lock>>

-----------------------------------------------------------------------------
(* System calls that allocate.                                             *)

\* sys_create; lookups before the allocation change nothing.
Create(t, f, size) ==
  /\ pc[t] = "idle"
  /\ state[f] = "none"
  /\ filesys_lock = None
  /\ filesys_lock' = t
  /\ state' = [state EXCEPT ![f] = "making"]
  /\ length' = [length EXCEPT ![f] = size]
  /\ file' = [file EXCEPT ![t] = f]
  /\ Ask(t, "inode", 1, 0, 0)
  /\ UNCHANGED <<fatVars, clst, start, new, relVars>>

Mkdir(t, f) ==
  /\ pc[t] = "idle"
  /\ state[f] = "none"
  /\ state' = [state EXCEPT ![f] = "making"]
  /\ length' = [length EXCEPT ![f] = DirSize]
  /\ file' = [file EXCEPT ![t] = f]
  /\ Ask(t, "mkdir", 1, 0, 0)
  /\ UNCHANGED <<fatVars, filesys_lock, clst, start, new, relVars>>

\* The loop of inode_write_at that extends the file by n bytes runs this often
\* after the rest of the last sector is used up.
NewClusters(len, n) ==
  LET room == DISK_SECTOR_SIZE - (len % DISK_SECTOR_SIZE)
  IN  IF n > room THEN bytes_to_sectors(n - room) ELSE 0

\* sys_write to an open file, past its end.
Write(t, f, n) ==
  /\ pc[t] = "idle"
  /\ state[f] \in {"live", "wrecked"}
  /\ length[f] + n <= MaxLength
  /\ filesys_lock = None
  /\ filesys_lock' = t
  /\ length' = [length EXCEPT ![f] = @ + n]
  /\ file' = [file EXCEPT ![t] = f]
  /\ LET k == NewClusters(length[f], n) IN
     \/ /\ start[f] = 0
        /\ Ask(t, "head", k, 0, 0)
     \/ /\ start[f] # 0 /\ k > 0
        /\ Ask(t, "extend", k, start[f], 0)
     \/ /\ start[f] # 0 /\ k = 0
        /\ GoTo(t, "write")
        /\ UNCHANGED first
  /\ UNCHANGED <<fatVars, state, clst, start, new, relVars>>

\* find_free_cluster reads past the table when last_clst is its last entry;
\* what follows is undefined.
Find(t) ==
  /\ pc[t] = "find"
  /\ \/ /\ last_clst = fat_length - 1
        /\ pc' = [pc EXCEPT ![t] = "oob"]
        /\ UNCHANGED new
     \/ /\ last_clst < fat_length - 1
        /\ \E c \in find_free_cluster : new' = [new EXCEPT ![t] = c]
        /\ pc' = [pc EXCEPT ![t] = "claim"]
  /\ UNCHANGED <<fatVars, filesys_lock, inodeVars, callVars, relVars>>

\* The cluster of the inode: fat_allocate(1) in filesys_create,
\* fat_create_chain(0) unchecked in sys_mkdir.
ClaimInode(t) ==
  /\ pc[t] = "claim"
  /\ goal[t] \in {"inode", "mkdir"}
  /\ fat_create_chain(t)
  /\ LET f == file[t]
         n == bytes_to_sectors(length[f]) IN
     \/ /\ goal[t] = "inode" /\ new[t] = 0
        /\ Fail(t)
     \/ /\ goal[t] = "mkdir" \/ new[t] # 0
        /\ clst' = [clst EXCEPT ![f] = new[t]]
        /\ \/ /\ n = 0
              /\ GoTo(t, "add")
              /\ UNCHANGED first
           \/ /\ n > 0
              /\ Ask(t, "data", n, 0, 0)
        /\ UNCHANGED <<state, start, length, filesys_lock, file>>
  /\ new' = [new EXCEPT ![t] = 0]
  /\ UNCHANGED relVars

\* One turn of fat_allocate for the data of a new inode.  `cnt' is also
\* counted down for a cluster that was not found, so running out on the last
\* one counts as success.
ClaimData(t) ==
  /\ pc[t] = "claim"
  /\ goal[t] = "data"
  /\ fat_create_chain(t)
  /\ LET left == todo[t] - 1
         s == IF arg[t] = 0 THEN new[t] ELSE first[t] IN
     \/ /\ new[t] # 0 /\ left > 0
        /\ Ask(t, "data", left, new[t], s)
        /\ UNCHANGED <<inodeVars, filesys_lock, file, relVars>>
     \/ /\ left = 0 /\ s # 0
        /\ Made(t, s)
        /\ UNCHANGED relVars
     \/ /\ left = 0 /\ s = 0
        /\ Fail(t)
        /\ UNCHANGED relVars
     \/ /\ new[t] = 0 /\ left > 0
        /\ GoTo(t, "release")
        /\ rel' = [rel EXCEPT ![t] = s]
        /\ UNCHANGED <<inodeVars, filesys_lock, file, first, rest, freed>>
  /\ new' = [new EXCEPT ![t] = 0]

Enter(t) ==
  /\ state' = [state EXCEPT ![file[t]] = "live"]
  /\ UNCHANGED <<clst, start, length>>
  /\ Return(t)

\* dir_add: the name is taken, or there is room for the entry, or the root
\* directory has to grow.  (Another directory grows by the same inode_write_at;
\* here that is Write, not a step of the call that adds the name.)
DirAdd(t) ==
  /\ pc[t] = "add"
  /\ \/ Forget(file[t]) /\ Return(t)
     \/ Enter(t)
     \/ /\ Ask(t, "dir", 1, ROOT_DIR_CLUSTER, 0)
        /\ UNCHANGED <<inodeVars, filesys_lock, file>>
  /\ UNCHANGED <<fatVars, new, relVars>>

\* The root directory grows.  Its second cluster replaces the entry of the
\* first one; a third cluster takes the place of the second, and then the
\* write runs off the end of the chain.
ClaimDir(t) ==
  /\ pc[t] = "claim"
  /\ goal[t] = "dir"
  /\ fat_create_chain(t)
  /\ \/ /\ fat[ROOT_DIR_CLUSTER] = 0
        /\ Enter(t)
     \/ /\ fat[ROOT_DIR_CLUSTER] # 0
        /\ GoTo(t, "panic")
        /\ UNCHANGED <<inodeVars, first, file, filesys_lock>>
  /\ new' = [new EXCEPT ![t] = 0]
  /\ UNCHANGED relVars

\* The clusters of inode_write_at; it does not look at what it gets.
ClaimWrite(t) ==
  /\ pc[t] = "claim"
  /\ goal[t] \in {"head", "extend"}
  /\ fat_create_chain(t)
  /\ LET f == file[t]
         left == IF goal[t] = "head" THEN todo[t] ELSE todo[t] - 1
         s == IF goal[t] = "head" THEN new[t] ELSE start[f] IN
     /\ start' = [start EXCEPT ![f] = s]
     /\ \/ /\ left > 0
           /\ Ask(t, "extend", left, s, 0)
        \/ /\ left = 0
           /\ GoTo(t, "write")
           /\ UNCHANGED first
  /\ new' = [new EXCEPT ![t] = 0]
  /\ UNCHANGED <<filesys_lock, state, clst, length, file, relVars>>

\* The data is copied sector by sector; byte_to_sector returns -1 for a sector
\* the chain does not reach, and the disk driver asserts on it.
WriteData(t) ==
  /\ pc[t] = "write"
  /\ \/ /\ start[file[t]] # 0
        /\ Cardinality(Chain(start[file[t]])) >= bytes_to_sectors(length[file[t]])
        /\ Return(t)
     \/ /\ \/ start[file[t]] = 0
           \/ Cardinality(Chain(start[file[t]])) < bytes_to_sectors(length[file[t]])
        /\ GoTo(t, "panic")
        /\ UNCHANGED <<first, file, filesys_lock>>
  /\ UNCHANGED <<fatVars, inodeVars, new, relVars>>

-----------------------------------------------------------------------------
(* Giving back.                                                            *)

\* The last inode_close of a removed inode, which no other call is using: in
\* sys_remove with the lock, in sys_close without.  It returns early for an
\* inode whose magic number is gone.
Release(t, f, locked) ==
  /\ pc[t] = "idle"
  /\ state[f] = "live"
  /\ \A u \in Threads : file[u] # f
  /\ locked => filesys_lock = None
  /\ filesys_lock' = IF locked THEN t ELSE filesys_lock
  /\ GoTo(t, "release")
  /\ rel' = [rel EXCEPT ![t] = start[f]]
  /\ rest' = [rest EXCEPT ![t] = clst[f]]
  /\ Forget(f)
  /\ UNCHANGED <<fatVars, file, first, new, freed>>

\* One turn of the loop of fat_remove_chain: the entry is cleared ...
fat_remove_chain(t) ==
  /\ pc[t] = "release"
  /\ rel[t] # EOChain /\ freed[t] = EOChain
  /\ fat' = [fat EXCEPT ![rel[t]] = 0]
  /\ rel' = [rel EXCEPT ![t] = fat[rel[t]]]
  /\ freed' = [freed EXCEPT ![t] = rel[t]]
  /\ UNCHANGED <<last_clst, filesys_lock, inodeVars, callVars, pc, new, rest>>

\* Mutant: last_clst stays on the entry that was cleared.
ResetLast_Never(t) ==
  /\ freed[t] # EOChain
  /\ freed' = [freed EXCEPT ![t] = EOChain]
  /\ UNCHANGED <<fatVars, filesys_lock, inodeVars, callVars, pc, new, rel, rest>>

\* ... and last_clst moved away from it.
ResetLast(t) ==
  /\ freed[t] # EOChain
  /\ last_clst' = IF last_clst = freed[t] THEN 2 ELSE last_clst
  /\ freed' = [freed EXCEPT ![t] = EOChain]
  /\ UNCHANGED <<fat, filesys_lock, inodeVars, callVars, pc, new, rel, rest>>

\* Mutant: the inode keeps the start of the chain that was given back.
Released_KeepStart(t) ==
  /\ pc[t] = "release"
  /\ rel[t] = EOChain /\ freed[t] = EOChain
  /\ rel' = [rel EXCEPT ![t] = rest[t]]
  /\ rest' = [rest EXCEPT ![t] = EOChain]
  /\ \/ /\ rest[t] # EOChain
        /\ UNCHANGED <<pc, callVars, filesys_lock, inodeVars>>
     \/ /\ rest[t] = EOChain /\ file[t] = None
        /\ Return(t)
        /\ UNCHANGED inodeVars
     \/ /\ rest[t] = EOChain /\ file[t] # None /\ first[t] # 0
        /\ Made(t, first[t])
     \/ /\ rest[t] = EOChain /\ file[t] # None /\ first[t] = 0
        /\ Fail(t)
  /\ UNCHANGED <<fatVars, new, freed>>

\* The loop has ended: the cluster of the inode comes next, or the call is
\* over.  fat_allocate that ran out early returns true for an inode without
\* clusters, unless it did not get even one.
Released(t) ==
  /\ pc[t] = "release"
  /\ rel[t] = EOChain /\ freed[t] = EOChain
  /\ rel' = [rel EXCEPT ![t] = rest[t]]
  /\ rest' = [rest EXCEPT ![t] = EOChain]
  /\ \/ /\ rest[t] # EOChain
        /\ UNCHANGED <<pc, callVars, filesys_lock, inodeVars>>
     \/ /\ rest[t] = EOChain /\ file[t] = None
        /\ Return(t)
        /\ UNCHANGED inodeVars
     \/ /\ rest[t] = EOChain /\ file[t] # None /\ first[t] # 0
        /\ Made(t, 0)
     \/ /\ rest[t] = EOChain /\ file[t] # None /\ first[t] = 0
        /\ Fail(t)
  /\ UNCHANGED <<fatVars, new, freed>>

\* filesys_done and the next filesys_init, when no call is in progress: the
\* table is written and read back, but entry 1 is now the length of the root
\* directory.  It is 0, and the directory empty, unless the directory has a
\* second cluster.  The clusters of files that are not found again stay
\* allocated.
Reboot ==
  /\ \A t \in Threads : pc[t] = "idle"
  /\ last_clst' = 2
  /\ \E found \in IF fat[ROOT_DIR_CLUSTER] = 0 THEN {{}} ELSE SUBSET Files :
       /\ state' = [f \in Files |-> IF f \in found THEN state[f] ELSE "none"]
       /\ clst' = [f \in Files |-> IF f \in found THEN clst[f] ELSE 0]
       /\ start' = [f \in Files |-> IF f \in found THEN start[f] ELSE 0]
       /\ length' = [f \in Files |-> IF f \in found THEN length[f] ELSE 0]
  /\ UNCHANGED <<fat, filesys_lock, pc, callVars, new, relVars>>

-----------------------------------------------------------------------------
\* The next step of a call in progress.
Continue(t) ==
  \/ Find(t) \/ ClaimInode(t) \/ ClaimData(t) \/ DirAdd(t) \/ ClaimDir(t)
  \/ ClaimWrite(t) \/ WriteData(t) \/ fat_remove_chain(t) \/ ResetLast(t) \/ Released(t)

Step(t) ==
  \/ t \in Creators /\ \E f \in Files :
       \/ \E size \in Sizes : Create(t, f, size)
       \/ \E n \in Grow : Write(t, f, n)
  \/ t \in Mkdirs /\ \E f \in Files : Mkdir(t, f)
  \/ \E f \in Files, locked \in BOOLEAN : Release(t, f, locked)
  \/ Continue(t)

\* A panic halts the machine.
Next ==
  /\ \A t \in Threads : pc[t] \notin {"oob", "panic"}
  /\ Reboot \/ \E t \in Threads : Step(t)

Spec == Init /\ [][Next]_vars

-----------------------------------------------------------------------------
(* Properties.                                                             *)

\* The clusters t has got and not yet entered in an inode.
Building(t) ==
  IF pc[t] \in {"find", "claim"} /\ goal[t] = "data" THEN first[t] ELSE 0

Freeing(t) == IF pc[t] = "release" THEN rel[t] ELSE 0

Waiting(t) == IF pc[t] = "release" THEN rest[t] ELSE 0

Data == FirstFree .. fat_length - 1

\* The places that name a cluster: table entries, inodes, calls in progress.
Places ==
  ({"fat"} \X Cluster) \cup ({"clst", "start"} \X Files)
    \cup ({"building", "freeing", "waiting"} \X Threads)

At(p) ==
  CASE p[1] = "fat" -> fat[p[2]]
    [] p[1] = "clst" -> clst[p[2]]
    [] p[1] = "start" -> start[p[2]]
    [] p[1] = "building" -> Building(p[2])
    [] p[1] = "freeing" -> Freeing(p[2])
    [] p[1] = "waiting" -> Waiting(p[2])

\* No cluster belongs to two chains or two files: at most one place names it,
\* although sys_close gives chains back without filesys_lock while another
\* thread allocates.
NoSharing == \A p, q \in Places : At(p) \in Data /\ At(p) = At(q) => p = q

\* Nothing in use is marked free: every cluster that an inode, a call in
\* progress or the entry before it names has an entry other than 0.
NoDangling == \A p \in Places : At(p) \in Data => fat[At(p)] # 0

\* Is entry c free, and did no call free it just now?
FreeForLong(c) == fat[c] = 0 /\ \A t \in Threads : freed[t] # c

\* find_free_cluster leaves out last_clst "because it is allocated": a step that
\* frees it is followed, in the same turn of fat_remove_chain, by one that moves
\* last_clst away, whatever other threads allocate and free in between.
LastAllocated == ~FreeForLong(last_clst)

\* find_free_cluster gives up only when no entry is free, but for those that
\* calls of fat_remove_chain have cleared and not yet compared with last_clst.
FullOnlyWhenFull ==
  [][\A t \in Threads :
       pc[t] = "find" /\ pc'[t] = "claim" /\ new'[t] = 0
         => \A c \in 2 .. fat_length - 1 : ~FreeForLong(c)]_vars

\* A chain changes only at its end or by being given back: an entry in use
\* is overwritten only to append, or with 0 by the thread releasing it.
AppendOnly ==
  [][\A c \in Data : fat'[c] # fat[c] =>
       \/ fat[c] = 0 /\ fat'[c] = EOChain
       \/ fat[c] = EOChain /\ fat'[c] \in Data /\ fat[fat'[c]] = 0
       \/ fat'[c] = 0 /\ \E t \in Threads : Freeing(t) = c]_vars

-----------------------------------------------------------------------------
(* What a test and a comment say, and the code does not do.                *)

\* tests/filesys/extended/syn-rw.c appends in pieces that end on a sector
\* boundary and expects every write to succeed: the chain of a file reaches
\* as far as its length once the call that extends it has its clusters.
ChainCoversLength ==
  \A f \in Files :
    state[f] = "live" /\ (\A t \in Threads : file[t] = f => pc[t] = "write")
      => bytes_to_sectors(length[f]) <=
           (IF start[f] = 0 THEN 0 ELSE Cardinality(Chain(start[f])))

\* tests/filesys/extended/*-persistence.ck check that what was written is there
\* after a restart: a file goes away only when it is removed.
FilesPersist ==
  [][\A f \in Files :
       state[f] = "live" /\ state'[f] # "live" =>
         \E t \in Threads : pc[t] = "idle" /\ pc'[t] = "release"]_vars

\* The comment above inode_close: the last close of a removed inode gives its
\* blocks back.  The call returns.
FairSpec == Spec /\ \A t \in Threads : WF_vars(Next /\ Continue(t))

ReleaseEnds == \A t \in Threads : pc[t] = "release" ~> pc[t] # "release"
=============================================================================
