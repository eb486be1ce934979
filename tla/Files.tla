------------------------------- MODULE Files -------------------------------
(***************************************************************************)
(* Descriptors, open files, in-memory inodes and directory entries:        *)
(* userprog/syscall.c, filesys/file.c, filesys/directory.c,                *)
(* filesys/filesys.c and the opening and closing in filesys/inode.c, with  *)
(* what fork, exec and exit of userprog/process.c do to them.              *)
(*                                                                         *)
(* An inode is its sector; module Fat models what the sectors hold.  Calls *)
(* under filesys_lock are one step.  sys_close takes no lock: with Preempt *)
(* its inode_close may be interrupted between counting down and freeing.   *)
(* WildCount and WildDir let the two wild pointers of the code do harm to  *)
(* an open directory; without them they hit memory outside this module.    *)
(***************************************************************************)
EXTENDS Integers, Sequences, FiniteSets, FiniteSetsExt, Functions

CONSTANTS
  Procs,      \* processes; the first one exists at the start
  First,
  NSect,      \* sectors for inodes; number 1 is the root directory
  NObj,       \* blocks for struct file and struct dir
  MAX_FD,
  MaxOpen,    \* bound on open_cnt, which leaks make grow
  Paths,      \* arguments of the calls: [abs, names]
  Makers,     \* processes that create, remove, chdir and exec
  ArgFds,     \* descriptors that programs pass to close, write and dup2
  Preempt,    \* may inode_close be interrupted
  ForkShares, \* may a program with a file on descriptor 0 or 1 fork
  WildCount,  \* may a struct dir lie right after the one whose dup_count changes
  WildDir     \* may new_dir, which a failing sys_mkdir closes unset, be a struct dir

ASSUME FilesAssumption ==
  /\ IsFiniteSet(Procs) /\ First \in Procs /\ Makers \subseteq Procs
  /\ \A path \in Paths : path.names \in Seq(STRING) \ {<<>>}
  /\ NSect \in Nat \ {0} /\ NObj \in Nat /\ MAX_FD \in Nat \ {0, 1}
  /\ ArgFds \subseteq 0 .. MAX_FD - 1 /\ MaxOpen \in Nat
  /\ Preempt \in BOOLEAN /\ ForkShares \in BOOLEAN
  /\ WildCount \in BOOLEAN /\ WildDir \in BOOLEAN

VARIABLES
  kind,       \* of a sector: "free", "file" or "dir"
  entry,      \* entries of a directory, 0 for a name it does not have
  bytes,      \* contents of a file: two values that a write swaps
  open_cnt, deny_write_cnt, removed,   \* the inode in memory
  obj,        \* struct file or, with dir, struct dir; inode 0 when free
  fd_table, fd_idx, stdin_count, stdout_count, running_file, cwd,
  status,     \* of a process: "none", "user", "exec_open", "exec_load", "dead"
  new_file,   \* local of process_exec
  closing     \* inode that an interrupted inode_close is about to free

disk == <<kind, entry, bytes>>
inodes == <<open_cnt, deny_write_cnt, removed>>
procs == <<fd_table, fd_idx, stdin_count, stdout_count, running_file, cwd, status, new_file>>
vars == <<disk, inodes, obj, procs, closing>>

Sectors == 1 .. NSect
ROOT == 1
Objs == 1 .. NObj
Fds == 0 .. MAX_FD - 1
NULL == 0
STDIN == -1
STDOUT == -2
FreeObj == [inode |-> 0, dup |-> 0, deny |-> FALSE, dir |-> FALSE]
Names == UNION {Range(p.names) : p \in Paths}
NoEntries == [n \in Names |-> 0]

Init ==
  /\ kind = [s \in Sectors |-> IF s = ROOT THEN "dir" ELSE "free"]
  /\ entry = [s \in Sectors |-> NoEntries]
  /\ bytes = [s \in Sectors |-> 0]
  /\ open_cnt = [s \in Sectors |-> 0]
  /\ deny_write_cnt = [s \in Sectors |-> 0]
  /\ removed = [s \in Sectors |-> FALSE]
  /\ obj = [o \in Objs |-> FreeObj]
  /\ fd_table = [p \in Procs |-> [f \in Fds |-> IF p = First THEN IF f = 0 THEN STDIN ELSE
                                                  IF f = 1 THEN STDOUT ELSE NULL ELSE NULL]]
  /\ fd_idx = [p \in Procs |-> 2]
  /\ stdin_count = [p \in Procs |-> IF p = First THEN 1 ELSE 0]
  /\ stdout_count = [p \in Procs |-> IF p = First THEN 1 ELSE 0]
  /\ running_file = [p \in Procs |-> NULL]
  /\ cwd = [p \in Procs |-> ROOT]
  /\ status = [p \in Procs |-> IF p = First THEN "user" ELSE "none"]
  /\ new_file = [p \in Procs |-> NULL]
  /\ closing = [p \in Procs |-> 0]

-----------------------------------------------------------------------------
(* Inodes.  A call's effect on the counts is summed up in delta; the root  *)
(* is never removed and its count is left out.                             *)

None == [s \in Sectors |-> 0]
One(i) == [s \in Sectors |-> IF s = i THEN 1 ELSE 0]
Plus(f, g) == [s \in Sectors |-> f[s] + g[s]]
Minus(f, g) == [s \in Sectors |-> f[s] - g[s]]

\* Mutant: the sector goes back when the file is removed, open or not.
inode_close_AtOnce(k, delta, marked) ==
  /\ open_cnt' = [s \in Sectors |-> IF s = ROOT THEN 0 ELSE open_cnt[s] + delta[s]]
  /\ \A s \in Sectors : open_cnt'[s] <= MaxOpen
  /\ UNCHANGED removed
  /\ kind' = [s \in Sectors |-> IF s \in marked THEN "free" ELSE k[s]]

\* inode_open and inode_reopen count up, inode_close counts down and frees at
\* 0: an inode marked removed then gives its sector back.
inode_close(k, delta, marked) ==
  LET rem == [s \in Sectors |-> removed[s] \/ s \in marked]
      gone == {s \in Sectors \ {ROOT} : rem[s] /\ open_cnt'[s] = 0}
  IN  /\ open_cnt' = [s \in Sectors |-> IF s = ROOT THEN 0 ELSE open_cnt[s] + delta[s]]
      /\ \A s \in Sectors : open_cnt'[s] <= MaxOpen
      /\ removed' = [s \in Sectors |-> rem[s] /\ s \notin gone]
      /\ kind' = [s \in Sectors |-> IF s \in gone THEN "free" ELSE k[s]]

\* The first free block.
NewObj == CHOOSE o \in Objs : obj[o] = FreeObj /\ \A x \in Objs : obj[x] = FreeObj => o <= x
RoomFor(n) == Cardinality({o \in Objs : obj[o] = FreeObj}) >= n

file_open(i) == [inode |-> i, dup |-> 1, deny |-> FALSE, dir |-> FALSE]
dir_open(i) == [inode |-> i, dup |-> 0, deny |-> FALSE, dir |-> TRUE]

\* The objects that get freed; those with deny set allow writes again.
Freed(os) == [o \in Objs |-> IF o \in os THEN FreeObj ELSE obj[o]]
file_allow_write(os) ==
  deny_write_cnt' = [s \in Sectors |-> deny_write_cnt[s] -
                       Cardinality({o \in os : obj[o].inode = s /\ obj[o].deny})]
file_close(os) == obj' = Freed(os) /\ file_allow_write(os)
Closed(os) == [s \in Sectors |-> Cardinality({o \in os : obj[o].inode = s})]

-----------------------------------------------------------------------------
(* Paths.                                                                  *)

\* The directory reached after n names, 0 if there is none, and the inodes a
\* failing walk leaves open: the directory it stood in and, when the name is
\* not a directory, that inode as well.
Walk(p, path, n) ==
  LET start == IF path.abs THEN ROOT ELSE cwd[p]
      walk[k \in 0 .. n] ==
        IF k = 0 THEN [dir |-> start, lost |-> None, last |-> start]
        ELSE LET w == walk[k - 1]
                 i == entry[w.last][path.names[k]]
             IN  CASE w.dir = 0 -> w
                   [] w.dir # 0 /\ i = 0 -> [dir |-> 0, lost |-> One(w.dir), last |-> w.dir]
                   [] w.dir # 0 /\ i # 0 /\ kind[i] # "dir" ->
                        [dir |-> 0, lost |-> Plus(One(w.dir), One(i)), last |-> w.dir]
                   [] OTHER -> [dir |-> i, lost |-> None, last |-> i]
  IN  walk[n]

Last(path) == path.names[Len(path.names)]
Parent(p, path) == Walk(p, path, Len(path.names) - 1)

\* dir_add fails on a name that exists and on a directory that denies writes;
\* a directory k gets its "." and ".." from sys_mkdir.
dir_add(d, n, s, k) ==
  LET ok == entry[d][n] = 0 /\ deny_write_cnt[d] = 0
      dots == [x \in Names |-> IF x = "." THEN s ELSE IF x = ".." THEN d ELSE 0]
  IN  entry' = [entry EXCEPT ![s] = IF ok /\ k = "dir" THEN dots ELSE NoEntries,
                             ![d] = IF ok THEN [@ EXCEPT ![n] = s] ELSE @]

\* Mutant: the entry is not written back.
dir_remove_Keep(d, n) == entry' = entry

\* dir_remove erases the entry; the inode is marked by its caller's step.
dir_remove(d, n) == entry' = [entry EXCEPT ![d][n] = 0]

-----------------------------------------------------------------------------
(* System calls of process p.                                              *)

Ready(p) == status[p] = "user" /\ closing[p] = 0

\* filesys_create under the lock.  The directory is never closed; the sector
\* is lost when the name cannot be added.
sys_create(p, path) ==
  LET w == Parent(p, path)
  IN  /\ Ready(p)
      /\ \/ /\ w.dir = 0
            /\ inode_close(kind, w.lost, {}) /\ UNCHANGED <<entry, bytes>>
         \/ /\ w.dir # 0 /\ \A s \in Sectors : kind[s] # "free"
            /\ inode_close(kind, One(w.dir), {}) /\ UNCHANGED <<entry, bytes>>
         \/ /\ w.dir # 0
            /\ \E s \in Sectors :
                 /\ kind[s] = "free" /\ \A x \in Sectors : kind[x] = "free" => s <= x
                 /\ dir_add(w.dir, Last(path), s, "file")
                 /\ bytes' = [bytes EXCEPT ![s] = 0]
                 /\ inode_close([kind EXCEPT ![s] = "file"], One(w.dir), {})
  /\ UNCHANGED <<deny_write_cnt, obj, procs, closing>>

\* sys_mkdir closes both directories, also new_dir when a failing walk has not
\* set it: x, with WildDir any struct dir, is what the stack held there.  With
\* no free sector it wrecks the root inode (module Fat).
sys_mkdir(p, path) ==
  LET w == Parent(p, path)
  IN  /\ Ready(p)
      /\ \/ /\ w.dir = 0
            /\ \E x \in {NULL} \cup {o \in Objs : WildDir /\ obj[o].dir} :
                 /\ obj' = Freed({x})
                 /\ inode_close(kind, IF x = NULL THEN Minus(w.lost, One(w.last)) ELSE
                      Minus(w.lost, Plus(One(w.last), One(obj[x].inode))), {})
            /\ UNCHANGED <<entry, bytes>>
         \/ /\ w.dir # 0
            /\ \E s \in Sectors :
                 /\ kind[s] = "free" /\ \A x \in Sectors : kind[x] = "free" => s <= x
                 /\ dir_add(w.dir, Last(path), s, "dir")
                 /\ bytes' = [bytes EXCEPT ![s] = 0]
                 /\ inode_close([kind EXCEPT ![s] = "dir"], None, {})
            /\ UNCHANGED obj
  /\ UNCHANGED <<deny_write_cnt, procs, closing>>

\* filesys_remove under the lock: only the caller's own working directory is
\* spared, other directories need not be empty, and the name may be "." or "..".
\* (The root, which "x/.." may mark as removed, is still not released here.)
sys_remove(p, path) ==
  LET w == Parent(p, path)
      i == IF w.dir = 0 THEN 0 ELSE entry[w.dir][Last(path)]
  IN  /\ Ready(p)
      /\ \/ /\ i = 0
            /\ inode_close(kind, IF w.dir = 0 THEN w.lost ELSE One(w.dir), {})
            /\ UNCHANGED entry
         \/ /\ i # 0 /\ i # cwd[p] /\ deny_write_cnt[w.dir] = 0
            /\ dir_remove(w.dir, Last(path))
            /\ inode_close(kind, None, {i})
  /\ UNCHANGED <<bytes, deny_write_cnt, obj, procs, closing>>

\* Where the loop of find_unused_fd stops: the index only moves up.
find_unused_fd(p) ==
  LET free == {f \in Fds : f >= fd_idx[p] /\ fd_table[p][f] = NULL}
  IN  IF free = {} THEN MAX_FD ELSE Min(free)

\* filesys_open under the lock, then the descriptor.  The directory of the
\* path stays open, and so does the file when there is no descriptor left.
sys_open(p, path) ==
  LET w == Parent(p, path)
      i == IF w.dir = 0 THEN 0 ELSE entry[w.dir][Last(path)]
      fd == find_unused_fd(p)
  IN  /\ Ready(p)
      /\ \/ /\ i = 0
            /\ inode_close(kind, IF w.dir = 0 THEN w.lost ELSE One(w.dir), {})
            /\ UNCHANGED <<obj, fd_table, fd_idx>>
         \/ /\ i # 0 /\ RoomFor(1)
            /\ inode_close(kind, Plus(One(w.dir), One(i)), {})
            /\ obj' = [obj EXCEPT ![NewObj] = IF kind[i] = "dir" THEN dir_open(i)
                                              ELSE file_open(i)]
            /\ fd_idx' = [fd_idx EXCEPT ![p] = fd]
            /\ fd_table' = IF fd = MAX_FD THEN fd_table
                           ELSE [fd_table EXCEPT ![p][fd] = NewObj]
  /\ UNCHANGED <<entry, bytes, deny_write_cnt, stdin_count, stdout_count, running_file, cwd,
                 status, new_file, closing>>

\* The open file behind a descriptor.
Behind(p, f) == fd_table[p][f] \notin {NULL, STDIN, STDOUT}

\* Mutant: the file is closed while one other descriptor leads to it.
LastDup_Early(o) == ~obj[o].dir /\ obj[o].dup <= 2

\* Is this the last descriptor of the open file?  dup_count of a struct dir lies
\* outside its 16-byte block, in the pointer that the next block begins with (the
\* inode of a struct dir, the link of a free block): it is not found to be 1, so
\* a directory is never closed ...
LastDup(o) == ~obj[o].dir /\ obj[o].dup = 1

\* ... but counting up or down for one of the directories ds spoils that pointer:
\* with WildCount the struct dirs hit lead to no inode any more.
increase_dup_count(new, ds) ==
  \E hit \in SUBSET {x \in Objs : WildCount /\ obj[x].dir /\ ds \ {x} # {}} :
    obj' = [x \in Objs |-> IF x \in hit THEN [new[x] EXCEPT !.inode = 0] ELSE new[x]]

sys_close(p, f) ==
  LET o == fd_table[p][f]
  IN  /\ Ready(p) /\ o # NULL
      /\ fd_table' = [fd_table EXCEPT ![p][f] = NULL]
      /\ stdin_count' = [stdin_count EXCEPT ![p] = IF o = STDIN THEN @ - 1 ELSE @]
      /\ stdout_count' = [stdout_count EXCEPT ![p] = IF o = STDOUT THEN @ - 1 ELSE @]
      /\ \/ /\ ~Behind(p, f)
            /\ UNCHANGED <<inodes, kind, obj, closing>>
         \/ /\ Behind(p, f) /\ ~LastDup(o)
            /\ increase_dup_count([obj EXCEPT ![o].dup = IF obj[o].dir THEN @ ELSE @ - 1],
                                  {x \in {o} : obj[x].dir})
            /\ UNCHANGED <<inodes, kind, closing>>
         \/ /\ Behind(p, f) /\ LastDup(o)
            /\ file_close({o})
            /\ IF Preempt /\ open_cnt[obj[o].inode] = 1
               THEN /\ open_cnt' = [open_cnt EXCEPT ![obj[o].inode] = 0]
                    /\ closing' = [closing EXCEPT ![p] = obj[o].inode]
                    /\ UNCHANGED <<kind, removed>>
               ELSE inode_close(kind, Minus(None, One(obj[o].inode)), {}) /\ UNCHANGED closing
  /\ UNCHANGED <<entry, bytes, fd_idx, running_file, cwd, status, new_file>>

\* The rest of an interrupted inode_close: list_remove and free, whoever has
\* opened the inode meanwhile.
CloseEnd(p) ==
  LET i == closing[p]
  IN  /\ i # 0
      /\ closing' = [closing EXCEPT ![p] = 0]
      /\ open_cnt' = [open_cnt EXCEPT ![i] = 0]
      /\ kind' = [kind EXCEPT ![i] = IF removed[i] THEN "free" ELSE @]
      /\ removed' = [removed EXCEPT ![i] = FALSE]
  /\ UNCHANGED <<entry, bytes, deny_write_cnt, obj, procs>>

\* newfd is closed, after the copy has been counted; newfd is taken from the
\* table (the code does not check that).
sys_dup2(p, old, new) ==
  LET o == fd_table[p][old]
      n == fd_table[p][new]
      last == Behind(p, new) /\ n # o /\ LastDup(n)
      Dup(x) == (IF x = o THEN 1 ELSE 0) - (IF x = n THEN 1 ELSE 0)
      ds == {x \in Objs : obj[x].dir /\ Dup(x) # 0}
  IN  /\ Ready(p) /\ o # NULL /\ old # new
      /\ fd_table' = [fd_table EXCEPT ![p][new] = o]
      /\ stdin_count' = [stdin_count EXCEPT ![p] = @ + Dup(STDIN)]
      /\ stdout_count' = [stdout_count EXCEPT ![p] = @ + Dup(STDOUT)]
      /\ \/ /\ last
            /\ increase_dup_count([x \in Objs |-> IF x = n THEN FreeObj ELSE IF x = o /\ ~obj[x].dir
                                      THEN [obj[x] EXCEPT !.dup = @ + 1] ELSE obj[x]], ds)
            /\ deny_write_cnt' = [s \in Sectors |-> deny_write_cnt[s] -
                                    IF obj[n].deny /\ obj[n].inode = s THEN 1 ELSE 0]
            /\ inode_close(kind, Minus(None, One(obj[n].inode)), {})
         \/ /\ ~last
            /\ increase_dup_count([x \in Objs |-> IF obj[x].dir THEN obj[x]
                                      ELSE [obj[x] EXCEPT !.dup = @ + Dup(x)]], ds)
            /\ UNCHANGED <<inodes, kind>>
  /\ UNCHANGED <<entry, bytes, fd_idx, running_file, cwd, status, new_file, closing>>

\* Mutant: the deny count is not looked at.
sys_write_Always(p, f) ==
  /\ Ready(p) /\ f >= 2 /\ Behind(p, f)
  /\ kind[obj[fd_table[p][f]].inode] = "file"
  /\ bytes' = [bytes EXCEPT ![obj[fd_table[p][f]].inode] = 1 - @]
  /\ UNCHANGED <<kind, entry, inodes, obj, procs, closing>>

\* sys_write and inode_write_at.  process_get_file finds nothing below
\* descriptor 2; a write to a directory ends the process.
sys_write(p, f) ==
  /\ Ready(p) /\ f >= 2 /\ Behind(p, f)
  /\ LET i == obj[fd_table[p][f]].inode
     IN  /\ kind[i] = "file" /\ deny_write_cnt[i] = 0
         /\ bytes' = [bytes EXCEPT ![i] = 1 - @]
  /\ UNCHANGED <<kind, entry, inodes, obj, procs, closing>>

\* A failed chdir leaves the directory it reached open.
sys_chdir(p, path) ==
  LET w == Walk(p, path, Len(path.names))
  IN  /\ Ready(p)
      /\ \/ /\ IF w.dir = 0 THEN TRUE ELSE removed[w.dir]
            /\ inode_close(kind, IF w.dir = 0 THEN w.lost ELSE One(w.dir), {})
            /\ UNCHANGED cwd
         \/ /\ w.dir # 0 /\ ~removed[w.dir]
            /\ inode_close(kind, Minus(One(w.dir), One(cwd[p])), {})
            /\ cwd' = [cwd EXCEPT ![p] = w.dir]
  /\ UNCHANGED <<entry, bytes, deny_write_cnt, obj, fd_table, fd_idx, stdin_count, stdout_count,
                 running_file, status, new_file, closing>>

-----------------------------------------------------------------------------
(* fork, exec and exit.                                                    *)

\* file_duplicate: an open file of its own; the deny flag of a struct dir was
\* never initialised.
Duplicates(o) == {[file_open(obj[o].inode) EXCEPT !.deny = d] :
                   d \in IF obj[o].dir THEN BOOLEAN ELSE {obj[o].deny}}

\* __do_fork: every descriptor from 2 on gets a struct file of its own, also
\* those that shared one through dup2; 0 and 1 are copied as pointers, with no
\* count, even when dup2 has put a file there.  running_file is not inherited.
do_fork(p, q) ==
  LET fds == {f \in Fds \ {0, 1} : Behind(p, f)}
  IN  /\ Ready(p) /\ status[q] = "none" /\ fd_idx[p] # MAX_FD /\ RoomFor(Cardinality(fds))
      /\ ForkShares \/ ~ \E f \in {0, 1} : Behind(p, f)
      /\ \E copy \in [fds -> {o \in Objs : obj[o] = FreeObj}] :
           /\ \A f, g \in fds : f < g => copy[f] < copy[g]
           /\ \E dup \in [fds -> UNION {Duplicates(fd_table[p][f]) : f \in fds}] :
                /\ \A f \in fds : dup[f] \in Duplicates(fd_table[p][f])
                /\ obj' = [o \in Objs |-> IF \E f \in fds : copy[f] = o
                             THEN dup[CHOOSE f \in fds : copy[f] = o] ELSE obj[o]]
                /\ deny_write_cnt' = [s \in Sectors |-> deny_write_cnt[s] +
                     Cardinality({f \in fds : dup[f].inode = s /\ dup[f].deny})]
                /\ inode_close(kind, [s \in Sectors |-> One(cwd[p])[s] +
                     Cardinality({f \in fds : dup[f].inode = s})], {})
           /\ fd_table' = [fd_table EXCEPT ![q] = [f \in Fds |-> IF f \in fds THEN copy[f]
                                                                 ELSE fd_table[p][f]]]
      /\ fd_idx' = [fd_idx EXCEPT ![q] = fd_idx[p]]
      /\ stdin_count' = [stdin_count EXCEPT ![q] = stdin_count[p]]
      /\ stdout_count' = [stdout_count EXCEPT ![q] = stdout_count[p]]
      /\ cwd' = [cwd EXCEPT ![q] = cwd[p]]
      /\ status' = [status EXCEPT ![q] = "user"]
  /\ UNCHANGED <<entry, bytes, running_file, new_file, closing>>

\* process_exec: the old executable is closed first ...
process_exec(p) ==
  /\ Ready(p)
  /\ LET old == {running_file[p]} \ {NULL}
     IN  file_close(old) /\ inode_close(kind, Minus(None, Closed(old)), {})
  /\ running_file' = [running_file EXCEPT ![p] = NULL]
  /\ status' = [status EXCEPT ![p] = "exec_open"]
  /\ UNCHANGED <<entry, bytes, fd_table, fd_idx, stdin_count, stdout_count, cwd, new_file, closing>>

\* ... the new one is opened under the lock ...
ExecOpen(p, path) ==
  LET w == Parent(p, path)
      i == IF w.dir = 0 THEN 0 ELSE entry[w.dir][Last(path)]
  IN  /\ status[p] = "exec_open"
      /\ status' = [status EXCEPT ![p] = "exec_load"]
      /\ \/ /\ i = 0
            /\ inode_close(kind, IF w.dir = 0 THEN w.lost ELSE One(w.dir), {})
            /\ UNCHANGED <<obj, new_file>>
         \/ /\ i # 0 /\ RoomFor(1)
            /\ inode_close(kind, Plus(One(w.dir), One(i)), {})
            /\ obj' = [obj EXCEPT ![NewObj] = file_open(i)]
            /\ new_file' = [new_file EXCEPT ![p] = NewObj]
  /\ UNCHANGED <<entry, bytes, deny_write_cnt, fd_table, fd_idx, stdin_count, stdout_count,
                 running_file, cwd, closing>>

\* ... and, when load has found a program in it, made the running one.
ExecLoad(p) ==
  /\ status[p] = "exec_load" /\ new_file[p] # NULL /\ kind[obj[new_file[p]].inode] = "file"
  /\ running_file' = [running_file EXCEPT ![p] = new_file[p]]
  /\ obj' = [obj EXCEPT ![new_file[p]].deny = TRUE]
  /\ deny_write_cnt' = [deny_write_cnt EXCEPT ![obj[new_file[p]].inode] = @ + 1]
  /\ new_file' = [new_file EXCEPT ![p] = NULL]
  /\ status' = [status EXCEPT ![p] = "user"]
  /\ UNCHANGED <<disk, open_cnt, removed, fd_table, fd_idx, stdin_count, stdout_count, cwd, closing>>

\* process_exit, after exit, a kill or a failed exec (whose new_file stays
\* open): every descriptor, the executable and the working directory.
process_exit(p) ==
  LET mine == {fd_table[p][f] : f \in {x \in Fds : Behind(p, x)}}
      os == {o \in mine : ~obj[o].dir} \cup ({running_file[p]} \ {NULL})
  IN  /\ status[p] \in {"user", "exec_load"} /\ closing[p] = 0
      /\ file_allow_write(os) /\ increase_dup_count(Freed(os), {o \in mine : obj[o].dir})
      /\ inode_close(kind, Minus(None, Plus(Closed(os), One(cwd[p]))), {})
      /\ fd_table' = [fd_table EXCEPT ![p] = [f \in Fds |-> NULL]]
      /\ stdin_count' = [stdin_count EXCEPT ![p] = 0]
      /\ stdout_count' = [stdout_count EXCEPT ![p] = 0]
      /\ running_file' = [running_file EXCEPT ![p] = NULL]
      /\ new_file' = [new_file EXCEPT ![p] = NULL]
      /\ status' = [status EXCEPT ![p] = "dead"]
      /\ cwd' = [cwd EXCEPT ![p] = ROOT]
      /\ fd_idx' = [fd_idx EXCEPT ![p] = 2]
  /\ UNCHANGED <<entry, bytes, closing>>

Next ==
  \E p \in Procs :
    \/ \E path \in Paths :
         \/ /\ p \in Makers
            /\ \/ sys_create(p, path) \/ sys_mkdir(p, path)
               \/ sys_remove(p, path) \/ sys_chdir(p, path)
         \/ sys_open(p, path) \/ ExecOpen(p, path)
    \/ \E f \in ArgFds : sys_close(p, f) \/ sys_write(p, f) \/ \E g \in ArgFds : sys_dup2(p, f, g)
    \/ \E q \in Procs : do_fork(p, q)
    \/ p \in Makers /\ process_exec(p)
    \/ ExecLoad(p) \/ process_exit(p)

Spec == Init /\ [][Next]_vars

-----------------------------------------------------------------------------
(* Properties.                                                             *)

References(i) ==
  Cardinality({o \in Objs : obj[o].inode = i}) +
  Cardinality({p \in Procs : status[p] \notin {"none", "dead"} /\ cwd[p] = i})

\* "If this was the last reference, frees the memory" (filesys/inode.c:203): an
\* inode that an open file or a working directory refers to is counted, so it
\* is in memory and its sector has not been given away.
OpenCounted ==
  \A i \in Sectors \ {ROOT} :
    References(i) > 0 => open_cnt[i] >= References(i) /\ kind[i] # "free"

\* The ASSERTs of inode_deny_write and inode_allow_write: the denials counted
\* are those of the open files that deny, never more than there are openers,
\* and every running executable is one of them.
DenyCounted ==
  /\ \A i \in Sectors : i # ROOT =>
       /\ deny_write_cnt[i] = Cardinality({o \in Objs : obj[o].inode = i /\ obj[o].deny})
       /\ deny_write_cnt[i] <= open_cnt[i]
  /\ \A p \in Procs : running_file[p] # NULL => obj[running_file[p]].deny

\* The counts of an inode in memory agree with its openers, through open, dup2,
\* fork, exec, remove, close and exit in any order.
InodeCounted == OpenCounted /\ DenyCounted

\* A descriptor leads to a live open file of its own process, and the file's
\* dup_count is the number of descriptors that lead to it: none is closed
\* early, none twice.  The same for the counts of the two standard streams.
DescriptorsCounted ==
  /\ \A p \in Procs, f \in Fds : Behind(p, f) =>
       LET o == fd_table[p][f]
       IN  /\ obj[o].inode # 0
           /\ ~obj[o].dir => obj[o].dup = Cardinality({g \in Fds : fd_table[p][g] = o})
           /\ \A q \in Procs \ {p}, g \in Fds : fd_table[q][g] # o
  /\ \A p \in Procs :
       /\ stdin_count[p] = Cardinality({f \in Fds : fd_table[p][f] = STDIN})
       /\ stdout_count[p] = Cardinality({f \in Fds : fd_table[p][f] = STDOUT})

\* A name in a directory that has not been removed leads to a sector in use
\* that has not been removed either, whatever was removed or is still open.  (Not
\* so when a path ends in "." or "..": FilesDots.cfg.)
NamesLead ==
  \A d \in Sectors, n \in Names \ {".", ".."} :
    kind[d] = "dir" /\ ~removed[d] /\ entry[d][n] # 0 =>
      kind[entry[d][n]] # "free" /\ ~removed[entry[d][n]]

\* "This must fail, because that directory is non-empty"
\* (tests/filesys/extended/dir-rm-parent.c:1): a directory with a file in it is
\* not removed.
NonEmptyKept ==
  \A d \in Sectors, n \in Names \ {".", ".."} :
    (entry[d][n] # 0 /\ kind[entry[d][n]] # "free") => kind[d] = "dir" /\ ~removed[d]

\* The program a process runs from is not written to until it exits or execs
\* another one (a forked child, which has no running_file, is not protected).
ExecutableUnchanged ==
  [][\A p \in Procs : running_file[p] # NULL /\ running_file'[p] = running_file[p] =>
       bytes'[obj[running_file[p]].inode] = bytes[obj[running_file[p]].inode]]_vars
=============================================================================
