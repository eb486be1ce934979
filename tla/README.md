# A formal model of the Pintos kernel (pintos-kaist, FAT file system build)

This directory holds TLA+ modules that model the kernel in `src/pintos-kaist/`, configurations
that check them with TLC on small instances, and theorems about them that TLAPS proves for every
instance. The build modelled is the one with `USERPROG`, `FILESYS`, `EFILESYS` and `VM`.
`PROJECT.json` maps every definition to the lines it stands for.

## 1. The system

Pintos is a single-CPU teaching kernel. Only one thread runs at a time; everything that is
concurrent comes from interrupts, which may switch threads wherever they are enabled.

| Component | Source | State | Operations |
|---|---|---|---|
| Scheduler | `threads/thread.c` | run queue `ready_list`, status, priorities, time slice | create, block, unblock, yield, exit, set priority, tick |
| Semaphores, locks, donation | `threads/synch.c` | value and waiters, holder, pending lock, donations | down, try-down, up, acquire, try-acquire, release, monitors |
| Alarm clock | `devices/timer.c` | ticks, sorted list of sleepers, cached next tick | `timer_sleep`, `timer_interrupt`, `wake_up` |
| Lists | `lib/kernel/list.c` | linked list | insert, insert ordered, sort, pop |
| Allocation table | `filesys/fat.c` | `fat[]`, `last_clst` | `fat_create_chain`, `fat_remove_chain`, `fat_allocate`, open, close |
| Inodes | `filesys/inode.c` | inode sectors, open list, counts | create, open, close, remove, read, write with extension |
| Directories, paths | `filesys/directory.c`, `filesys.c` | entries in directory files | lookup, add, remove, readdir, create, open, mount |
| Open files | `filesys/file.c` | position, write denial | read, write, seek, duplicate |
| System calls | `userprog/syscall.c` | descriptor table, `filesys_lock` | open, close, dup2, mkdir, chdir, mmap, ... |
| Processes | `userprog/process.c`, `exception.c` | child list, fork/wait/free semaphores | fork, exec, wait, exit |
| Virtual memory | `vm/*.c` | supplemental page table, frames, swap slots | fault, claim, evict, copy-on-write, mmap |
| Interrupts | `threads/interrupt.c` | interrupt level | external interrupts, deferred yield |
| Terminal | `devices/intq.c`, `serial.c`, `kbd.c`, `input.c`, `lib/kernel/console.c` | bounded queues, interrupt enable register, shift keys, console lock | put, get, flush, interrupts |
| Disk driver | `devices/disk.c` | channel lock, expected interrupt, completion semaphore | reset, identify, read, write, interrupt |
| Allocators | `threads/palloc.c`, `malloc.c`, `lib/kernel/bitmap.c` | pools, bitmap, descriptors, arenas | get, free, malloc, realloc |
| Hash table | `lib/kernel/hash.c` | buckets, element count | insert, replace, delete, clear, rehash |
| Page tables | `threads/mmu.c` | four levels of tables | walk, map, clear, destroy |
| Feedback scheduler | `threads/fixed-point.c`, `thread.c`, `timer.c` | `recent_cpu`, `load_avg`, `nice` | tick, set nice |

How they interact. System calls take `filesys_lock` (some do not), call the file system, which calls
the disk driver, which blocks on a semaphore that the disk interrupt ups. Sleeping, waiting for a
child and handing over in fork are semaphores too. Everything rests on the scheduler and on
`synch.c`, which is why they come first.

What is hard here: `lock_acquire`, `lock_release` and `thread_create` run with interrupts on and read
state that other threads change; one list element per thread is shared by all queues; priorities
change under queues that are sorted by them; the timer works from a cached tick; chains are given
back without the lock that allocation takes; the allocation table shares a sector with the root
inode. `PROJECT.json` lists these hazards at their lines.

What makes each component correct:

- scheduler and locks: an element is on one queue, locks exclude, no wakeup is lost, no ready thread
  is slept through or starved, donations raise and are taken back, the highest priority runs;
- alarm clock: exactly the sleepers that are due are woken by each tick;
- allocation table and inodes: no cluster in two chains, nothing in use marked free, no free cluster
  overlooked, chains as long as the file, files there after a restart;
- directories: a name refers to one live inode, a removed directory has no entries;
- processes: wait returns the status of exactly one exit, an exited child is freed once;
- virtual memory: a process finds what it wrote, a frame is mapped only by the pages that own it, a
  swap slot has one page;
- open files: counts of openers, denials and descriptors are exact, a running program is not written;
- devices: a read returns what was written last, bytes keep their order, nobody waits for an interrupt
  that is not enabled;
- allocators and tables: blocks and pages have one owner, a failed allocation leaves nothing behind,
  a lookup finds what was inserted.

## 2. Modules

### `KernelList` — `lib/kernel/list.c`
`InsertOrdered` and `ListSort` give the set of lists that `list_insert_ordered` and `list_sort` may
leave; it has exactly one member. The order of equal keys is kept as the code keeps it, because round
robin depends on it. What the operations return is proved where it is needed, in `SchedProofs` and `AlarmProofs`.

### `Sched` — `threads/thread.c`, `threads/synch.c`
The run queue, dispatching, semaphores, locks with donation chains, creation and exit, time slices,
the idle thread and interrupts. Only `cur` takes steps, plus interrupts. One action is the code that
interrupts cannot divide: a body between `intr_disable` and `intr_set_level`, including the calls at
its end (`sema_up` sorts the waiters, unblocks, and compares priorities, all in one step), or a piece
of `lock_acquire`, `lock_release`, `thread_create` or `thread_set_priority` up to the next read, test or store of
shared state: what is tested may have changed when it is stored. `pc` says
where a thread is, `op`, `ret`, `pending`, `hldr`, `gift`, `child` are the locals of those functions.

| Code | Actions |
|---|---|
| `sema_down`, `sema_try_down`, `sema_up` | `SemaDown`, `SemaRecheck` (after waking), `SemaTryDown`, `SemaUp` |
| `lock_acquire` | `LockAcquire`; one turn of the loop is `AcqRead`, `AcqCompare`, `AcqDonate`, `AcqRaise` (the test), `AcqStore`, `AcqInsert`, `AcqTest`, `AcqSort`, `AcqNext`; `AcqDown`, `AcqSet` |
| `lock_try_acquire` | `LockTryAcquire`, `TrySet` |
| `lock_release` | `LockRelease`; `recalc_priority`, `RecalcFront`, `RecalcRaise`, `RecalcStore`; `RelNull`, `RelUp`, `Compare` |
| `thread_set_priority` | `SetPriority`, `SetRead`, `SetStore`, `Compare` |
| `thread_create` | `ThreadCreate`, the `lock_acquire` steps on `tid_lock`, `CreateRel`, `CreateReady`, `CreateCompare` |
| `thread_yield`, `thread_exit` | `ThreadYield`, `ThreadExit` (after `process_exit`) |
| `idle` | `IdleBlock`, and `WakeHlt` inside each interrupt |
| `timer_interrupt` with `thread_tick` | `TimerTick` |
| other interrupt handlers | `IntrSemaUp` |

`AcqSort` stops in `panic` when the `pending_lock` that `AcqTest` saw has become NULL meanwhile.

Abstractions: donations are a set of pairs of lock and priority; one list operation with interrupts on (a sort,
an insertion, `remove_donation_for_lock`, the sort in `compare_cur_next_priority`) is one step, although an
interrupt could come amid its element moves; `malloc` in `create_donation` succeeds and takes no lock; a thread
gives its locks back before it exits; `process_exit`, which `thread_exit` calls first, waits on `free_sema` until the
mother has waited for the child, here until the creator is out of `thread_create` (`Process` has the semaphore);
the feedback-queue scheduler is off.

### `AlarmClock`, `Alarm` — `devices/timer.c`
`AlarmClock` is the promise: each tick wakes exactly the sleepers that are due. `Alarm` has the sorted
`block_thread_list`, the cached `closet_tick` and the early exits, and reads the tick count one step
before it queues the thread, as `timer_sleep` does. Which thread runs is left open. `MaxTick` bounds
the tick count; nobody goes to sleep at the last tick.

### `Fat` — `filesys/fat.c`, parts of `inode.c`, `directory.c`, `filesys.c`, `syscall.c`
The table, `last_clst`, the inodes as far as they name clusters (`clst`, `start`, `length`), and the calls
that allocate or release: `sys_create`, `sys_mkdir`, `sys_write` past the end, the last close of a removed
file (with the lock from `sys_remove`, without it from `sys_close`), shutdown and mount. A step is one search
(`Find`), one claim (`ClaimInode`, `ClaimData`, `ClaimDir`, `ClaimWrite`) or half a turn of
`fat_remove_chain`: the entry is cleared, and in a step of its own (`ResetLast`) `last_clst` is reset; a
search and its claim are separate because nothing protects the table between them. Clusters 0 to 3 hold the
root inode's fields: `ROOT_DIR_SECTOR` is the first sector of the table. Errors are kept: `Fail` leaks
clusters as the code does, `panic` is a failed assertion, `oob` is the read past the table. File contents,
directory entries (all names are in the root directory, whose growth is the only one of a directory) and open
counts are left out; the table is read back on mount as it was written, crashes without shutdown are not
modelled.

### `ProcessTable`, `Process` — `userprog/process.c`, `thread_create` and `do_schedule` of `threads/thread.c`
`ProcessTable` is the promise: a child ends with one code, and its mother is told that code, once.
`Process` has the pages of threads, which are reused, thread identifiers, which are not, and the three
semaphores between mother and child. `pc[p]` is the place in the kernel; the code between two semaphore
operations is one step.

| Code | Actions |
|---|---|
| `process_create_initd`, `initd` | `process_create_initd`, `initd` |
| `process_fork` | `process_fork` (with `thread_create`), `ForkDown`, `ForkRead` |
| `__do_fork` | `do_fork` (page tables, then descriptors, each may fail), `ForkUp`, `sys_exit` with -1 |
| `sys_exit`, `kill`, failed `sys_exec`, unknown call | `sys_exit`, `kill`, `sys_exec`, `syscall_handler` |
| `process_exit`, `do_schedule` | `ExitUp`, `ExitDown`, `reap` |
| `process_wait` | `process_wait`, `WaitDown`, `WaitRead`, `WaitUp` |
| `run_task`, `power_off` | `run_task`, `power_off` |

Only one thread waits on each of these semaphores, so a semaphore is its value. `mother`, `code`, `told`,
`copied` and `forked` are history variables, by identifier.

### `Files` — `filesys/file.c`, `inode.c`, `directory.c`, `filesys.c`, `userprog/syscall.c`
Sectors with their names, in-memory inodes with their counts, open files and directories as objects, and the
descriptor table of each process. A call that holds `filesys_lock` is one step; `sys_close` takes no lock, and
in `RaceSpec` of `MCFiles`, with `Preempt`, its `inode_close` is divided after the count (`closing`,
`CloseEnd`); elsewhere it is one step. `Walk` is the loop over a path, with the directories that failing walks
leave open. Kept as the code has them: `filesys_create` and `filesys_open` never close the directory they end
in; the `dup_count` of a directory lies outside its block, in the next block of the heap, so that a directory
behind a descriptor is never closed, and counting up or down changes the neighbour (`WildCount`: when the
neighbour is another struct dir, its inode pointer is spoiled); a `sys_mkdir` whose walk fails closes the
pointer `new_dir`, which was never set (`WildDir`: it may be any struct dir); a new directory has the entries
`.` and `..`, and `remove` takes either for a name; a duplicate of a directory has an arbitrary denial; a
forked child has no `running_file`, and it gets descriptors 0 and 1 as pointers with no count, so with a file
there mother and child close the same struct (`ForkShares`, off in the passing run, lets such a program fork);
a write below descriptor 2 never reaches a file; a directory is removed without a look at its entries;
`find_unused_fd` never goes back. With `WildCount` and `WildDir` off the stray accesses hit memory that is not
modelled, and the paths of the passing run name neither `.` nor `..`; section 3 shows what happens otherwise.
Left out: contents beyond a counter (`bytes`), positions, bad names and bad descriptors, symbolic links.

### `Frames` — `vm/vm.c`, `anon.c`, `file.c`, `uninit.c`, page-table bits of `threads/mmu.c`
Pages with their kind, frames with owner and count, swap slots, the clock hand, the page table entries
with their present, writable, accessed and dirty bits, and the file on disk. The state of the machine is
one record, `vm`, and each function of the code is an operator on it, so that a fault is the composition
of the functions it calls: `fault_absent` is `vm_try_handle_fault` with `vm_do_claim_page`, `vm_get_frame`,
`vm_evict_frame` and the swap operations of the kinds involved. A page holds one value; `kept` is what the
process wrote. Reads and writes of user code are the processor's.

What several processes do is divided where another may run in between. The build is `-O0`, so `ref_cnt--` and
`ref_cnt++` are a load and a store, two steps everywhere several processes live. `vm_handle_wp` copies the page,
`wp_load` loads `ref_cnt` and `wp_copied` stores it decremented and changes the entry. `process_fork` makes the child and
waits (`making`); the child shares its mother's pages one at a time, in any order, as the hash table yields them:
`supplemental_page_table_copy` loads the count of the frame (`counting`), `copy_counted` stores it and maps the frame
(`vm_copy_claim_page`); `do_fork` lets both run when nothing is left. `exit` ends a process, which destroys its pages
one at a time: `kill_load` loads the count, `hash_spt_entry_kill` stores it (`vm_dealloc_page`). `do_munmap` looks up
the first page and `munmap_page` is one turn of its loop at the address `unmapping`. `frame_table_insert` links a frame;
with `Reuse` its memory may be that of a frame which `file_backed_destroy` freed while it was linked, and the list behind
it is lost. `ParentWrites`, `ForkRaces` and `Reuse` let happen what the code does not protect against (section 3).
Left out: fork of mapped pages, eviction while several processes live (the code then works on the wrong page
table), full swap (a panic).

### `Memory` — `threads/palloc.c`, `malloc.c`, `lib/kernel/bitmap.c`
The bitmap of a pool and its first-fit `bitmap_scan`, descriptors with their locks and free lists, arenas, and
the blocks callers hold. `malloc`, `realloc` and `free` are divided at the locks: `malloc`, `malloc_arena`,
`malloc_pop`, `malloc_big`, `NoPages`, `free_begin`, `free_push`. A descriptor's lock is a plain mutex: that a
contended `lock_acquire` calls `malloc` for its donation (`synch.c:253`), and with the lock of the donation's
own size calls itself without end, is left out. For the blocks such a call is that of one more thread; what it
means for progress is not checked, and no liveness of `malloc` is claimed.

### `Hash`, `PageTables`, `Mlfqs` — `lib/kernel/hash.c`, `threads/mmu.c`, `threads/fixed-point.c` with `thread.c` and `timer.c`
`Hash`: buckets as lists, rehashing after every change, `malloc` failing at will; the table starts after a
`hash_init` that succeeded (one that fails leaves no buckets, and `supplemental_page_table_init` does not
report it). `PageTables`: walks that allocate level by level and take back what they added when a lower level
fails. The tables are pages of the kernel's pool; the frames they map are the callers', may be mapped by
several processes, overwrite what was mapped before, and stay with the caller when `pml4_set_page` fails.
`mapped` is what the callers have set. `Mlfqs`: one tick (`mlfqs_on_tick`) with its truncating arithmetic over
a fixed set of threads, any of which may be dispatched or ready; `thread_set_nice` in three steps
(`update_priority`, `update_store`); `lock_acquire` and `lock_release`, which write priorities under this
scheduler too, as donations of any thread to any other. `touched` are the threads whose priority such a call
has written since the last recomputation; integers are unbounded.

### `Disk` — `devices/disk.c`
One channel with two devices: soft reset, detection by signature, identification, and reads and writes of
several threads under the channel lock. The registers and the device are external: a command makes the device
busy, and then it finishes, with an interrupt. `expecting_interrupt` is never reset, so a spurious interrupt
leaves a count in `completion_wait`. Time is the pace of a device: a quick one is always done within the 10 ms
of `wait_until_idle`, a slow one within the 30 s of `wait_while_busy`, a stuck one perhaps never.
`wait_until_idle` waits for a quick device and may give up on any other, and `select_sector` then writes the
registers of a device that is busy, which takes the new address or ignores it, and ignores a command.
`wait_while_busy` gives up on a stuck device, and the call ends in the panic, or the identification in "no
disk". `Punctual` is what the limits ask of the devices: all quick, or none stuck and no stray interrupt so
far.

### `Console` — `devices/intq.c`, `serial.c`, `input.c`, `kbd.c`, `lib/kernel/console.c`
The bounded queue with its one waiter, the transmit queue and the input buffer, the interrupt enable
register recomputed by `write_ier`, the polling fallback when the queue is full and interrupts are off,
scan codes with prefixes, releases, shift keys and caps lock, and the console lock.

### Compositions
`MCDevices` and `MCKernel` put components that share no state into one run: the variable `device` or
`part` picks one at the start. `Files`, `Frames`, `Process` and `Fat` see different parts of the same
calls: `Process` the semaphores, `Files` the descriptors, `Frames` the memory, `Fat` the clusters.

## 3. Runs

| Run | Instance | Checks | States |
|---|---|---|---|
| `sched_core` | 3 threads, 2 locks, 1 semaphore that interrupts up | `TypeOK`, `ElemExclusive`, `LockExclusive`, `NoLostWakeup`, `HaltOnlyWhenIdle`, `HolderHandover` | 1 828 812 |
| `sched_robin` | 3 threads of one priority, fair timer | `ReadyRuns`, deadlock | 18 940 |
| `alarm` | 3 sleepers, durations 1 to 3, 6 ticks | `SleepListConsistent`, `ImplementsClock`, `SleepersWake` | 21 934 |
| `fat` | 2 threads, 2 files, 7 entries | `NoSharing`, `NoDangling`, `FullOnlyWhenFull`, `AppendOnly` | 240 705 |
| `process` | 3 pages, 4 identifiers, exit code -2 | `NoStalePtr`, `ForkHandover`, `ImplementsTable`, `CallsReturn`, deadlock | 111 203 |
| `files` | 2 processes, 3 sectors, 2 open objects, 3 descriptors | `InodeCounted`, `DescriptorsCounted`, `NamesLead`, `ExecutableUnchanged` | 674 876 |
| `frames` | 4 machines: 2 frames for 3 pages with swap; 3 processes that fork, with a segment or with a stack; a file of 3 pages | `MemoryKept`, `FramesConsistent`, `SecondChance` | 1 005 263 |
| `devices` | 2 threads on one channel; 1 reader, 2 writers, queues of 2 bytes | `NoPanic`, `ReadsLatest`, `BytesInOrder`, `SerialArmed`, `KeysAsHeld`, `DevicesServe` | 122 426 |
| `kernel` | 2 threads, 3 pages; 5 keys; 6 pages of tables, 2 frames; 2 threads, 5 ticks, 2 calls | `HeapDisjoint`, `ArenasAccounted`, `TableIsMap`, `PagesOwned`, `MapsAsSet`, `CpuLowersPriority` | 1 299 035 |

Why the bounds are enough to be interesting. In `sched_core` two threads wait for a lock that a third
releases while an interrupt ups a semaphore, and donations pass through two locks, of which `tid_lock` is one
(`thread_create` itself takes part in them). `TIME_SLICE = 1` lets a tick preempt at every step. `fat` has three
clusters for two files of up to three sectors, so that allocation runs out in every place it can, the
search wraps, chains interleave, and a chain is given back while another grows. A sector has two
bytes: all that matters of a length is how it lies to the boundary. The number of threads, locks,
entries and files does not matter for what is proved in section 5.

In `process` a mother, her child and a grandchild live at once and a page is reused (`MaxTid` one more than
`NPages`). In `files`, `MaxOpen` caps the counts that leaking calls raise, `Makers` and `ArgFds` say which
process changes names and which descriptors the calls name; the paths are a name in the working directory and
one below a directory. In `frames` every machine has one source of trouble: fewer frames than pages, relatives
that share frames, or a mapping that comes and goes; `MaxTable` bounds the frame table, whose dead entries the
code leaves behind, and `ParentWrites`, `ForkRaces` and `Reuse` are off because of what `FramesCow`,
`FramesLost` and `Reuse` itself show below; likewise `Preempt`, `ForkShares`, `WildCount` and `WildDir` in
`files`. In `kernel` a page holds an arena of a few blocks (`PGSIZE`, `Sizes`), `MaxHeap` caps the blocks
held, `MIN_BUCKETS` and `BEST_ELEMS_PER_BUCKET` are small so that five keys rehash twice, the `Pool` is too
small for one process with every address mapped, `F`, `TIMER_FREQ` and `MaxTicks` make two decays and a
recomputation happen, and `MaxCalls` bounds the calls that write a priority. In `devices`, `MaxSpurious` and
`MaxIntr` bound stray interrupts and prints from handlers, `INTQ_BUFSIZE` is 3 so that queues fill, and
`Kinds` has missing, foreign, dead, slow and stuck devices.

`CHECK_DEADLOCK FALSE` is given for `Alarm` (the tick count is bounded), `SchedCore` and `Fat` (a panic halts the
machine), and for `Files`, `Frames`, `MCDevices` and `MCKernel` (bounded resources, no caller need call
again). Symmetry: threads other than the initial one, locks other than `tid_lock`, files; not used
where a liveness property is checked.

Fairness. `Sched!FairSpec` has strong fairness of the timer tick: a tick that comes while interrupts are off
stays pending and is delivered as soon as they are on; and weak fairness of `SemaRecheck`, the CPU executing
code with interrupts off. `Alarm!FairSpec` has weak fairness of the timer interrupt. `Fat!FairSpec` has weak
fairness of a call in progress: the scheduler runs a ready thread. `Process!FairSpec` has weak fairness of
every thread's kernel steps, and of `kill`: a user program ends at some point, or else `wait` rightly waits.
`MCDevices` has weak fairness of the threads inside a call, of a device that is not stuck finishing its
command, and of a pending interrupt being delivered; a device that does not answer the identification still
clears its busy bit. A thread that waits for the channel or console lock is not inside a call.

### What the code does not do
Three runs, the first three of the table, end with a counterexample to what a comment or a test says.
The other configurations in the table do so too and are kept to reproduce them; run each with the module
named, or with the constant changed in the configuration of the run.

| Configuration | Property | Says | Does |
|---|---|---|---|
| `FatBoundary` (run `fat_boundary`) | `ChainCoversLength` | a write extends the file as far as it reaches (`inode.c:317`, `syn-rw.c`) | from a length that is a multiple of the sector size one cluster too few is allocated |
| `FramesCow` (run `frames_cow`) | `MemoryKept` | fork copies on write (`tests/vm/cow/cow-simple.c`) | the mother's entry stays writable, and her write shows in the child |
| `SchedDonate` (run `sched_donate`) | `NeverBelowOwn` | `thread_set_priority` sets the priority (`thread.c:454`) | a donor that tested the holder's priority before stores its own after, and leaves the holder below what it set (`synch.c:231-233`) |
| `DiskTimeout`, `MCDevices` | `WaitedUntilIdle` | `wait_until_idle` waits for up to 10 seconds (`disk.c:466`) | it gives up after 1000 times 10 us, and a slow device is addressed while busy |
| `MlfqsDonation`, `MCKernel` | `DonationOnlyBasic` | donation is in effect only with the basic scheduler (`thread.c:461`) | `lock_acquire` and `lock_release` write over the computed priority |
| `FramesLost`, `MCFrames` | `FramesConsistent` | a frame is copied while another page uses it (`vm.c:295`) | a fork that counts a frame between the load and the store of another's `ref_cnt--` or `ref_cnt++` (`vm.c:300`, `364`, `406`), or the other way round, loses a count, and the frame has more users than its count |
| `Frames` with `Reuse = TRUE` | `FramesConsistent` | every frame in use is on `frame_table` | `file_backed_destroy` frees a struct frame that is linked (`file.c:163`); when `malloc` returns it, `list_push_back` cuts the frames behind it off |
| `SchedNull`, `MCSched` | `NeverPanics` | the waiters of the lock that the holder waits for are sorted (`synch.c:237-239`) | `pending_lock` is NULL when it is read again |
| `SchedDispatch`, `MCSched` | `DispatchHighest` | the run queue is in priority order (`thread.c:358`, `priority-donate-chain.c`) | a donation to a ready thread does not re-sort it, a lower thread is dispatched |
| `SchedResidual`, `MCSched` | `DonationReturned` | a donation is taken back (`synch.c:255`, `priority-donate-lower.c`) | one recorded after the holder dropped its donations for the lock stays |
| `AlarmNull`, `MCAlarm` | `SleepersWake` | `timer_sleep(0)` returns (`alarm-zero.c`) | a deadline of 0 reads as "nobody sleeps"; the thread is not woken unless another sleeper comes |
| `FatReboot`, `MCFat` | `FilesPersist` | files are there after a restart (`grow-create-persistence.ck`) | the table is written over the root inode |
| `FatEmpty`, `MCFat` | `ReleaseEnds` | the last close of a removed file gives its blocks back (`inode.c:208`) | for an empty file the loop over chain 0 does not end |
| `ProcessFork`, `MCProcess` | `ForkTruth` | fork returns `TID_ERROR` when no child can be made (`process.c:100-101`) | the failing child ups `fork_sema` before it sets its status, and the mother may read it in between |
| `FilesParent`, `MCFiles` | `NonEmptyKept` | a directory with entries is not removed (`dir-rm-parent.c:1`) | nothing looks at the entries |
| `FilesRace`, `MCFiles` | `OpenCounted` | the inode is freed with its last reference (`inode.c:206-208`) | an open between the count and the removal from the list gets a freed inode |
| `FilesDots`, `MCFiles` | `NamesLead` | a name leads to an inode that is there | `remove("a/.")` marks `a` as removed while its parent still names it (`filesys.c:170-215`) |
| `Files` with `WildCount = TRUE` | `DescriptorsCounted` | a descriptor leads to an open file | counting the `dup_count` of a struct dir (`syscall.c:592`, `625`) changes the first word of the next block, another directory's inode pointer |
| `FilesUnset`, `MCFiles` | `DescriptorsCounted` | the same | a `sys_mkdir` whose walk fails closes `new_dir`, which is not set (`syscall.c:688`) |
| `Files` with `ForkShares = TRUE` | `DescriptorsCounted` | a forked child's files are made with `file_duplicate` (`process.c:206`) | descriptors 0 and 1 are copied as pointers: with a file put there by `dup2`, both processes close one struct that counts only the mother's descriptors |
| `DevicesReaders`, `MCDevices` | `WaitAsserted` | a thread that waits finds the queue empty (`intq.c:84-85`) | `sys_read` reads the terminal without a lock; a second reader passes `lock_acquire` with bytes in the queue |

## 4. Properties

Every property is stated with a comment in its module. In short: `ElemExclusive` ties status, run queue
and all wait queues to each other; `LockExclusive` covers the instants when `holder` is late;
`NoLostWakeup` says that while threads sleep on a semaphore each unit of its value is one that a woken
thread is coming for; `NoSharing` and `NoDangling` range over every place that names a cluster, table
entries, inodes and locals of calls in progress alike. `ImplementsTable` is a refinement: whatever pages
are reused, wait tells each mother the code of her child once. `InodeCounted`, `DescriptorsCounted` and
`FramesConsistent` compare every counter with what it counts, after any sequence of calls; `MemoryKept`
compares what a process would read with what it wrote, wherever the page is. `SerialArmed` says that a
byte that can move has its interrupt enabled, `BytesInOrder` that polling and queueing do not reorder.
`PagesOwned` and `ArenasAccounted` are exact: no page lost, none owned twice; `MapsAsSet` says that a lookup in the page
tables finds exactly what was mapped, also after walks that failed. `FullOnlyWhenFull` speaks of entries that were free
before the release now in progress: between `fat.c:221` and `224` the entry just cleared may be `last_clst`, which the
search leaves out. `CpuLowersPriority` speaks of threads whose priority no lock has written since the last recomputation.
`NoPanic`, `ReadsLatest` and the disk's part of `DevicesServe` are stated for `Punctual` devices.

## 5. Proofs

All theorems hold for every value of the constants allowed by the named assumptions in the modules.

`SchedProofs`, no assumption beyond those of `Sched`:
- `TypeCorrect`: `TypeOK` with `CallsConsistent`, which ties the locals of a call to its program counter;
  `TypeOK` is not inductive without it (`op` must be a lock where it is used as one).
- `QueuesCorrect`: `ElemExclusive`, through
  `QueueInv == ElemExclusive /\ DeadAtRest /\ NewbornProtected`: the new thread is blocked but on no
  queue, and a page that is reused belonged to a thread in no call. `NewbornProtected` is a lemma here and no result: it
  rests on `process_exit` waiting for the creator.
- `LocksCorrect`, `HolderHandoverCorrect`: through `LockInv == LockExclusive /\ ReleaseConsistent`, which
  says where in a release the holder field is still set.
- `IdleCorrect`: `HaltOnlyWhenIdle`.

`AlarmProofs`, for `Positive`, that is durations of at least one tick (with others `AlarmNull` has a
counterexample): `SleepListCorrect`, and `ClockImplemented`, the refinement of `AlarmClock`, step by step.

`FatProofs`, for `Exclusive`: sys_mkdir, which takes no lock, is not in progress beside another
allocating call. Any number of threads may call `sys_create` and `sys_write` when there is no
`sys_mkdir`, and any number may release chains without the lock. The invariant is
`IInv == Typed /\ NoSharing /\ NoDangling /\ LastAllocated`; `Typed` adds that the entries of the root
inode keep their values and that a cluster found is still free when it is claimed, which is true only
because one call allocates at a time and a release only adds free entries. `LastAllocated` says that `last_clst` is not
free, unless a release has just cleared it and is about to reset `last_clst`. From it:
`ClustersNotShared`, `NoNamedClusterFree`, `LastClusterAllocated`, `SearchComplete` (`FullOnlyWhenFull`),
`ChainsAppendOnly`.

`ProcessProofs`, `ProcessAssumption` only (identifiers and exit codes are integers, and the value that
stands for "no code yet" is none of them), for any number of pages and identifiers: `NoStalePointers`
(`NoStalePtr`), `ForkHandedOver` (`ForkHandover`) and `TableImplemented`, the refinement of `ProcessTable`.
One invariant, `ProcessInv`, carries all three: it ties each page's place in the kernel to the values of the
three semaphores, says that a child is on the list of exactly the mother it was made by until she has read its
status, that its page cannot be given back before, and that `exit_status` is the code of its end from the moment
`wait_sema` is upped. Each part needs the others: a semaphore that is 1 too early would free a page that is
still read.

`DevicesProofs`, on the disk, from `DiskAssumption` only, for any number of threads, sectors and stray interrupts:
`DriverNeverPanics` (`NoPanic`) and `ReadsReturnLatest` (`ReadsLatest`). `DiskInv` says what the registers and
the device hold at each place of the thread that has the channel lock, as long as the devices are `Punctual`; that is the
hypothesis of both properties, and `DiskTimeout` shows what a slower device meets. With quick devices it says
nothing of `completion_wait`: the argument does not need the interrupt to be the right one, only that
`wait_while_busy` or `wait_until_idle` follows it. With slow ones it says that no count is stale.
On the terminal, from `TerminalAssumption` only (a thread reads or writes, a ring has at least two places), for
any readers and writers: `BytesKeepOrder` (`BytesInOrder`), `SerialAlwaysArmed` (`SerialArmed`) and `KeysFollowHeld`
(`KeysAsHeld`). The arithmetic of the ring comes first: what `contents` is after `intq_putc` and `intq_getc`, with
`next` and the remainders worked out for a modulus that is a constant. `TermInv` then has four parts. `OutInv`:
outside of queue mode the output queue is empty, which is why polling overtakes nothing, and every queued byte is
one the register can hold. `InInv`: the same for input. `WriterInv`: a writer inside a call has bytes left, and the
one that `not_full` names is asleep. `ArmedInv`: in queue mode `ier` is what `write_ier` would write, stronger than
`SerialArmed`. `KeyInv` rests on the three key maps, of which no row contains a shift key, and on the release bit
being tested in the low byte of a code, so that the prefix 0xe0 is not taken for a release.

`FilesProofs`, for `Undisturbed`: `InodesCounted`, `DescriptorCounts`, `NamesAlwaysLead`,
`ExecutablesUnchanged`, for any number of processes, sectors, open files and descriptors and any other paths.
`Undisturbed` leaves out what really breaks the counts: an `inode_close` interrupted half way (`FilesRace`), a
fork with a file on descriptor 0 or 1 (`ForkShares`), the two wild pointers (`WildCount`, `WildDir`), and the
names `.`, by which a directory that still has a name is removed (`FilesDots`), and `..`, which leads to a
freed sector once a parent that is not empty has been removed (`FilesParent`). The run `files` satisfies it.
`FilesInv` bounds the count of each inode from below by its open objects and the processes that work in it
(from below only, because calls leave directories open), makes the denial count and `dup_count` exact, says
that directories form a tree (`TreeInv`, without which a removal could free a sector that another name leads
to), and that an open file belongs to the descriptors of one process or is the program of one process
(`ExecInv`).

`SchedProofs` also has `WakeupsKept` (`NoLostWakeup`), which counts the woken threads of a
semaphore and therefore assumes that the set of threads is finite.

`KernelProofs`, about the specification `KSpec` of `MCKernel`:
- `BlocksDisjoint` (`HeapDisjoint`) and `NothingLost` (`ArenasAccounted`), for any number of threads and pages,
  any page size of at least 48 bytes and any requests. The invariant is `MemoryInv`: what a call in progress holds
  (`CallInv`, `OwnInv`), who holds a descriptor's lock (`DescInv`), that every block that is out lies in taken
  pages (`SoundInv`) which nobody else has (`ApartInv`), that the free lists hold no block twice and none that
  is out (`FreeInv`), that every block of an arena is listed or out and `free_cnt` is the number listed
  (`ArenaInv`), that an arena without a block out exists only under the lock (`FullInv`), and that every taken
  page is accounted for (`UsedInv`). `HeapDisjoint` alone is not inductive: `malloc_pop` is right because of
  `FreeInv`, `free_push` because of `OwnInv`, and giving an arena back because `ArenaInv` says that a full count
  means that all its blocks are listed.
- `CpuOrdersPriorities` (`CpuLowersPriority`), for any number of threads, any nice values, any scale of the fixed
  point and any timer frequency (`MlfqsAssumption`), from `MlfqsInv`: at a multiple of four ticks the priority of
  every thread that is not `touched` is `priority_of` its present `recent_cpu`, which is monotone through both truncating
  divisions, and a `thread_set_nice` that has computed a priority at this very tick holds that value too.

- `OnePageOneOwner` (`PagesOwned`), for any pool, processes and addresses (`PageTablesAssumption`: page 0 is
  no page of either pool, an address is three indices). `TablesInv` says that every page in use has one reason
  to be: it is the root of one process, or a table that exactly one entry of one table names. The frames are
  not owned by tables: any number of entries may map one. A walk is followed level by level: `pml4e_walk` adds
  at most one table per level and gives back those it added when a lower level fails, so that the tables are
  afterwards the old ones with one linked in, or the old ones.
- `TableAlwaysMap` (`TableIsMap`), for any finite set of keys, any elements and any load factor (`HashAssumption`:
  hashes are numbers, the table starts with a power of two of buckets). `HashInv` says that the buckets hold exactly
  the elements that `map` names, each once and in the bucket its hash selects under the present number of buckets, and
  that this number is a power of two. `hash_apply` and the loop of `rehash` are recursive functions; that they exist
  and what holds after each turn is proved from the least turn where it would fail (`LoopExists`, `Climb`). There is
  always a power of two for `rehash` to find because twice one is one (`DoublePower`).

Facts that need induction over a sequence, such as what `without` keeps of a free list, are proved from the
least number for which they fail; the library's induction theorems cannot be instantiated by the provers.

`FramesProofs`, for `Calm`: `MemoryAlwaysKept` (`MemoryKept`), `FramesAlwaysConsistent` (`FramesConsistent`)
and `UsedPagesSpared` (`SecondChance`), for any addresses, frames, slots and values, any number of processes
and any set of machines. `Calm` leaves out what really breaks them: a mother who writes to a frame that she
shares (`FramesCow`), a fork whose `ref_cnt++` meets another count of the same frame under way, of a write
fault, an exit or another fork (`FramesLost`), a freed frame struct that `malloc` returns while it is linked
(`Reuse`), and a machine that forks and swaps, where `vm_evict_frame` clears the entry of the running process
instead of the owner's. The run `frames` satisfies it. `MachinesAssumption` adds only that segments, stack and
mappings do not overlap and that a machine that forks has no mapping.

The invariant is `FramesInv`: on a machine without fork `SoloInv`, on one with fork `ForkInv`.
- `SoloInv` is about one process. `VaOk` says of every address where its content is: in the frame that its
  page and its entry both name, and that names it back; else in its slot, which is used; else in the file;
  else it has never been written. A mapped page that is in memory and clean equals the file: without it
  `write_back` could skip a page that was written. `SlotsOk`, `OwnedOk` and `TableOk` say that slots, frames
  and the frame table have no other users. While a fault runs, one frame `h` is in the kernel's hand and
  belongs to no page; `EvictSolo` and `FreeFields` show how `vm_get_frame` gets it, `SwapInSolo` how it is
  given away. `ClockOk` says that the hand is on the table, and only while `munmap` has left no dead element
  there, which is when the clock may run.
- `ForkInv` is about relatives. `Holders` of a frame are the processes with a page in it, and those that have
  moved their page out of it and not yet counted down. `CountOk` says that `ref_cnt` is at least their number,
  and so is every count that a write fault has loaded; `Pend` says the same of an exit, and that the count a
  fork has loaded is still the frame's. That is why a stale store is harmless when others have lowered the
  count meanwhile (it only keeps a frame for longer), and why a fork in between is not. `Shared` says that
  pages in one frame have one address, and `BornOk` that a child in the making has the very frames of its
  mother, who waits. `ForkWp` then shows that a page is written in place only when no other page is in its
  frame.
- `VictimFields` works out the clock: the victim is the first cold page of the tour, or every page was used.

Only model-checked: `ReadyRuns`, `SleepersWake`, `CallsReturn`, `DevicesServe`, because liveness
under fairness is outside the prover; `MapsAsSet`.

## 6. Plan

1. `Sched`: condition variables (`synch.c` 377-450); `list_sort` amid interrupts; the `malloc` of a donation
   together with `Memory`.
2. `Files`: bad names that exit with the lock held. `Fat` with a `sys_mkdir` beside another allocation.
3. `Frames`: eviction with several processes and fork of mapped pages.

## 7. Not modelled, and why

- Formatting, strings, the rest of the C library, VGA, `fsutil.c`, statistics and boot arguments: sequential
  code with no state that a property here depends on.
- ELF headers and the argument stack (`load`, `argument_stack`): conversion of data; `Files` and `Process`
  keep that it may fail.
- Hardware set-up: PIC, descriptor tables, `gdt.c`, `tss.c`, calibration of delays.
- The set-up of page pools from the memory map (`populate_pools`).
- `page_cache.c` is empty, `free-map.c` is not in the FAT build.
- Calls that read or set one number: seek, tell, filesize, isdir, inumber, readdir.

`PROJECT.json` gives the status of every component.

## 8. Running

`tlc -workers 2 -config SchedCore.cfg MCSched` checks a run (`PROJECT.json` names module and configuration
of each); `tlapm SchedProofs.tla` checks the proofs of a module.
