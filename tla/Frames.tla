------------------------------- MODULE Frames -------------------------------
(***************************************************************************)
(* Virtual memory: supplemental page tables, page tables, the frame table  *)
(* with its clock, swap slots, file-backed mappings, and the sharing of    *)
(* frames after a fork (vm/vm.c, anon.c, file.c, uninit.c, threads/mmu.c,  *)
(* the lazy loading of userprog/process.c).                                *)
(*                                                                         *)
(* A page's content is one value.  What the kernel keeps is the record vm; *)
(* every kernel function maps such a record to the next one.  kept is what *)
(* each process last wrote, which is what it must read back.  A machine    *)
(* says which addresses a program uses and how much memory there is.       *)
(***************************************************************************)
EXTENDS Integers, FiniteSets, Sequences, SequencesExt, FiniteSetsExt

CONSTANTS NProcs,        \* process 1 runs first, the others are forked in turn
          Machines,      \* the machines one of which runs
          MaxTable,      \* bound on the frame table, freed elements counted
          Written,       \* the values a program writes
          ParentWrites,  \* does a process write to what it shares with a child
          ForkRaces,     \* does a fork count a frame between the load and the store
                         \* of another's change of its count
          Reuse          \* does malloc give the memory of a freed frame to a new one

Procs == 1..NProcs
NULL == 0
None == -1                                   \* swap_idx = -1
Zero == 0                                    \* a page of zeros
Image == 7                                   \* what a segment holds in the executable

(***************************************************************************)
(* A machine: the segment, stack and mapped addresses (mapped ones are     *)
(* consecutive, the file's pages in order), the read-only addresses, the   *)
(* frames and slots, and which of fork, munmap and exit its programs call. *)
(***************************************************************************)
ASSUME MachinesAssumption ==
    /\ NProcs \in Nat \ {0}
    /\ \A m \in Machines :
       /\ {m.segs, m.stack, m.maps, m.readonly} \subseteq SUBSET Nat
       /\ m.readonly \subseteq m.segs
       /\ m.segs \cap m.stack = {} /\ m.segs \cap m.maps = {} /\ m.stack \cap m.maps = {}
       /\ m.frames \in Nat \ {0} /\ m.slots \in Nat /\ {m.forks, m.unmaps} \subseteq BOOLEAN
       /\ m.forks => m.maps = {}

VARIABLES machine, vm, kept, life,
          copying,       \* the write fault that is copying a frame, with the count it loaded
          counting,      \* the count that an exit or the child of a fork loaded
          making,        \* the child whose table the process waits for
          unmapping      \* the address that the loop of do_munmap looks at

calls == <<copying, counting, making, unmapping>>
vars == <<machine, vm, kept, life, calls>>

VAs == machine.segs \cup machine.stack \cup machine.maps
Frame == 1..machine.frames
Slot == 0..machine.slots - 1
Writable(va) == va \notin machine.readonly

NoPage == [kind |-> "none", frame |-> NULL, slot |-> None]
NoPte == [kva |-> NULL, p |-> FALSE, w |-> FALSE, a |-> FALSE, d |-> FALSE]
NoOwner == <<>>                              \* frame->page = NULL
Idle == [va |-> 0, from |-> NULL, cnt |-> None]
FreeFrame == [live |-> FALSE, page |-> NoOwner, ref_cnt |-> 0, data |-> Zero]

-----------------------------------------------------------------------------
(* Page tables *)

pml4_set_page(m, p, va, f, rw) ==
    [m EXCEPT !.pte[p][va] = [kva |-> f, p |-> TRUE, w |-> rw, a |-> FALSE, d |-> FALSE]]

\* Only the present bit goes: the dirty bit is still read afterwards.
pml4_clear_page(m, p, va) == [m EXCEPT !.pte[p][va].p = FALSE]

-----------------------------------------------------------------------------
(* Swapping out.  p is the running process, whose page table the code asks *)
(* and clears; q owns the page. *)

\* A wrong clock: it takes the first page, used or not.
vm_get_victim_Fifo(m, p) == [vm |-> m, victim |-> Head(m.frame_table)]

\* Where a frame is on the frame table.
place(table, f) == CHOOSE i \in DOMAIN table : table[i] = f

\* The first page of the clock's tour from clock_start whose accessed bit is
\* clear; the bits met before it are cleared.  After a whole tour, the start.
vm_get_victim(m, p) ==
    LET table == m.frame_table
        n == Len(table)
        start == IF m.clock_start = NULL THEN 1 ELSE place(table, m.clock_start)
        At(k) == table[((start - 1 + k) % n) + 1]
        Va(k) == m.frames[At(k)].page[2]
        Accessed(k) == m.pte[p][Va(k)].a
        cold == {k \in 0..n - 1 : ~Accessed(k)}
        met == IF cold = {} THEN n ELSE Min(cold)
        victim == At(met % n)
        at == place(table, victim)
    IN [vm |-> [m EXCEPT
                 !.pte[p] = [va \in VAs |->
                    [m.pte[p][va] EXCEPT !.a = @ /\ ~\E k \in 0..met - 1 : Va(k) = va]],
                 !.clock_start = IF at = n THEN NULL ELSE table[at + 1]],
        victim |-> victim]

free_slots(m) == {s \in Slot : ~m.swap[s].used}

anon_swap_out(m, q, va) ==
    LET s == Min(free_slots(m)) f == m.pages[q][va].frame
    IN [m EXCEPT !.swap[s] = [used |-> TRUE, data |-> m.frames[f].data],
                 !.frames[f].page = NoOwner,
                 !.pages[q][va] = [@ EXCEPT !.frame = NULL, !.slot = s]]

\* Back to the file when the running process's entry is dirty.
write_back(m, p, q, va) ==
    IF m.pte[p][va].d
    THEN [m EXCEPT !.disk[va] = m.frames[m.pages[q][va].frame].data,
                   !.pte[p][va].d = FALSE]
    ELSE m

file_backed_swap_out(m, p, q, va) ==
    LET f == m.pages[q][va].frame
    IN [write_back(m, p, q, va) EXCEPT !.frames[f].page = NoOwner, !.pages[q][va].frame = NULL]

swap_out(m, p, q, va) ==
    IF m.pages[q][va].kind = "file" THEN file_backed_swap_out(m, p, q, va)
                                    ELSE anon_swap_out(m, q, va)

\* A wrong eviction: the page stays mapped to the frame it lost.
vm_evict_frame_Mapped(m, p) ==
    LET v == vm_get_victim(m, p)
        page == m.frames[v.victim].page
        m1 == swap_out(v.vm, p, page[1], page[2])
    IN [vm |-> [m1 EXCEPT !.frame_table = RemoveAt(@, place(@, v.victim))], frame |-> v.victim]

vm_evict_frame(m, p) ==
    LET v == vm_get_victim(m, p)
        page == m.frames[v.victim].page
        m1 == pml4_clear_page(swap_out(v.vm, p, page[1], page[2]), p, page[2])
    IN [vm |-> [m1 EXCEPT !.frame_table = RemoveAt(@, place(@, v.victim))], frame |-> v.victim]

-----------------------------------------------------------------------------
(* Claiming a page *)

unused(m) == {f \in Frame : ~m.frames[f].live}

\* list_push_back.  A frame freed while it is on the list is still linked to its
\* neighbours: when malloc returns its memory, the elements behind it are no
\* longer reached from the front.
frame_table_insert(table, f) ==
    LET freed == {i \in DOMAIN table : table[i] = NULL}
    IN IF Reuse /\ freed # {} THEN SubSeq(table, 1, Min(freed) - 1) \o <<f>> ELSE Append(table, f)

\* A free frame comes zeroed, one taken from a page with what it held.
vm_get_frame(m, p) ==
    LET got == IF unused(m) # {}
               THEN LET f == Min(unused(m))
                    IN [vm |-> [m EXCEPT !.frames[f].data = Zero], frame |-> f]
               ELSE vm_evict_frame(m, p)
    IN [vm |-> [got.vm EXCEPT !.frames[got.frame] =
                                [live |-> TRUE, page |-> NoOwner, ref_cnt |-> 1, data |-> @.data],
                              !.frame_table = frame_table_insert(@, got.frame)],
        frame |-> got.frame]

\* Without a free slot the eviction panics, and the clock reads every frame it
\* meets and the page of it.
CanGetFrame(m) ==
    \/ unused(m) # {}
    \/ /\ free_slots(m) # {}
       /\ \A i \in DOMAIN m.frame_table : m.frame_table[i] # NULL
       /\ \A f \in Frame : m.frames[f].page # NoOwner

\* A wrong initializer: shared frames are cleared too.
anon_initializer_Always(m, p, va) ==
    [m EXCEPT !.pages[p][va] = [@ EXCEPT !.kind = "anon", !.slot = None],
              !.frames[m.pages[p][va].frame].data = Zero]

anon_initializer(m, p, va) ==
    LET f == m.pages[p][va].frame
    IN [m EXCEPT !.pages[p][va] = [@ EXCEPT !.kind = "anon", !.slot = None],
                 !.frames[f].data = IF m.frames[f].ref_cnt <= 1 THEN Zero ELSE @]

file_backed_initializer(m, p, va) == [m EXCEPT !.pages[p][va].kind = "file"]

lazy_load_segment(m, p, va) ==
    [m EXCEPT !.frames[m.pages[p][va].frame].data =
                  IF va \in machine.maps THEN m.disk[va] ELSE Image]

\* The page becomes what it is for; a segment or a mapping is then read.
uninit_initialize(m, p, va) ==
    IF va \in machine.maps
    THEN lazy_load_segment(file_backed_initializer(m, p, va), p, va)
    ELSE IF va \in machine.segs
         THEN lazy_load_segment(anon_initializer(m, p, va), p, va)
         ELSE anon_initializer(m, p, va)

anon_swap_in(m, p, va) ==
    LET s == m.pages[p][va].slot
    IN [m EXCEPT !.frames[m.pages[p][va].frame].data = m.swap[s].data,
                 !.swap[s].used = FALSE,
                 !.pages[p][va].slot = None]

file_backed_swap_in(m, p, va) == [m EXCEPT !.frames[m.pages[p][va].frame].data = m.disk[va]]

swap_in(m, p, va) ==
    CASE m.pages[p][va].kind = "uninit" -> uninit_initialize(m, p, va)
      [] m.pages[p][va].kind = "anon"   -> anon_swap_in(m, p, va)
      [] m.pages[p][va].kind = "file"   -> file_backed_swap_in(m, p, va)

vm_do_claim_page(m, p, va) ==
    LET got == vm_get_frame(m, p)
        m1 == [got.vm EXCEPT !.frames[got.frame].page = <<p, va>>, !.pages[p][va].frame = got.frame]
    IN swap_in(pml4_set_page(m1, p, va, got.frame, Writable(va)), p, va)

vm_alloc_page(m, p, va) == [m EXCEPT !.pages[p][va] = [NoPage EXCEPT !.kind = "uninit"]]

-----------------------------------------------------------------------------
(* Destroying a page *)

\* A frame that only the page used is freed; frame_table keeps an element of
\* freed memory (NULL here), which the next eviction would read.
file_backed_destroy(m, p, va) ==
    LET f == m.pages[p][va].frame
        m1 == pml4_clear_page(write_back(m, p, p, va), p, va)
    IN IF f # NULL /\ m.frames[f].ref_cnt < 1
       THEN [m1 EXCEPT !.frames[f].live = FALSE,
                       !.frame_table = [i \in DOMAIN @ |-> IF @[i] = f THEN NULL ELSE @[i]]]
       ELSE m1

\* The frame of an anonymous page is not given back.
anon_destroy(m, p, va) ==
    LET m1 == pml4_clear_page(m, p, va) s == m.pages[p][va].slot
    IN IF s = None THEN m1 ELSE [m1 EXCEPT !.swap[s].used = FALSE]

\* cnt is what ref_cnt-- has loaded.
vm_dealloc_page(m, p, va, cnt) ==
    LET pg == m.pages[p][va]
        m1 == IF pg.frame = NULL THEN m ELSE [m EXCEPT !.frames[pg.frame].ref_cnt = cnt - 1]
        m2 == CASE pg.kind = "file" -> file_backed_destroy(m1, p, va)
                [] pg.kind = "anon" -> anon_destroy(m1, p, va)
                [] OTHER -> m1
    IN [m2 EXCEPT !.pages[p][va] = NoPage]

\* Only do_munmap calls it, in a machine of one process: nobody else changes the
\* count between the load and the store.
spt_remove_page(m, p, va) ==
    vm_dealloc_page(pml4_clear_page(m, p, va), p, va, m.frames[m.pages[p][va].frame].ref_cnt)

-----------------------------------------------------------------------------
(* Actions *)

Init ==
    /\ machine \in Machines
    /\ life = [p \in Procs |-> IF p = 1 THEN "alive" ELSE "unborn"]
    /\ copying = [p \in Procs |-> Idle]
    /\ counting = [p \in Procs |-> Idle]
    /\ making = [p \in Procs |-> NULL]
    /\ unmapping = [p \in Procs |-> None]
    /\ kept = [p \in Procs |-> [va \in VAs |-> IF va \in machine.segs THEN Image ELSE Zero]]
    /\ vm = [pages |-> [p \in Procs |-> [va \in VAs |->
                          IF p = 1 /\ va \in machine.segs
                          THEN [NoPage EXCEPT !.kind = "uninit"] ELSE NoPage]],
             pte |-> [p \in Procs |-> [va \in VAs |-> NoPte]],
             frames |-> [f \in Frame |-> FreeFrame],
             frame_table |-> <<>>,
             clock_start |-> NULL,
             swap |-> [s \in Slot |-> [used |-> FALSE, data |-> Zero]],
             disk |-> [va \in machine.maps |-> Zero]]

Runs(p) == life[p] = "alive" /\ copying[p] = Idle /\ making[p] = NULL /\ unmapping[p] = None
Page(p, va) == vm.pages[p][va]
Sharers(f) == {x \in Procs \X VAs : Page(x[1], x[2]).frame = f}

\* The processor reads or writes through a present entry.
user_read(p, va) ==
    /\ Runs(p) /\ vm.pte[p][va].p /\ ~vm.pte[p][va].a
    /\ machine.slots > 0                    \* elsewhere nothing asks for the bit
    /\ vm' = [vm EXCEPT !.pte[p][va].a = TRUE]
    /\ UNCHANGED <<machine, kept, life, calls>>

user_write(p, va, v) ==
    /\ Runs(p) /\ vm.pte[p][va].p /\ vm.pte[p][va].w
    /\ LET f == vm.pte[p][va].kva
       IN /\ Cardinality(Sharers(f)) > 1 => ParentWrites
          /\ vm' = [vm EXCEPT !.pte[p][va] = [@ EXCEPT !.a = TRUE, !.d = TRUE],
                              !.frames[f].data = v]
    /\ kept' = [kept EXCEPT ![p][va] = v]
    /\ UNCHANGED <<machine, life, calls>>

\* vm_try_handle_fault on an address that is not present: the stack grows, or
\* the page is claimed.
fault_absent(p, va) ==
    /\ Runs(p) /\ ~vm.pte[p][va].p
    /\ CanGetFrame(vm)
    /\ \/ /\ Page(p, va).kind = "none" /\ va \in machine.stack
          /\ vm' = vm_do_claim_page(vm_alloc_page(vm, p, va), p, va)
       \/ /\ Page(p, va).kind # "none"
          /\ vm' = vm_do_claim_page(vm, p, va)
    /\ UNCHANGED <<machine, kept, life, calls>>

\* The write fault on a page fork shared: a copy if others use the frame, as
\* ref_cnt says now; the count goes down later.
vm_handle_wp(p, va) ==
    LET f == Page(p, va).frame
        got == vm_get_frame(vm, p)
    IN /\ Runs(p) /\ vm.pte[p][va].p /\ ~vm.pte[p][va].w /\ Writable(va)
       /\ \/ /\ vm.frames[f].ref_cnt > 1 /\ CanGetFrame(vm)
             /\ vm' = [got.vm EXCEPT !.pages[p][va].frame = got.frame,
                                     !.frames[got.frame].data = vm.frames[f].data]
             /\ copying' = [copying EXCEPT
                              ![p] = [va |-> va, from |-> f, cnt |-> None]]
          \/ /\ vm.frames[f].ref_cnt <= 1
             /\ vm' = pml4_set_page([vm EXCEPT !.frames[f].page = <<p, va>>], p, va, f, TRUE)
             /\ UNCHANGED copying
       /\ UNCHANGED <<machine, kept, life, counting, making, unmapping>>

\* ref_cnt-- and ref_cnt++ load the count, and store it changed in a later step:
\* what others do to the count in between is lost.
Uncounting(f) == \A q \in Procs : life[q] = "made" => counting[q].from # f
Unloaded(f) ==
    \A q \in Procs : counting[q].from # f /\ (copying[q].cnt # None => copying[q].from # f)

wp_load(p) ==
    /\ copying[p] # Idle /\ copying[p].cnt = None
    /\ ForkRaces \/ Uncounting(copying[p].from)
    /\ copying' = [copying EXCEPT ![p].cnt = vm.frames[copying[p].from].ref_cnt]
    /\ UNCHANGED <<machine, vm, kept, life, counting, making, unmapping>>

wp_copied(p) ==
    LET c == copying[p]
    IN /\ copying[p] # Idle /\ c.cnt # None
       /\ vm' = pml4_set_page([vm EXCEPT !.frames[c.from].ref_cnt = c.cnt - 1],
                              p, c.va, vm.pages[p][c.va].frame, TRUE)
       /\ copying' = [copying EXCEPT ![p] = Idle]
       /\ UNCHANGED <<machine, kept, life, counting, making, unmapping>>

\* fork: the mother waits while the child copies her table.
process_fork(p, c) ==
    /\ Runs(p) /\ machine.forks
    /\ life[c] = "unborn" /\ \A q \in 1..c - 1 : life[q] # "unborn"
    /\ life' = [life EXCEPT ![c] = "made"]
    /\ making' = [making EXCEPT ![p] = c]
    /\ UNCHANGED <<machine, vm, kept, copying, counting, unmapping>>

\* The child's page shares the mother's frame, read-only; cnt is what ref_cnt++
\* has loaded.  A count of 1 says that nobody used the frame, and the page stays
\* to be loaded.
vm_copy_claim_page(m, p, c, va, cnt) ==
    LET f == m.pages[p][va].frame
        m1 == [m EXCEPT !.frames[f].ref_cnt = cnt + 1,
                        !.pages[c][va] = [NoPage EXCEPT !.kind = "uninit", !.frame = f]]
    IN IF cnt = 0 THEN [vm_alloc_page(m, c, va) EXCEPT !.frames[f].ref_cnt = 1]
       ELSE anon_initializer(pml4_set_page(m1, c, va, f, FALSE), c, va)

\* supplemental_page_table_copy, one page: an untouched one is made anew, a
\* resident one is shared, beginning with the load of its frame's count.
supplemental_page_table_copy(p, va) ==
    LET c == making[p] f == Page(p, va).frame
    IN /\ c # NULL /\ Page(c, va).kind = "none" /\ counting[c] = Idle
       /\ \/ /\ Page(p, va).kind = "uninit" /\ vm' = vm_alloc_page(vm, c, va)
             /\ UNCHANGED counting
          \/ /\ Page(p, va).kind = "anon" /\ f # NULL
             /\ ForkRaces \/ Unloaded(f)
             /\ counting' = [counting EXCEPT ![c] =
                               [va |-> va, from |-> f, cnt |-> vm.frames[f].ref_cnt]]
             /\ UNCHANGED vm
       /\ UNCHANGED <<machine, kept, life, copying, making, unmapping>>

copy_counted(p) ==
    LET c == making[p]
    IN /\ c # NULL /\ counting[c] # Idle
       /\ vm' = vm_copy_claim_page(vm, p, c, counting[c].va, counting[c].cnt)
       /\ counting' = [counting EXCEPT ![c] = Idle]
       /\ UNCHANGED <<machine, kept, life, copying, making, unmapping>>

\* All is copied, and both run.
do_fork(p) ==
    LET c == making[p]
    IN /\ c # NULL /\ counting[c] = Idle
       /\ \A va \in VAs : Page(p, va).kind # "none" => Page(c, va).kind # "none"
       /\ kept' = [kept EXCEPT ![c] = kept[p]]
       /\ life' = [life EXCEPT ![c] = "alive"]
       /\ making' = [making EXCEPT ![p] = NULL]
       /\ UNCHANGED <<machine, vm, copying, counting, unmapping>>

exit(p) ==
    /\ Runs(p) /\ machine.forks
    /\ life' = [life EXCEPT ![p] = "dead"]
    /\ UNCHANGED <<machine, vm, kept, calls>>

\* supplemental_page_table_kill, one page, for a page in a frame after the load
\* of the frame's count.
kill_load(p, va) ==
    LET f == Page(p, va).frame
    IN /\ life[p] = "dead" /\ counting[p] = Idle /\ f # NULL
       /\ ForkRaces \/ Uncounting(f)
       /\ counting' = [counting EXCEPT ![p] =
                         [va |-> va, from |-> f, cnt |-> vm.frames[f].ref_cnt]]
       /\ UNCHANGED <<machine, vm, kept, life, copying, making, unmapping>>

hash_spt_entry_kill(p, va) ==
    /\ life[p] = "dead" /\ Page(p, va).kind # "none"
    /\ IF Page(p, va).frame = NULL THEN counting[p] = Idle
                                   ELSE counting[p] # Idle /\ counting[p].va = va
    /\ vm' = vm_dealloc_page(vm, p, va, counting[p].cnt)
    /\ counting' = [counting EXCEPT ![p] = Idle]
    /\ UNCHANGED <<machine, kept, life, copying, making, unmapping>>

\* A write to a read-only page fails and kills the process.
write_readonly(p, va) == ~Writable(va) /\ Page(p, va).kind # "none" /\ exit(p)

\* sys_mmap refuses a region in use; the pages are loaded when touched.
do_mmap(p) ==
    /\ Runs(p) /\ machine.maps # {} /\ Len(vm.frame_table) < MaxTable
    /\ \A va \in machine.maps : Page(p, va).kind = "none"
    /\ vm' = [vm EXCEPT !.pages[p] =
                 [va \in VAs |-> IF va \in machine.maps THEN [NoPage EXCEPT !.kind = "uninit"]
                                                       ELSE Page(p, va)]]
    /\ UNCHANGED <<machine, kept, life, calls>>

do_munmap(p) ==
    /\ Runs(p) /\ machine.unmaps /\ machine.maps # {}
    /\ Page(p, Min(machine.maps)).kind # "none"
    /\ unmapping' = [unmapping EXCEPT ![p] = Min(machine.maps) + 1]
    /\ UNCHANGED <<machine, vm, kept, life, copying, counting, making>>

\* is_my_mmap reads fields that only a touched page has: the loop ends at the
\* first untouched one, and never starts when the first page is untouched.
is_my_mmap(p, va) ==
    va \in machine.maps /\ {Page(p, va).kind, Page(p, Min(machine.maps)).kind} = {"file"}

munmap_page(p) ==
    LET va == unmapping[p]
    IN /\ va # None
       /\ \/ /\ is_my_mmap(p, va)
             /\ vm' = spt_remove_page(vm, p, va)
             /\ unmapping' = [unmapping EXCEPT ![p] = va + 1]
          \/ /\ ~is_my_mmap(p, va)
             /\ vm' = spt_remove_page(vm, p, Min(machine.maps))
             /\ unmapping' = [unmapping EXCEPT ![p] = None]
       /\ UNCHANGED <<machine, kept, life, copying, counting, making>>

Next ==
    \/ \E p \in Procs :
         \/ \E va \in VAs :
              \/ user_read(p, va)
              \/ \E v \in Written : user_write(p, va, v)
              \/ fault_absent(p, va)
              \/ vm_handle_wp(p, va)
              \/ write_readonly(p, va)
              \/ supplemental_page_table_copy(p, va)
              \/ kill_load(p, va)
              \/ hash_spt_entry_kill(p, va)
         \/ wp_load(p)
         \/ wp_copied(p)
         \/ \E c \in Procs : process_fork(p, c)
         \/ copy_counted(p)
         \/ do_fork(p)
         \/ exit(p)
         \/ do_mmap(p)
         \/ do_munmap(p)
         \/ munmap_page(p)

Spec == Init /\ [][Next]_vars

-----------------------------------------------------------------------------
(* Properties *)

Content(p, va) ==
    LET pg == Page(p, va)
    IN IF pg.frame # NULL THEN vm.frames[pg.frame].data
       ELSE IF pg.slot # None THEN vm.swap[pg.slot].data
       ELSE IF va \in machine.maps THEN vm.disk[va]
       ELSE IF va \in machine.segs THEN Image ELSE Zero

\* A process finds what it last wrote at every address, and what it had at the
\* fork if it has written nothing since, through evictions, swap, lazy loading,
\* unmapping (then the file holds it) and the copies of its relatives.
MemoryKept ==
    \A p \in Procs, va \in VAs : life[p] = "alive" => Content(p, va) = kept[p][va]

\* A swap slot is taken exactly while one page is stored in it, and an
\* anonymous page is either in a frame or in a slot, so no fault on it fails.
SlotsOwned ==
    /\ \A s \in Slot :
         Cardinality({x \in Procs \X VAs : Page(x[1], x[2]).slot = s})
           = IF vm.swap[s].used THEN 1 ELSE 0
    /\ \A p \in Procs, va \in VAs :
         Page(p, va).kind = "anon" => (Page(p, va).frame = NULL) # (Page(p, va).slot = None)

\* The processor's page table and the kernel's own agree: an entry is present
\* exactly for a page in a frame and leads to that frame, which is in use and on
\* the frame table, where it is once.  (The copy after a write fault has its
\* entry changed last.)
FramesLinked ==
    /\ \A p \in Procs, va \in VAs :
         copying[p] = Idle \/ copying[p].va # va =>
           /\ vm.pte[p][va].p <=> Page(p, va).frame # NULL
           /\ vm.pte[p][va].p => /\ vm.pte[p][va].kva = Page(p, va).frame
                                 /\ vm.frames[Page(p, va).frame].live
    /\ \A f \in Frame : vm.frames[f].live =>
         Cardinality({i \in DOMAIN vm.frame_table : vm.frame_table[i] = f}) = 1

\* ref_cnt is never less than the number of pages that use the frame, so no
\* page is written in place, or its frame freed, while another page uses it.
RefCounted ==
    \A f \in Frame : vm.frames[f].live => vm.frames[f].ref_cnt >= Cardinality(Sharers(f))

\* The tables of the virtual memory agree with each other.
FramesConsistent == SlotsOwned /\ FramesLinked /\ RefCounted

\* A page used since the clock passed it stays in memory unless every other page
\* in memory was used too.
UsedKept ==
    \A p \in Procs, va \in VAs :
      (/\ vm.pte[p][va].a /\ Page(p, va).frame # NULL
       /\ Page(p, va).kind # "none" /\ Page(p, va)'.kind = Page(p, va).kind
       /\ Page(p, va)'.frame = NULL)
         => \A w \in VAs : vm.pte[p][w].p => vm.pte[p][w].a

\* The clock of vm_get_victim gives a second chance: no step evicts a page used
\* since the clock passed it while a page in memory was not used.
SecondChance == [][UsedKept]_vars
=============================================================================
