------------------------------- MODULE Memory -------------------------------
(***************************************************************************)
(* The kernel's memory allocators: pages of a pool with a bitmap           *)
(* (threads/palloc.c, lib/kernel/bitmap.c) and, on top, blocks of arenas   *)
(* (threads/malloc.c).  heap holds the blocks that callers own; a block is *)
(* a page, an index in its arena and the number of pages of a big one.     *)
(* A contended lock_acquire allocates its donation with malloc itself      *)
(* (threads/synch.c:253).  For the allocator that nested call is the call  *)
(* of one more thread while the outer one waits, and its block is one of   *)
(* the heap that lock_release frees; it is not tied to the outer call      *)
(* here, nor is its endless recursion when the lock wanted is the one of   *)
(* the donation's own size.                                                *)
(***************************************************************************)
EXTENDS Naturals, FiniteSets, Sequences, SequencesExt, FiniteSetsExt

CONSTANTS Threads,
          NPages,      \* pages of the pool
          PGSIZE,      \* bytes of a page
          Sizes,       \* the sizes callers ask for
          MaxHeap      \* bound on the blocks in use

ASSUME MemoryAssumption ==
    /\ "nobody" \notin Threads
    /\ NPages \in Nat /\ PGSIZE \in Nat /\ PGSIZE >= 48
    /\ Sizes \subseteq Nat

VARIABLES used_map, arena, free_list, lock, pc, heap

vars == <<used_map, arena, free_list, lock, pc, heap>>

Nobody == "nobody"
ArenaSize == 24                                       \* sizeof (struct arena)
Pages == 0..NPages - 1
NoArena == [desc |-> 0, free_cnt |-> 0]
NoBlock == [page |-> NPages, idx |-> 0, pages |-> 0]
Idle == [op |-> "idle", desc |-> 0, block |-> NoBlock, old |-> NoBlock]

-----------------------------------------------------------------------------
(* Bitmaps and pages *)

bitmap_contains(b, start, cnt, value) == \E i \in start..start + cnt - 1 : b[i] = value

\* The first of the groups of cnt bits that are all value.
groups(b, cnt, value) ==
    {i \in DOMAIN b : i + cnt <= Cardinality(DOMAIN b) /\ ~bitmap_contains(b, i, cnt, ~value)}

bitmap_scan(b, cnt, value) == Min(groups(b, cnt, value))

bitmap_set_multiple(b, start, cnt, value) ==
    [i \in DOMAIN b |-> IF i \in start..start + cnt - 1 THEN value ELSE b[i]]

\* A wrong allocator: it marks one page however many it returns.
palloc_get_multiple_One(cnt) ==
    used_map' = bitmap_set_multiple(used_map, bitmap_scan(used_map, cnt, FALSE), 1, TRUE)

\* Scan and flip are one step: only this function, under the pool's lock, sets
\* bits, and a bit cleared meanwhile is at most overlooked.
palloc_get_multiple(cnt) ==
    used_map' = bitmap_set_multiple(used_map, bitmap_scan(used_map, cnt, FALSE), cnt, TRUE)

NoPages(cnt) == groups(used_map, cnt, FALSE) = {}

-----------------------------------------------------------------------------
(* Descriptors and arenas *)

\* malloc_init: 16, 32, ... below half a page.
descs == {d \in {16, 32, 64, 128, 256, 512, 1024, 2048, 4096, 8192} : d < PGSIZE \div 2}
blocks_per_arena(d) == (PGSIZE - ArenaSize) \div d
big(size) == \A d \in descs : d < size
desc_of(size) == Min({d \in descs : d >= size})
page_cnt(size) == (size + ArenaSize + PGSIZE - 1) \div PGSIZE
arena_to_block(page, i) == [page |-> page, idx |-> i, pages |-> 0]
blocks(page, d) == [i \in 1..blocks_per_arena(d) |-> arena_to_block(page, i)]

malloc_init ==
    /\ used_map = [p \in Pages |-> FALSE]
    /\ arena = [p \in Pages |-> NoArena]
    /\ free_list = [d \in descs |-> <<>>]
    /\ lock = [d \in descs |-> Nobody]
    /\ pc = [t \in Threads |-> Idle]
    /\ heap = {}

\* What follows a block's arrival: nothing, or in realloc the free of the old.
after(t, old) == [pc EXCEPT ![t] = IF old = NoBlock THEN Idle
                                   ELSE [Idle EXCEPT !.op = "free", !.block = old]]

-----------------------------------------------------------------------------
(* malloc and realloc: old is the block realloc replaces, or none *)

\* Too big for the descriptors: whole pages with a header.
malloc_big(t, size, old) ==
    LET cnt == page_cnt(size)
        first == bitmap_scan(used_map, cnt, FALSE)
    IN /\ pc[t] = Idle /\ big(size) /\ Cardinality(heap) < MaxHeap
       /\ \/ /\ NoPages(cnt)                                  \* NULL
             /\ UNCHANGED <<used_map, arena, heap, pc>>
          \/ /\ ~NoPages(cnt)
             /\ palloc_get_multiple(cnt)
             /\ arena' = [arena EXCEPT ![first] = [desc |-> 0, free_cnt |-> cnt]]
             /\ heap' = (heap \ {old}) \cup {[page |-> first, idx |-> 0, pages |-> cnt]}
             /\ pc' = after(t, old)
       /\ UNCHANGED <<free_list, lock>>

\* lock_acquire (&d->lock)
malloc(t, size, old) ==
    LET d == desc_of(size)
    IN /\ pc[t] = Idle /\ size > 0 /\ ~big(size) /\ Cardinality(heap) < MaxHeap
       /\ lock[d] = Nobody
       /\ lock' = [lock EXCEPT ![d] = t]
       /\ pc' = [pc EXCEPT ![t] = [Idle EXCEPT !.op = "malloc", !.desc = d, !.old = old]]
       /\ heap' = heap \ {old}
       /\ UNCHANGED <<used_map, arena, free_list>>

\* On failure the caller of realloc still owns the old block.
kept(old) == IF old = NoBlock THEN {} ELSE {old}

\* The free list is empty: a new arena, or NULL.
malloc_arena(t) ==
    LET d == pc[t].desc
        page == bitmap_scan(used_map, 1, FALSE)
    IN /\ pc[t].op = "malloc" /\ free_list[d] = <<>>
       /\ \/ /\ NoPages(1)
             /\ lock' = [lock EXCEPT ![d] = Nobody]
             /\ pc' = [pc EXCEPT ![t] = Idle]
             /\ heap' = heap \cup kept(pc[t].old)
             /\ UNCHANGED <<used_map, arena, free_list>>
          \/ /\ ~NoPages(1)
             /\ palloc_get_multiple(1)
             /\ arena' = [arena EXCEPT ![page] = [desc |-> d, free_cnt |-> blocks_per_arena(d)]]
             /\ free_list' = [free_list EXCEPT ![d] = blocks(page, d)]
             /\ UNCHANGED <<lock, pc, heap>>

malloc_pop(t) ==
    LET d == pc[t].desc
        b == Head(free_list[d])
    IN /\ pc[t].op = "malloc" /\ free_list[d] # <<>>
       /\ free_list' = [free_list EXCEPT ![d] = Tail(@)]
       /\ arena' = [arena EXCEPT ![b.page].free_cnt = @ - 1]
       /\ heap' = heap \cup {b}
       /\ lock' = [lock EXCEPT ![d] = Nobody]
       /\ pc' = after(t, pc[t].old)
       /\ UNCHANGED used_map

-----------------------------------------------------------------------------
(* free *)

\* The caller gives the block up; realloc to 0 bytes is the same.
free(t, b) ==
    /\ pc[t] = Idle /\ b \in heap
    /\ heap' = heap \ {b}
    /\ pc' = [pc EXCEPT ![t] = [Idle EXCEPT !.op = "free", !.block = b]]
    /\ UNCHANGED <<used_map, arena, free_list, lock>>

\* A small block waits for its descriptor's lock; a big one's pages go back.
free_begin(t) ==
    LET b == pc[t].block
        d == arena[b.page].desc
    IN /\ pc[t].op = "free"
       /\ \/ /\ d # 0 /\ lock[d] = Nobody
             /\ lock' = [lock EXCEPT ![d] = t]
             /\ pc' = [pc EXCEPT ![t] = [@ EXCEPT !.op = "push", !.desc = d]]
          \/ /\ d = 0
             /\ pc' = [pc EXCEPT ![t] = [@ EXCEPT !.op = "pages",
                                                  !.block.pages = arena[b.page].free_cnt]]
             /\ UNCHANGED lock
       /\ UNCHANGED <<used_map, arena, free_list, heap>>

\* A wrong free: an arena with no block in use is kept.
free_push_Leak(t) ==
    LET b == pc[t].block
        d == pc[t].desc
    IN /\ pc[t].op = "push"
       /\ arena' = [arena EXCEPT ![b.page].free_cnt = @ + 1]
       /\ free_list' = [free_list EXCEPT ![d] = <<b>> \o @]
       /\ pc' = [pc EXCEPT ![t] = Idle]
       /\ lock' = [lock EXCEPT ![d] = Nobody]
       /\ UNCHANGED <<used_map, heap>>

\* list_remove of every block of the page.
without(list, page) ==
    LET kept_of[i \in 0..Len(list)] ==
          IF i = 0 THEN <<>>
          ELSE IF list[i].page = page THEN kept_of[i - 1] ELSE Append(kept_of[i - 1], list[i])
    IN kept_of[Len(list)]

\* Back on the free list; an arena with no block in use is taken apart.
free_push(t) ==
    LET b == pc[t].block
        d == pc[t].desc
        whole == arena[b.page].free_cnt + 1 >= blocks_per_arena(d)
        listed == <<b>> \o free_list[d]
    IN /\ pc[t].op = "push"
       /\ arena' = [arena EXCEPT ![b.page].free_cnt = @ + 1]
       /\ free_list' = [free_list EXCEPT ![d] =
                          IF whole THEN without(listed, b.page) ELSE listed]
       /\ pc' = [pc EXCEPT ![t] = IF whole THEN [@ EXCEPT !.op = "pages", !.block.pages = 1]
                                           ELSE Idle]
       /\ lock' = IF whole THEN lock ELSE [lock EXCEPT ![d] = Nobody]
       /\ UNCHANGED <<used_map, heap>>

\* palloc_free_multiple, without the pool's lock: the pages are overwritten, then
\* the bits are cleared one by one.  The descriptor's lock is held meanwhile.
palloc_free_multiple(t) ==
    LET b == pc[t].block
        d == pc[t].desc
    IN /\ pc[t].op = "pages"
       /\ used_map' = bitmap_set_multiple(used_map, b.page, 1, FALSE)
       /\ arena' = [arena EXCEPT ![b.page] = NoArena]
       /\ pc' = [pc EXCEPT ![t] = IF b.pages = 1 THEN Idle
                                  ELSE [@ EXCEPT !.block = [page |-> b.page + 1, idx |-> 0,
                                                            pages |-> b.pages - 1]]]
       /\ lock' = IF b.pages = 1 /\ d # 0 THEN [lock EXCEPT ![d] = Nobody] ELSE lock
       /\ UNCHANGED <<free_list, heap>>

Step(t) ==
    \/ malloc_arena(t)
    \/ malloc_pop(t)
    \/ free_begin(t)
    \/ free_push(t)
    \/ palloc_free_multiple(t)

Next ==
    \E t \in Threads :
       \/ \E size \in Sizes, old \in heap \cup {NoBlock} :
             malloc_big(t, size, old) \/ malloc(t, size, old)
       \/ \E b \in heap : free(t, b)
       \/ Step(t)

Spec == malloc_init /\ [][Next]_vars

-----------------------------------------------------------------------------
(* Properties *)

\* The block a thread has taken from its caller and not yet put back.
InFlight(b) ==
    \E t \in Threads : \/ pc[t].op \in {"free", "push"} /\ pc[t].block = b
                       \/ pc[t].op = "malloc" /\ pc[t].old = b

\* No two callers own the same memory: a block in use is on no free list, its
\* pages are marked, its arena's header is of its kind, and the pages of a big
\* block belong to it alone.
HeapDisjoint ==
    \A b \in heap :
       /\ \A p \in b.page..b.page + (IF b.pages = 0 THEN 0 ELSE b.pages - 1) : used_map[p]
       /\ b.pages = 0 => /\ arena[b.page].desc # 0
                         /\ b.idx \in 1..blocks_per_arena(arena[b.page].desc)
       /\ b.pages # 0 => arena[b.page] = [desc |-> 0, free_cnt |-> b.pages]
       /\ \A d \in descs : ~Contains(free_list[d], b)
       /\ \A c \in heap \ {b} :
            b.pages # 0 => c.page \notin b.page..b.page + b.pages - 1

\* No block and no page is lost.  While nobody holds a descriptor's lock, every
\* arena of it counts exactly its blocks on the free list and has at least one
\* block out, in use or on its way back; and when no call is under way a page
\* is taken from the pool exactly while a block in use lies in it.
ArenasAccounted ==
    /\ \A d \in descs : lock[d] = Nobody =>
          \A p \in Pages : arena[p].desc = d =>
             LET here == {i \in DOMAIN free_list[d] : free_list[d][i].page = p}
                 out == {i \in 1..blocks_per_arena(d) :
                           LET b == arena_to_block(p, i) IN b \in heap \/ InFlight(b)}
             IN /\ Cardinality(here) = arena[p].free_cnt
                /\ arena[p].free_cnt < blocks_per_arena(d)
                /\ Cardinality(out) = blocks_per_arena(d) - arena[p].free_cnt
    /\ (\A t \in Threads : pc[t] = Idle) =>
          \A p \in Pages : used_map[p] <=>
             \E b \in heap : p \in b.page..b.page + (IF b.pages = 0 THEN 0 ELSE b.pages - 1)
=============================================================================
