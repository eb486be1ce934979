----------------------------- MODULE PageTables -----------------------------
(***************************************************************************)
(* The four-level page tables of threads/mmu.c, as the build with virtual  *)
(* memory uses them.  The tables are pages of the kernel's pool; a frame   *)
(* is of the user's pool, may be mapped by several processes (the copies   *)
(* of vm_copy_claim_page) and stays its caller's when pml4_set_page fails, *)
(* so that it never belongs to a table (Frames counts the frames).  An     *)
(* address is the triple of its indices below the first, user, entry of    *)
(* the pml4; the entry that pml4_clear_page leaves keeps the frame and     *)
(* loses only the present bit.  mapped is what the callers have set.       *)
(***************************************************************************)
EXTENDS Naturals, FiniteSets, FiniteSetsExt

CONSTANTS Pool,         \* pages of the kernel's pool, numbers from 1
          UserFrames,   \* pages of the user's pool
          Indices,      \* of an entry in a table
          Vas,          \* addresses, triples of indices
          Users         \* processes

VARIABLES used_pages, table, pml4, mapped

ptVars == <<used_pages, table, pml4, mapped>>

NONE == 0
Absent == [page |-> NONE, present |-> FALSE]
Present(page) == [page |-> page, present |-> TRUE]
Zeroed == [i \in Indices |-> Absent]

\* The tables while a function runs: the pages in use and their contents.
Mem == [used |-> used_pages, tab |-> table]
Full(m) == Pool \subseteq m.used
palloc_get_page(m) == Min(Pool \ m.used)
zeroed(m, page) == [used |-> m.used \cup {page}, tab |-> [m.tab EXCEPT ![page] = Zeroed]]
\* The contents of a freed page are never read again and are forgotten.
palloc_free_page(m, page) == [m EXCEPT !.used = @ \ {page}, !.tab[page] = Zeroed]
released(pages) == /\ used_pages' = used_pages \ pages
                   /\ table' = [p \in Pool |-> IF p \in pages THEN Zeroed ELSE table[p]]
linked(m, tab, i, page) == [m EXCEPT !.tab[tab][i] = Present(page)]
unlinked(m, tab, i) == [m EXCEPT !.tab[tab][i] = Absent]
added(m, tab, i) == linked(zeroed(m, palloc_get_page(m)), tab, i, palloc_get_page(m))

-----------------------------------------------------------------------------
(* Walks: the page table with the entry of va, or none, and the memory *)

pgdir_walk(m, pd, va, create) ==
    LET e == m.tab[pd][va[2]]
    IN IF e.present THEN [pt |-> e.page, mem |-> m]
       ELSE IF create /\ ~Full(m) THEN [pt |-> palloc_get_page(m), mem |-> added(m, pd, va[2])]
       ELSE [pt |-> NONE, mem |-> m]

\* A wrong walk: the directory it added stays when the walk fails below it.
pdpe_walk_Leak(m, pdpe, va, create) ==
    LET e == m.tab[pdpe][va[1]]
        m1 == IF e.present THEN m ELSE added(m, pdpe, va[1])
    IN IF e.present \/ (create /\ ~Full(m)) THEN pgdir_walk(m1, m1.tab[pdpe][va[1]].page, va, create)
       ELSE [pt |-> NONE, mem |-> m]

\* A wrong walk: a directory that was there before goes as well.
pdpe_walk_Always(m, pdpe, va, create) ==
    LET e == m.tab[pdpe][va[1]]
        m1 == IF e.present THEN m ELSE added(m, pdpe, va[1])
        pd == m1.tab[pdpe][va[1]].page
        w == pgdir_walk(m1, pd, va, create)
    IN IF ~e.present /\ (~create \/ Full(m)) THEN [pt |-> NONE, mem |-> m]
       ELSE IF w.pt = NONE /\ create
       THEN [pt |-> NONE, mem |-> unlinked(palloc_free_page(w.mem, pd), pdpe, va[1])]
       ELSE w

\* A directory that was added is taken back when the walk fails below it.
pdpe_walk(m, pdpe, va, create) ==
    LET e == m.tab[pdpe][va[1]]
        m1 == IF e.present THEN m ELSE added(m, pdpe, va[1])
        pd == m1.tab[pdpe][va[1]].page
        w == pgdir_walk(m1, pd, va, create)
    IN IF ~e.present /\ (~create \/ Full(m)) THEN [pt |-> NONE, mem |-> m]
       ELSE IF w.pt = NONE /\ ~e.present
       THEN [pt |-> NONE, mem |-> unlinked(palloc_free_page(w.mem, pd), pdpe, va[1])]
       ELSE w

pml4e_walk(m, root, va, create) ==
    LET e == m.tab[root][0]
        m1 == IF e.present THEN m ELSE added(m, root, 0)
        pdpe == m1.tab[root][0].page
        w == pdpe_walk(m1, pdpe, va, create)
    IN IF ~e.present /\ (~create \/ Full(m)) THEN [pt |-> NONE, mem |-> m]
       ELSE IF w.pt = NONE /\ ~e.present
       THEN [pt |-> NONE, mem |-> unlinked(palloc_free_page(w.mem, pdpe), root, 0)]
       ELSE w

\* Pages that the present entries of tables name.
Live(ts) == {table[x[1]][x[2]].page : x \in {y \in ts \X Indices : table[y[1]][y[2]].present}}

-----------------------------------------------------------------------------
PTInit == /\ used_pages = {}
          /\ table = [p \in Pool |-> Zeroed]
          /\ pml4 = [u \in Users |-> NONE]
          /\ mapped = [u \in Users |-> [va \in Vas |-> NONE]]

\* The kernel's part of the base table is left out: the user's entry is empty.
pml4_create(u) ==
    /\ pml4[u] = NONE /\ ~Full(Mem)
    /\ LET page == palloc_get_page(Mem)
           m == zeroed(Mem, page)
       IN used_pages' = m.used /\ table' = m.tab /\ pml4' = [pml4 EXCEPT ![u] = page]
    /\ UNCHANGED mapped

pml4_get_page(u, va) ==
    LET w == pml4e_walk(Mem, pml4[u], va, FALSE)
    IN IF w.pt # NONE /\ table[w.pt][va[3]].present THEN table[w.pt][va[3]].page ELSE NONE

\* Its callers claim a page (vm_do_claim_page), share one (vm_copy_claim_page)
\* or write over an entry that is present (vm_handle_wp).
pml4_set_page(u, va, kpage) ==
    LET w == pml4e_walk(Mem, pml4[u], va, TRUE)
        m == IF w.pt = NONE THEN w.mem ELSE linked(w.mem, w.pt, va[3], kpage)
    IN /\ pml4[u] # NONE
       /\ used_pages' = m.used /\ table' = m.tab
       /\ mapped' = IF w.pt = NONE THEN mapped ELSE [mapped EXCEPT ![u][va] = kpage]
       /\ UNCHANGED pml4

pml4_clear_page(u, va) ==
    LET w == pml4e_walk(Mem, pml4[u], va, FALSE)
    IN /\ pml4[u] # NONE
       /\ w.pt # NONE /\ table[w.pt][va[3]].present
       /\ table' = [table EXCEPT ![w.pt][va[3]].present = FALSE]
       /\ mapped' = [mapped EXCEPT ![u][va] = NONE]
       /\ UNCHANGED <<used_pages, pml4>>

\* pdpe_destroy, pgdir_destroy and pt_destroy: present entries only.  No frame
\* is left for pt_destroy to free: process_cleanup kills the supplemental page
\* table first, and the destructors of its pages clear their entries.
pml4_destroy(u) ==
    LET pdpe == Live({pml4[u]}) pds == Live(pdpe) pts == Live(pds)
    IN /\ pml4[u] # NONE /\ Live(pts) = {}
       /\ released({pml4[u]} \cup pdpe \cup pds \cup pts)
       /\ pml4' = [pml4 EXCEPT ![u] = NONE]
       /\ UNCHANGED mapped

PTNext == \E u \in Users : \/ pml4_create(u) \/ pml4_destroy(u)
                           \/ \E va \in Vas : \/ pml4_clear_page(u, va)
                                               \/ \E kpage \in UserFrames : pml4_set_page(u, va, kpage)

-----------------------------------------------------------------------------
(* Properties *)

\* The tables of a process, below its pml4.
Levels(u) == LET pdpe == Live({pml4[u]}) pds == Live(pdpe) IN <<pdpe, pds, Live(pds)>>
OwnedBy(u) == IF pml4[u] = NONE THEN {} ELSE {pml4[u]} \cup UNION {Levels(u)[i] : i \in 1..3}

\* Every page of a table belongs to one process, which reaches it in one way: a
\* walk that runs out of pages half way leaves no table behind, no two
\* processes share a table whatever frames they share, and pml4_destroy frees
\* each page once and no other's.
PagesOwned ==
    /\ used_pages = UNION {OwnedBy(u) : u \in Users}
    /\ \A u, v \in Users : u # v => OwnedBy(u) \cap OwnedBy(v) = {}
    /\ \A u \in Users : pml4[u] # NONE =>
          /\ \A i \in 1..3 : \A t \in Levels(u)[i] : table[t] # Zeroed
          /\ \A t, s \in OwnedBy(u) \ Levels(u)[3], i, j \in Indices :
               /\ table[t][i].present /\ table[s][j].present
               /\ table[t][i].page = table[s][j].page
               => t = s /\ i = j

\* What a process has mapped is what it reads back: a failed walk, a table
\* taken for another address and the tables of another process leave every
\* other mapping alone.
MapsAsSet == \A u \in Users : pml4[u] # NONE => \A va \in Vas : pml4_get_page(u, va) = mapped[u][va]
=============================================================================
