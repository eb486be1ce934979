---------------------------- MODULE KernelProofs ----------------------------
(***************************************************************************)
(* Theorems about the kernel's allocators, for any number of threads and   *)
(* pages, any page size from 48 bytes on and any sizes asked for, about    *)
(* the feedback scheduler, for any threads, nice values and clock, about   *)
(* the page tables, for any pool, processes and addresses, and about the   *)
(* hash table, for any keys, elements and load.                            *)
(***************************************************************************)
EXTENDS MCKernel, Integers, FiniteSetTheorems, TLAPS

-----------------------------------------------------------------------------
(* Who has which memory.                                                   *)

Block == [page : Pages, idx : Nat, pages : Nat]

\* The pages that a block lies in.
Cover(b) == b.page .. b.page + (IF b.pages = 0 THEN 0 ELSE b.pages - 1)

\* The block that a call of t has taken from its caller and not given back.
Held(t) ==
  IF pc[t].op \in {"free", "push"} THEN {pc[t].block}
  ELSE IF pc[t].op = "malloc" THEN {pc[t].old} \ {NoBlock} ELSE {}

\* The pages that t is giving back to the pool.
Freed(t) ==
  IF pc[t].op = "pages" THEN pc[t].block.page .. pc[t].block.page + pc[t].block.pages - 1 ELSE {}

\* The blocks that are in use, or in the hands of a call.
Out == heap \cup UNION {Held(t) : t \in Threads}

\* No block is on a list twice.
Once(list) == \A i, j \in DOMAIN list : list[i] = list[j] => i = j

\* The indices of the blocks of an arena that are on its descriptor's list.
FreeIdx(p) ==
  {i \in 1 .. blocks_per_arena(arena[p].desc) :
     arena_to_block(p, i) \in Range(free_list[arena[p].desc])}

IsArena(p) == arena[p].desc \in descs
BeingFreed(p) == \E t \in Threads : p \in Freed(t)

-----------------------------------------------------------------------------
(* The inductive invariant.                                                *)

Ops == {"idle", "malloc", "free", "push", "pages"}

MemoryType ==
  /\ used_map \in [Pages -> BOOLEAN]
  /\ arena \in [Pages -> [desc : descs \cup {0}, free_cnt : Int]]
  /\ free_list \in [descs -> Seq(Block)]
  /\ lock \in [descs -> Threads \cup {Nobody}]
  /\ pc \in [Threads -> [op : Ops, desc : descs \cup {0},
                         block : Block \cup {NoBlock}, old : Block \cup {NoBlock}]]
  /\ heap \in SUBSET Block

\* What a call knows at each of its points.
CallOk(t) ==
  /\ pc[t].op = "idle" => pc[t] = Idle
  /\ pc[t].op = "malloc" => pc[t].desc \in descs
  /\ pc[t].op \in {"free", "push", "pages"} => pc[t].block \in Block
  /\ pc[t].op = "free" => pc[t].desc = 0
  /\ pc[t].op = "push" => /\ pc[t].desc \in descs
                          /\ pc[t].block.pages = 0
                          /\ arena[pc[t].block.page].desc = pc[t].desc
  /\ pc[t].op = "pages" => /\ pc[t].block.pages >= 1
                           /\ pc[t].desc # 0 => pc[t].block.pages = 1

CallInv == \A t \in Threads : CallOk(t)

\* A descriptor's lock is held by the call that works on the descriptor.
DescInv == \A d \in descs, t \in Threads : lock[d] = t <=> pc[t].desc = d

\* A block is owned by one caller or by one call.
OwnInv ==
  /\ \A t \in Threads : Held(t) \cap heap = {}
  /\ \A t, u \in Threads : t # u => Held(t) \cap Held(u) = {}

\* A block that is out lies in pages taken from the pool, with the header of
\* its kind.
Sound(b) ==
  /\ \A p \in Cover(b) : p \in Pages /\ used_map[p]
  /\ b.pages = 0 => IsArena(b.page) /\ b.idx \in 1 .. blocks_per_arena(arena[b.page].desc)
  /\ b.pages # 0 => /\ arena[b.page] = [desc |-> 0, free_cnt |-> b.pages]
                    /\ \A p \in Cover(b) : arena[p].desc = 0

SoundInv == \A b \in Out : Sound(b)

\* The pages of a big block are its own, and so are the pages that a call
\* gives back.
ApartInv ==
  /\ \A b, c \in Out : b # c /\ b.pages # 0 => Cover(b) \cap Cover(c) = {}
  /\ \A t \in Threads, b \in Out : Freed(t) \cap Cover(b) = {}
  /\ \A t, u \in Threads : t # u => Freed(t) \cap Freed(u) = {}
  /\ \A t \in Threads : \A p \in Freed(t) :
       p \in Pages /\ used_map[p] /\ arena[p].desc = pc[t].desc

\* The blocks on a free list are of arenas of the descriptor, and nobody has
\* them.
FreeInv ==
  \A d \in descs :
    /\ Once(free_list[d])
    /\ \A x \in Range(free_list[d]) :
         /\ x.pages = 0 /\ arena[x.page].desc = d /\ x.idx \in 1 .. blocks_per_arena(d)
         /\ x \notin Out
         /\ ~BeingFreed(x.page)

\* Every block of an arena is on the free list or out, and the arena counts
\* those on the list.
ArenaInv ==
  \A p \in Pages : IsArena(p) =>
    /\ used_map[p]
    /\ ~BeingFreed(p) =>
         /\ \A i \in 1 .. blocks_per_arena(arena[p].desc) :
              arena_to_block(p, i) \in Range(free_list[arena[p].desc]) \cup Out
         /\ Cardinality(FreeIdx(p)) = arena[p].free_cnt

\* An arena with no block out exists only under the lock of its descriptor:
\* malloc has just made it and will take the block from it, or free is about
\* to give it back.
FullInv ==
  \A p \in Pages : IsArena(p) /\ arena[p].free_cnt >= blocks_per_arena(arena[p].desc) =>
    \E t \in Threads :
      /\ pc[t].desc = arena[p].desc
      /\ \/ pc[t].op = "malloc" /\ \A x \in Range(free_list[arena[p].desc]) : x.page = p
         \/ pc[t].op = "pages" /\ pc[t].block.page = p

\* A page is taken from the pool for an arena, for a big block, or until the
\* call that gives it back has come to it.
UsedInv ==
  \A p \in Pages :
    /\ used_map[p] => IsArena(p) \/ BeingFreed(p) \/ \E b \in Out : p \in Cover(b)
    /\ ~used_map[p] => arena[p] = NoArena

MemoryInv ==
  /\ MemoryType /\ CallInv /\ DescInv /\ OwnInv /\ SoundInv /\ ApartInv
  /\ FreeInv /\ ArenaInv /\ FullInv /\ UsedInv

-----------------------------------------------------------------------------
(* Numbers and lists.                                                      *)

\* A set of natural numbers that is not empty has a least element.
LEMMA LeastNat ==
  ASSUME NEW T \in SUBSET Nat, T # {}
  PROVE  \E x \in T : \A y \in T : x <= y
<1> DEFINE R == {ss \in Nat \X Nat : ss[1] < ss[2]}
<1>1. IsWellFoundedOn(OpToRel(<, Nat), Nat)
  BY NatLessThanWellFounded
<1>2. IsWellFoundedOn(R, Nat)
  BY <1>1 DEF OpToRel
<1>3. \A x, y \in Nat : y < x => <<y, x>> \in R
  OBVIOUS
<1> HIDE DEF R
<1>4. PICK x \in T : \A y \in T : ~(<<y, x>> \in R)
  BY <1>2, WFMin
<1>5. \A y \in T : ~(y < x)
  BY <1>3, <1>4
<1>6. \A y \in T : x <= y
  BY <1>5
<1> QED BY <1>6

\* Min of such a set is in it.
LEMMA MinFacts ==
  ASSUME NEW T \in SUBSET Nat, T # {}
  PROVE  Min(T) \in T
  BY LeastNat DEF Min

\* The descriptors and the pages are numbers; an arena has room for a block.
LEMMA Constants ==
  /\ NPages \in Nat /\ PGSIZE \in Nat
  /\ descs \subseteq Nat /\ 0 \notin descs
  /\ \A d \in descs : blocks_per_arena(d) \in Nat /\ blocks_per_arena(d) >= 1
  /\ \A p : p \in Pages <=> p \in Nat /\ p < NPages
  /\ Nobody \notin Threads
  /\ NoBlock \notin Block
  /\ Idle.op = "idle" /\ Idle.desc = 0 /\ Idle.block = NoBlock /\ Idle.old = NoBlock
<1>1. NPages \in Nat /\ PGSIZE \in Nat /\ PGSIZE >= 48 /\ Nobody \notin Threads
  BY MemoryAssumption DEF Nobody
<1>2. \A p : p \in Pages <=> p \in Nat /\ p < NPages
  BY <1>1 DEF Pages
<1>3. NoBlock \notin Block
  BY <1>1, <1>2 DEF NoBlock, Block
<1>4. ASSUME NEW d \in descs
      PROVE  d \in Nat /\ d # 0 /\ blocks_per_arena(d) \in Nat /\ blocks_per_arena(d) >= 1
  BY <1>1, <1>4 DEF descs, blocks_per_arena, ArenaSize
<1> QED BY <1>1, <1>2, <1>3, <1>4 DEF Idle

\* There are blocks_per_arena block indices.
LEMMA IndexCount ==
  ASSUME NEW d \in descs
  PROVE  /\ IsFiniteSet(1 .. blocks_per_arena(d))
         /\ Cardinality(1 .. blocks_per_arena(d)) = blocks_per_arena(d)
<1>1. blocks_per_arena(d) \in Nat
  BY Constants
<1>2. Cardinality(1 .. blocks_per_arena(d)) =
        IF 1 > blocks_per_arena(d) THEN 0 ELSE blocks_per_arena(d) - 1 + 1
  BY <1>1, FS_Interval
<1>3. IsFiniteSet(1 .. blocks_per_arena(d))
  BY <1>1, FS_Interval
<1> QED BY <1>1, <1>2, <1>3

\* A group of free pages is found in the pool.
LEMMA ScanFacts ==
  ASSUME MemoryType, NEW cnt \in Nat, cnt >= 1, ~NoPages(cnt)
  PROVE  /\ bitmap_scan(used_map, cnt, FALSE) \in Pages
         /\ \A k \in bitmap_scan(used_map, cnt, FALSE) .. bitmap_scan(used_map, cnt, FALSE) + cnt - 1 :
              k \in Pages /\ ~used_map[k]
<1>1. used_map \in [Pages -> BOOLEAN] /\ NPages \in Nat
  BY Constants DEF MemoryType
<1>2. DOMAIN used_map = Pages /\ Cardinality(Pages) = NPages
  <2>1. Pages = 0 .. NPages - 1
    BY DEF Pages
  <2>2. Cardinality(0 .. NPages - 1) = IF 0 > NPages - 1 THEN 0 ELSE NPages - 1 - 0 + 1
    BY <1>1, FS_Interval
  <2> QED BY <1>1, <2>1, <2>2
<1>3. groups(used_map, cnt, FALSE) \in SUBSET Nat /\ groups(used_map, cnt, FALSE) # {}
  BY <1>2, Constants DEF groups, NoPages
<1>4. PICK first : first = bitmap_scan(used_map, cnt, FALSE)
  OBVIOUS
<1>5. first \in groups(used_map, cnt, FALSE)
  BY <1>3, <1>4, MinFacts DEF bitmap_scan
<1>6. /\ first \in Pages /\ first + cnt <= NPages
      /\ ~ \E i \in first .. first + cnt - 1 : used_map[i] = ~FALSE
  BY <1>2, <1>5, Zenon DEF groups, bitmap_contains
<1>7. \A k \in first .. first + cnt - 1 : k \in Pages
  BY <1>6, Constants
<1>8. \A k \in first .. first + cnt - 1 : ~used_map[k]
  BY <1>1, <1>6, <1>7, Zenon
<1> QED BY <1>4, <1>6, <1>7, <1>8

\* Taking the first element off a list.
LEMMA TailFacts ==
  ASSUME NEW S, NEW q \in Seq(S), q # <<>>, Once(q)
  PROVE  /\ Head(q) \in S /\ Tail(q) \in Seq(S)
         /\ Range(q) = Range(Tail(q)) \cup {Head(q)}
         /\ Head(q) \notin Range(Tail(q))
         /\ Once(Tail(q))
<1>1. /\ Len(q) \in Nat /\ Len(q) >= 1 /\ DOMAIN q = 1 .. Len(q)
      /\ Head(q) = q[1] /\ Tail(q) \in Seq(S) /\ Head(q) \in S
      /\ DOMAIN Tail(q) = 1 .. Len(q) - 1
      /\ \A i \in 1 .. Len(q) - 1 : Tail(q)[i] = q[i + 1]
  OBVIOUS
<1>2. Range(q) = Range(Tail(q)) \cup {Head(q)}
  <2>1. ASSUME NEW x \in Range(q) PROVE x \in Range(Tail(q)) \cup {Head(q)}
    <3>1. PICK i \in 1 .. Len(q) : q[i] = x
      BY <1>1, <2>1 DEF Range
    <3>2. CASE i = 1
      BY <1>1, <3>1, <3>2
    <3>3. CASE i # 1
      <4>1. i - 1 \in 1 .. Len(q) - 1 /\ Tail(q)[i - 1] = x
        BY <1>1, <3>1, <3>3
      <4> QED BY <1>1, <4>1 DEF Range
    <3> QED BY <3>2, <3>3
  <2>2. Range(Tail(q)) \cup {Head(q)} \subseteq Range(q)
    BY <1>1 DEF Range
  <2> QED BY <2>1, <2>2
<1>3. Head(q) \notin Range(Tail(q))
  BY <1>1 DEF Range, Once
<1>4. Once(Tail(q))
  BY <1>1 DEF Once
<1> QED BY <1>1, <1>2, <1>3, <1>4

\* Putting an element in front of a list that does not hold it.
LEMMA PushFacts ==
  ASSUME NEW S, NEW q \in Seq(S), NEW b \in S, b \notin Range(q), Once(q)
  PROVE  /\ <<b>> \o q \in Seq(S)
         /\ Range(<<b>> \o q) = Range(q) \cup {b}
         /\ Once(<<b>> \o q)
<1> DEFINE r == <<b>> \o q
<1>1. /\ r \in Seq(S) /\ Len(r) = Len(q) + 1 /\ Len(q) \in Nat
      /\ DOMAIN r = 1 .. Len(q) + 1 /\ DOMAIN q = 1 .. Len(q)
      /\ \A i \in 1 .. Len(q) + 1 : r[i] = IF i = 1 THEN b ELSE q[i - 1]
  OBVIOUS
<1> HIDE DEF r
<1>2. Range(r) = Range(q) \cup {b}
  <2>1. ASSUME NEW x \in Range(r) PROVE x \in Range(q) \cup {b}
    BY <1>1, <2>1 DEF Range
  <2>2. ASSUME NEW x \in Range(q) PROVE x \in Range(r)
    <3>1. PICK i \in 1 .. Len(q) : q[i] = x
      BY <1>1, <2>2 DEF Range
    <3>2. i + 1 \in 1 .. Len(q) + 1 /\ r[i + 1] = x
      BY <1>1, <3>1
    <3> QED BY <1>1, <3>2 DEF Range
  <2>3. b \in Range(r)
    BY <1>1 DEF Range
  <2> QED BY <2>1, <2>2, <2>3
<1>3. Once(r)
  <2> SUFFICES ASSUME NEW i \in 1 .. Len(q) + 1, NEW j \in 1 .. Len(q) + 1, r[i] = r[j] PROVE i = j
    BY <1>1 DEF Once
  <2>1. \A k \in 1 .. Len(q) : q[k] # b
    BY <1>1 DEF Range
  <2>2. CASE i = 1 \/ j = 1
    BY <1>1, <2>1, <2>2
  <2>3. CASE i # 1 /\ j # 1
    BY <1>1, <2>3 DEF Once
  <2> QED BY <2>2, <2>3
<1> QED BY <1>1, <1>2, <1>3 DEF r

\* The blocks of a new arena.
LEMMA BlocksFacts ==
  ASSUME NEW p \in Pages, NEW d \in descs
  PROVE  /\ blocks(p, d) \in Seq(Block) /\ Once(blocks(p, d))
         /\ \A x : x \in Range(blocks(p, d)) <=>
              \E i \in 1 .. blocks_per_arena(d) : x = arena_to_block(p, i)
<1>1. blocks_per_arena(d) \in Nat
  BY Constants
<1>2. \A i \in 1 .. blocks_per_arena(d) : arena_to_block(p, i) \in Block
  BY <1>1 DEF arena_to_block, Block
<1> QED BY <1>1, <1>2 DEF blocks, Once, Range, arena_to_block

\* Taking the blocks of a page off a list.
LEMMA WithoutFacts ==
  ASSUME NEW q \in Seq(Block), NEW page, Once(q)
  PROVE  /\ without(q, page) \in Seq(Block)
         /\ Once(without(q, page))
         /\ \A x : x \in Range(without(q, page)) <=> x \in Range(q) /\ x.page # page
<1> DEFINE n == Len(q)
           Body(f, i) == IF i = 0 THEN <<>>
                         ELSE IF q[i].page = page THEN f[i - 1] ELSE Append(f[i - 1], q[i])
           f == CHOOSE g : g = [i \in 0 .. n |-> Body(g, i)]
           Of(r, k) == /\ r \in Seq(Block) /\ Once(r)
                       /\ \A x : x \in Range(r) <=> x.page # page /\ \E i \in 1 .. k : x = q[i]
<1>0. n \in Nat /\ DOMAIN q = 1 .. n /\ \A i \in 1 .. n : q[i] \in Block
  OBVIOUS
<1>1. without(q, page) = f[n]
  BY DEF without
<1> HIDE DEF n
\* What one step of the loop does to a list of what was kept so far.
<1>2. ASSUME NEW r, NEW k \in 1 .. n, Of(r, k - 1)
      PROVE  Of(IF q[k].page = page THEN r ELSE Append(r, q[k]), k)
  <2>1. \A x : (\E i \in 1 .. k : x = q[i]) <=> (\E i \in 1 .. k - 1 : x = q[i]) \/ x = q[k]
    BY <1>0
  <2>2. CASE q[k].page = page
    <3>1. \A x : x \in Range(r) <=> x.page # page /\ \E i \in 1 .. k : x = q[i]
      BY <1>2, <2>1, <2>2
    <3> QED BY <1>2, <2>2, <3>1
  <2>3. CASE q[k].page # page
    <3> DEFINE s == Append(r, q[k])
    <3>1. /\ r \in Seq(Block) /\ q[k] \in Block /\ q[k] \notin Range(r)
      BY <1>0, <1>2 DEF Once
    <3>2. /\ s \in Seq(Block) /\ Len(r) \in Nat /\ DOMAIN r = 1 .. Len(r)
          /\ DOMAIN s = 1 .. Len(r) + 1
          /\ \A i \in 1 .. Len(r) + 1 : s[i] = IF i = Len(r) + 1 THEN q[k] ELSE r[i]
      BY <3>1
    <3> HIDE DEF s
    <3>3. Range(s) = Range(r) \cup {q[k]}
      BY <3>2 DEF Range
    <3>4. Once(s)
      BY <1>2, <3>1, <3>2 DEF Once, Range
    <3>5. \A x : x \in Range(s) <=> x.page # page /\ \E i \in 1 .. k : x = q[i]
      BY <1>2, <2>1, <2>3, <3>3
    <3> QED BY <2>3, <3>2, <3>4, <3>5 DEF s
  <2> QED BY <2>2, <2>3
<1> HIDE DEF Of
<1>3. Of(<<>>, 0)
  BY DEF Of, Once, Range
\* The function that the loop computes exists up to every length.
<1> DEFINE Made(m, g) == DOMAIN g = 0 .. m /\ \A i \in 0 .. m : g[i] = Body(g, i)
           T == {m \in 0 .. n : ~ \E g : Made(m, g)}
<1>4. T = {}
  <2> SUFFICES ASSUME T # {} PROVE FALSE
    OBVIOUS
  <2>1. T \in SUBSET Nat
    BY <1>0
  <2>2. \A m : m \in T <=> m \in 0 .. n /\ ~ \E g : Made(m, g)
    OBVIOUS
  <2> HIDE DEF T
  <2>3. PICK m \in T : \A y \in T : m <= y
    BY <2>1, LeastNat
  <2>4. m \in 0 .. n /\ ~ \E g : Made(m, g)
    BY <2>2, <2>3
  <2>5. CASE m = 0
    <3>1. Made(0, [i \in 0 .. 0 |-> <<>>])
      OBVIOUS
    <3> QED BY <2>4, <2>5, <3>1
  <2>6. CASE m # 0
    <3>1. m - 1 \in 0 .. n /\ m - 1 \notin T
      BY <1>0, <2>3, <2>4, <2>6
    <3>2. PICK g : Made(m - 1, g)
      BY <2>2, <3>1
    <3> DEFINE h == [i \in 0 .. m |-> IF i = m THEN Body(g, m) ELSE g[i]]
    <3>3. \A i \in 0 .. m : h[i] = Body(h, i)
      <4> TAKE i \in 0 .. m
      <4>1. m \in Nat /\ i \in Nat
        BY <1>0, <2>4
      <4>2. CASE i = 0
        BY <2>6, <3>2, <4>1, <4>2
      <4>3. CASE i # 0
        <5>1. h[i - 1] = g[i - 1] /\ i - 1 \in 0 .. m - 1
          BY <4>1, <4>3
        <5>2. h[i] = Body(g, i)
          <6>1. CASE i = m
            BY <4>1, <6>1
          <6>2. CASE i # m
            <7>1. i \in 0 .. m - 1 /\ h[i] = g[i]
              BY <4>1, <6>2
            <7> HIDE DEF h
            <7> QED BY <3>2, <7>1
          <6> QED BY <6>1, <6>2
        <5> QED BY <4>3, <5>1, <5>2
      <4> QED BY <4>2, <4>3
    <3>4. Made(m, h)
      BY <3>3
    <3> QED BY <2>4, <3>4
  <2> QED BY <2>5, <2>6
<1>5. PICK g : Made(n, g)
  BY <1>0, <1>4
<1>6. f = [i \in 0 .. n |-> Body(f, i)]
  <2> DEFINE g2 == [i \in 0 .. n |-> g[i]]
  <2>1. g2 = [i \in 0 .. n |-> Body(g2, i)]
    <3>1. \A i \in 0 .. n : g2[i] = Body(g2, i)
      BY <1>0, <1>5
    <3> QED BY <3>1
  <2> QED BY <2>1
<1> HIDE DEF f
<1> DEFINE U == {i \in 0 .. n : ~Of(f[i], i)}
<1>7. U = {}
  <2> SUFFICES ASSUME U # {} PROVE FALSE
    OBVIOUS
  <2>1. U \in SUBSET Nat
    BY <1>0
  <2>2. \A m : m \in U <=> m \in 0 .. n /\ ~Of(f[m], m)
    OBVIOUS
  <2> HIDE DEF U
  <2>3. PICK m \in U : \A y \in U : m <= y
    BY <2>1, LeastNat
  <2>4. m \in 0 .. n /\ ~Of(f[m], m)
    BY <2>2, <2>3
  <2>5. CASE m = 0
    <3>1. f[0] = <<>>
      BY <1>0, <1>6
    <3> QED BY <1>3, <2>4, <2>5, <3>1
  <2>6. CASE m # 0
    <3>1. m - 1 \in 0 .. n /\ m - 1 \notin U /\ m \in 1 .. n
      BY <1>0, <2>3, <2>4, <2>6
    <3>2. Of(f[m - 1], m - 1)
      BY <2>2, <3>1
    <3>3. f[m] = IF q[m].page = page THEN f[m - 1] ELSE Append(f[m - 1], q[m])
      BY <1>6, <2>4, <2>6
    <3> QED BY <1>2, <2>4, <3>1, <3>2, <3>3
  <2> QED BY <2>5, <2>6
<1>8. Of(f[n], n)
  BY <1>0, <1>7
<1>9. \A x : x \in Range(q) <=> \E i \in 1 .. n : x = q[i]
  BY <1>0 DEF Range
<1> QED BY <1>1, <1>8, <1>9 DEF Of

-----------------------------------------------------------------------------
(* What the invariant says.                                                *)

\* Blocks in use are apart from each other and from the free lists.
LEMMA DisjointHolds == MemoryInv => HeapDisjoint
<1> SUFFICES ASSUME MemoryInv, NEW b \in heap
             PROVE  /\ \A p \in b.page .. b.page + (IF b.pages = 0 THEN 0 ELSE b.pages - 1) : used_map[p]
                    /\ b.pages = 0 => /\ arena[b.page].desc # 0
                                      /\ b.idx \in 1 .. blocks_per_arena(arena[b.page].desc)
                    /\ b.pages # 0 => arena[b.page] = [desc |-> 0, free_cnt |-> b.pages]
                    /\ \A d \in descs : ~Contains(free_list[d], b)
                    /\ \A c \in heap \ {b} :
                         b.pages # 0 => c.page \notin b.page .. b.page + b.pages - 1
  BY DEF HeapDisjoint
<1>1. b \in Out /\ b \in Block
  BY DEF Out, MemoryInv, MemoryType
<1>2. Sound(b)
  BY <1>1 DEF MemoryInv, SoundInv
<1>3. \A d \in descs : ~Contains(free_list[d], b)
  <2> SUFFICES ASSUME NEW d \in descs, Contains(free_list[d], b) PROVE FALSE
    OBVIOUS
  <2>1. b \notin Range(free_list[d])
    BY <1>1 DEF MemoryInv, FreeInv
  <2>2. free_list[d] \in Seq(Block)
    BY DEF MemoryInv, MemoryType
  <2>3. PICK i \in 1 .. Len(free_list[d]) : free_list[d][i] = b
    BY DEF Contains
  <2> QED BY <2>1, <2>2, <2>3 DEF Range
<1>4. ASSUME NEW c \in heap, c # b, b.pages # 0
      PROVE  c.page \notin b.page .. b.page + b.pages - 1
  <2>1. c \in Out /\ c \in Block
    BY DEF Out, MemoryInv, MemoryType
  <2>2. Cover(b) \cap Cover(c) = {}
    BY <1>1, <1>4, <2>1 DEF MemoryInv, ApartInv
  <2>3. c.page \in Cover(c)
    BY <2>1, Constants DEF Cover, Block
  <2> QED BY <1>4, <2>2, <2>3 DEF Cover
<1>5. 0 \notin descs
  BY Constants
<1> QED BY <1>2, <1>3, <1>4, <1>5 DEF Sound, Cover, IsArena

\* The blocks of an arena on the list, counted by position or by index.
LEMMA CountHere ==
  ASSUME MemoryInv, NEW p \in Pages, IsArena(p)
  PROVE  LET q == free_list[arena[p].desc]
         IN Cardinality({i \in DOMAIN q : q[i].page = p}) = Cardinality(FreeIdx(p))
<1> DEFINE d == arena[p].desc
           q == free_list[d]
           here == {i \in DOMAIN q : q[i].page = p}
           g == [i \in here |-> q[i].idx]
<1>1. /\ d \in descs /\ q \in Seq(Block) /\ Once(q) /\ blocks_per_arena(d) \in Nat
      /\ \A x \in Range(q) : x.pages = 0 /\ x.idx \in 1 .. blocks_per_arena(d)
  BY Constants DEF IsArena, MemoryInv, MemoryType, FreeInv
<1> HIDE DEF d
<1>2. \A i \in here : q[i] = arena_to_block(p, q[i].idx) /\ q[i] \in Range(q)
  <2> SUFFICES ASSUME NEW i \in here PROVE q[i] = arena_to_block(p, q[i].idx) /\ q[i] \in Range(q)
    OBVIOUS
  <2>1. q[i] \in Range(q) /\ q[i] \in Block /\ q[i].page = p
    BY <1>1 DEF Range
  <2>2. q[i].pages = 0
    BY <1>1, <2>1
  <2> QED BY <2>1, <2>2 DEF Block, arena_to_block
<1>3. g \in Bijection(here, FreeIdx(p))
  <2>1. \A i \in here : g[i] \in FreeIdx(p)
    BY <1>1, <1>2 DEF FreeIdx, d
  <2>2. \A i, j \in here : g[i] = g[j] => i = j
    <3> SUFFICES ASSUME NEW i \in here, NEW j \in here, g[i] = g[j] PROVE i = j
      OBVIOUS
    <3>1. q[i] = q[j]
      BY <1>2
    <3> QED BY <1>1, <3>1 DEF Once
  <2>3. ASSUME NEW k \in FreeIdx(p) PROVE \E i \in here : g[i] = k
    <3>1. arena_to_block(p, k) \in Range(q)
      BY <2>3 DEF FreeIdx, d
    <3>2. PICK i \in DOMAIN q : q[i] = arena_to_block(p, k)
      BY <3>1 DEF Range
    <3>3. q[i].page = p /\ q[i].idx = k
      BY <3>2 DEF arena_to_block
    <3> QED BY <3>2, <3>3
  <2> HIDE DEF g
  <2>4. g \in [here -> FreeIdx(p)]
    BY <2>1 DEF g
  <2> QED BY <2>2, <2>3, <2>4 DEF Bijection, Injection, Surjection, IsInjective
<1>4. FreeIdx(p) \subseteq 1 .. blocks_per_arena(d)
  BY DEF FreeIdx, d
<1>5. IsFiniteSet(FreeIdx(p))
  <2>1. IsFiniteSet(1 .. blocks_per_arena(d))
    BY <1>1, FS_Interval
  <2> QED BY <1>4, <2>1, FS_Subset
<1>6. IsFiniteSet(here)
  <2>1. here \subseteq 1 .. Len(q) /\ Len(q) \in Nat
    BY <1>1
  <2>2. IsFiniteSet(1 .. Len(q))
    BY <2>1, FS_Interval
  <2> QED BY <2>1, <2>2, FS_Subset
<1> HIDE DEF here, q, g
<1>7. Cardinality(here) = Cardinality(FreeIdx(p))
  BY <1>3, <1>5, <1>6, FS_Bijection DEF ExistsBijection
<1> QED BY <1>7 DEF here, q, d

\* No block and no page is lost.
LEMMA AccountedHolds == MemoryInv => ArenasAccounted
<1> SUFFICES ASSUME MemoryInv PROVE ArenasAccounted
  OBVIOUS
<1>1. ASSUME NEW d \in descs, lock[d] = Nobody, NEW p \in Pages, arena[p].desc = d
      PROVE  LET here == {i \in DOMAIN free_list[d] : free_list[d][i].page = p}
                 out == {i \in 1 .. blocks_per_arena(d) :
                           LET b == arena_to_block(p, i) IN b \in heap \/ InFlight(b)}
             IN /\ Cardinality(here) = arena[p].free_cnt
                /\ arena[p].free_cnt < blocks_per_arena(d)
                /\ Cardinality(out) = blocks_per_arena(d) - arena[p].free_cnt
  <2> DEFINE out == {i \in 1 .. blocks_per_arena(d) :
                       LET b == arena_to_block(p, i) IN b \in heap \/ InFlight(b)}
  <2>1. \A t \in Threads : pc[t].desc # d
    BY <1>1, Constants DEF MemoryInv, DescInv
  <2>2. ~BeingFreed(p)
    BY <1>1, <2>1 DEF MemoryInv, ApartInv, BeingFreed
  <2>3. /\ \A i \in 1 .. blocks_per_arena(d) : arena_to_block(p, i) \in Range(free_list[d]) \cup Out
        /\ Cardinality(FreeIdx(p)) = arena[p].free_cnt
    BY <1>1, <2>2 DEF MemoryInv, ArenaInv, IsArena
  <2>4. arena[p].free_cnt \in Int /\ blocks_per_arena(d) \in Nat
    BY Constants DEF MemoryInv, MemoryType
  <2>5. arena[p].free_cnt < blocks_per_arena(d)
    BY <1>1, <2>1, <2>4 DEF MemoryInv, FullInv, IsArena
  <2>6. \A i \in 1 .. blocks_per_arena(d) : arena_to_block(p, i) # NoBlock
    BY <2>4, Constants DEF arena_to_block, NoBlock
  <2>7. \A b : b # NoBlock => (b \in Out <=> b \in heap \/ InFlight(b))
    BY DEF Out, Held, InFlight
  <2>8. \A i : i \in out <=> i \in (1 .. blocks_per_arena(d)) \ FreeIdx(p)
    <3>1. \A i \in 1 .. blocks_per_arena(d) : i \in out <=> arena_to_block(p, i) \in Out
      BY <2>6, <2>7
    <3>2. \A x \in Range(free_list[d]) : x \notin Out
      BY DEF MemoryInv, FreeInv
    <3> QED BY <1>1, <2>3, <3>1, <3>2 DEF FreeIdx
  <2>9. out = (1 .. blocks_per_arena(d)) \ FreeIdx(p)
    BY <2>8
  <2> HIDE DEF out
  <2>10. FreeIdx(p) \subseteq 1 .. blocks_per_arena(d)
    BY <1>1 DEF FreeIdx
  <2>11. /\ IsFiniteSet(1 .. blocks_per_arena(d))
         /\ Cardinality(1 .. blocks_per_arena(d)) = blocks_per_arena(d)
    <3>1. Cardinality(1 .. blocks_per_arena(d)) =
            IF 1 > blocks_per_arena(d) THEN 0 ELSE blocks_per_arena(d) - 1 + 1
      BY <2>4, FS_Interval
    <3>2. IsFiniteSet(1 .. blocks_per_arena(d))
      BY <2>4, FS_Interval
    <3> QED BY <2>4, <3>1, <3>2
  <2>12. Cardinality((1 .. blocks_per_arena(d)) \ FreeIdx(p)) =
           Cardinality(1 .. blocks_per_arena(d)) - Cardinality((1 .. blocks_per_arena(d)) \cap FreeIdx(p))
    BY <2>11, FS_Difference
  <2>13. (1 .. blocks_per_arena(d)) \cap FreeIdx(p) = FreeIdx(p)
    BY <2>10
  <2>14. Cardinality(out) = blocks_per_arena(d) - arena[p].free_cnt
    BY <2>3, <2>9, <2>11, <2>12, <2>13
  <2>15. IsArena(p)
    BY <1>1 DEF IsArena
  <2>16. Cardinality({i \in DOMAIN free_list[d] : free_list[d][i].page = p}) = arena[p].free_cnt
    BY <1>1, <2>3, <2>15, CountHere
  <2> QED BY <2>5, <2>14, <2>16 DEF out
<1>2. ASSUME \A t \in Threads : pc[t] = Idle, NEW p \in Pages
      PROVE  used_map[p] <=>
               \E b \in heap : p \in b.page .. b.page + (IF b.pages = 0 THEN 0 ELSE b.pages - 1)
  <2>1. Out = heap /\ ~BeingFreed(p)
    BY <1>2, Constants DEF Out, Held, Freed, BeingFreed
  <2>2. ASSUME NEW b \in heap, p \in Cover(b) PROVE used_map[p]
    BY <2>1, <2>2 DEF MemoryInv, SoundInv, Sound
  <2>3. ASSUME used_map[p], IsArena(p) PROVE \E b \in heap : p \in Cover(b)
    <3>1. PICK d \in descs : d = arena[p].desc
      BY <2>3 DEF IsArena
    <3>2. \A t \in Threads : pc[t].desc # d
      BY <1>2, <3>1, Constants
    <3>3. arena[p].free_cnt \in Int /\ blocks_per_arena(d) \in Nat /\ blocks_per_arena(d) >= 1
      BY Constants DEF MemoryInv, MemoryType
    <3>4. arena[p].free_cnt < blocks_per_arena(d)
      BY <2>3, <3>1, <3>2, <3>3 DEF MemoryInv, FullInv
    <3>5. /\ \A i \in 1 .. blocks_per_arena(d) : arena_to_block(p, i) \in Range(free_list[d]) \cup Out
          /\ Cardinality(FreeIdx(p)) = arena[p].free_cnt
      BY <2>1, <2>3, <3>1 DEF MemoryInv, ArenaInv
    <3>6. FreeIdx(p) # 1 .. blocks_per_arena(d)
      <4>1. Cardinality(1 .. blocks_per_arena(d)) =
              IF 1 > blocks_per_arena(d) THEN 0 ELSE blocks_per_arena(d) - 1 + 1
        BY <3>3, FS_Interval
      <4> QED BY <3>3, <3>4, <3>5, <4>1
    <3>7. PICK i \in 1 .. blocks_per_arena(d) : arena_to_block(p, i) \notin Range(free_list[d])
      BY <3>1, <3>6 DEF FreeIdx
    <3>8. arena_to_block(p, i) \in heap
      BY <2>1, <3>5, <3>7
    <3>9. p \in Cover(arena_to_block(p, i))
      BY Constants DEF Cover, arena_to_block
    <3> QED BY <3>8, <3>9
  <2>4. used_map[p] => IsArena(p) \/ \E b \in heap : p \in Cover(b)
    BY <2>1 DEF MemoryInv, UsedInv
  <2>5. used_map[p] <=> \E b \in heap : p \in Cover(b)
    <3>1. used_map[p] \in BOOLEAN
      BY DEF MemoryInv, MemoryType
    <3> QED BY <2>2, <2>3, <2>4, <3>1
  <2> QED BY <2>5, Zenon DEF Cover
<1> QED BY <1>1, <1>2, Zenon DEF ArenasAccounted

-----------------------------------------------------------------------------
(* What a step of one thread leaves alone.                                 *)

OthersSame(t) == \A u \in Threads : u # t => pc'[u] = pc[u]

\* The blocks in the hands of the calls of the other threads.
Others(t) == UNION {Held(u) : u \in Threads \ {t}}

\* Who has the blocks that are out, before and after a step of t.
LEMMA OutParts ==
  ASSUME NEW t \in Threads
  PROVE  Out = heap \cup Held(t) \cup Others(t)
  BY DEF Out, Others

LEMMA OutStep ==
  ASSUME NEW t \in Threads, OthersSame(t)
  PROVE  /\ Out' = heap' \cup Held(t)' \cup Others(t)
         /\ \A u \in Threads : u # t => Held(u)' = Held(u) /\ Freed(u)' = Freed(u)
<1>1. \A u \in Threads : u # t => Held(u)' = Held(u) /\ Freed(u)' = Freed(u)
  BY DEF OthersSame, Held, Freed
<1>2. Out' = heap' \cup UNION {Held(u)' : u \in Threads}
  BY DEF Out
<1>3. UNION {Held(u)' : u \in Threads} = Held(t)' \cup Others(t)
  BY <1>1 DEF Others
<1> QED BY <1>1, <1>2, <1>3

LEMMA OwnParts ==
  ASSUME OwnInv, NEW t \in Threads
  PROVE  heap \cap Held(t) = {} /\ (heap \cup Held(t)) \cap Others(t) = {}
  BY DEF OwnInv, Others

LEMMA OwnStep ==
  ASSUME OwnInv, NEW t \in Threads, OthersSame(t), heap' \cap Held(t)' = {},
         (heap' \cup Held(t)') \cap Others(t) = {}
  PROVE  OwnInv'
<1>1. \A u \in Threads : u # t => Held(u)' = Held(u) /\ Held(u) \subseteq Others(t)
  BY OutStep DEF Others
<1>2. \A u \in Threads : Held(u)' \cap heap' = {}
  BY <1>1
<1>3. \A u, v \in Threads : u # v => Held(u)' \cap Held(v)' = {}
  BY <1>1 DEF OwnInv
<1> QED BY <1>2, <1>3 DEF OwnInv

\* A call that waits to put a block back knows its arena's descriptor.
DescsKept(t) ==
  \A u \in Threads : u # t /\ pc[u].op = "push" =>
    arena'[pc[u].block.page].desc = arena[pc[u].block.page].desc

LEMMA CallStep ==
  ASSUME CallInv, NEW t \in Threads, OthersSame(t), CallOk(t)', DescsKept(t)
  PROVE  CallInv'
<1> SUFFICES ASSUME NEW u \in Threads, u # t PROVE CallOk(u)'
  BY DEF CallInv
<1>1. pc'[u] = pc[u] /\ CallOk(u)
  BY DEF OthersSame, CallInv
<1>2. pc[u].op = "push" => arena'[pc[u].block.page].desc = arena[pc[u].block.page].desc
  BY DEF DescsKept
<1> QED BY <1>1, <1>2 DEF CallOk

\* The block that a call is about to put back lies in an arena.
LEMMA PushBlock ==
  ASSUME MemoryInv, NEW u \in Threads, pc[u].op = "push"
  PROVE  /\ pc[u].block \in Out /\ pc[u].block \in Block /\ Sound(pc[u].block)
         /\ pc[u].block.pages = 0 /\ pc[u].block.page \in Pages /\ used_map[pc[u].block.page]
         /\ pc[u].block.page \in Cover(pc[u].block)
         /\ arena[pc[u].block.page].desc = pc[u].desc /\ pc[u].desc \in descs
<1>1. pc[u].block \in Held(u)
  BY DEF Held
<1>2. pc[u].block \in Out
  BY <1>1 DEF Out
<1>3. /\ pc[u].block \in Block /\ pc[u].block.pages = 0
      /\ arena[pc[u].block.page].desc = pc[u].desc /\ pc[u].desc \in descs
  BY DEF MemoryInv, CallInv, CallOk
<1>4. Sound(pc[u].block)
  BY <1>2 DEF MemoryInv, SoundInv
<1>5. pc[u].block.page \in Pages
  BY <1>3 DEF Block
<1>6. pc[u].block.page \in Cover(pc[u].block)
  BY <1>3, <1>5, Constants DEF Cover
<1> QED BY <1>2, <1>3, <1>4, <1>5, <1>6 DEF Sound

\* Locks: nothing happens to them, one is taken, one is released.
LEMMA LocksKept ==
  ASSUME DescInv, NEW t \in Threads, OthersSame(t), lock' = lock, pc'[t].desc = pc[t].desc
  PROVE  DescInv'
  BY DEF DescInv, OthersSame

LEMMA LockTaken ==
  ASSUME DescInv, MemoryType, NEW t \in Threads, OthersSame(t), NEW d \in descs, lock[d] = Nobody,
         lock' = [lock EXCEPT ![d] = t], pc[t].desc = 0, pc'[t].desc = d
  PROVE  DescInv' /\ lock' \in [descs -> Threads \cup {Nobody}]
<1>1. /\ lock \in [descs -> Threads \cup {Nobody}] /\ Nobody \notin Threads /\ 0 \notin descs
      /\ \A e \in descs, u \in Threads : lock[e] = u <=> pc[u].desc = e
  BY Constants DEF MemoryType, DescInv
<1>2. \A e \in descs, u \in Threads : lock'[e] = u <=> pc'[u].desc = e
  BY <1>1 DEF OthersSame
<1> QED BY <1>1, <1>2 DEF DescInv

LEMMA LockReleased ==
  ASSUME DescInv, MemoryType, NEW t \in Threads, OthersSame(t), NEW d \in descs, pc[t].desc = d,
         lock' = [lock EXCEPT ![d] = Nobody], pc'[t].desc = 0
  PROVE  DescInv' /\ lock' \in [descs -> Threads \cup {Nobody}]
<1>1. /\ lock \in [descs -> Threads \cup {Nobody}] /\ Nobody \notin Threads /\ 0 \notin descs
      /\ \A e \in descs, u \in Threads : lock[e] = u <=> pc[u].desc = e
  BY Constants DEF MemoryType, DescInv
<1>2. \A e \in descs, u \in Threads : lock'[e] = u <=> pc'[u].desc = e
  BY <1>1 DEF OthersSame
<1> QED BY <1>1, <1>2 DEF DescInv

\* Who is in the middle of giving pages back stays there.
FreedKept == \A u \in Threads : Freed(u)' = Freed(u) /\ (pc[u].op = "pages" => pc'[u] = pc[u])

\* A step that only moves a block between its caller and a call.
LEMMA Moved ==
  ASSUME MemoryInv, UNCHANGED <<used_map, arena, free_list>>, Out' = Out, FreedKept
  PROVE  SoundInv' /\ ApartInv' /\ FreeInv' /\ ArenaInv' /\ UsedInv'
<1>1. \A p : BeingFreed(p)' <=> BeingFreed(p)
  BY DEF BeingFreed, FreedKept
<1>2. \A p : (IsArena(p)' <=> IsArena(p)) /\ FreeIdx(p)' = FreeIdx(p)
  BY DEF IsArena, FreeIdx
<1>3. \A b : Sound(b)' <=> Sound(b)
  BY DEF Sound, IsArena
<1>4. SoundInv'
  BY <1>3 DEF MemoryInv, SoundInv
<1>5. ApartInv'
  <2>1. \A u \in Threads : \A p \in Freed(u) : pc'[u].desc = pc[u].desc
    BY DEF FreedKept, Freed
  <2> QED BY <2>1 DEF MemoryInv, ApartInv, FreedKept
<1>6. FreeInv'
  BY <1>1 DEF MemoryInv, FreeInv
<1>7. ArenaInv'
  BY <1>1, <1>2 DEF MemoryInv, ArenaInv
<1>8. UsedInv'
  BY <1>1, <1>2 DEF MemoryInv, UsedInv
<1> QED BY <1>4, <1>5, <1>6, <1>7, <1>8

\* The witnesses of FullInv stay where they are.
LEMMA FullKept ==
  ASSUME MemoryInv, NEW t \in Threads, OthersSame(t), UNCHANGED <<arena, free_list>>, pc[t].desc = 0
  PROVE  FullInv'
<1> SUFFICES ASSUME NEW p \in Pages, IsArena(p), arena[p].free_cnt >= blocks_per_arena(arena[p].desc)
             PROVE  \E u \in Threads :
                      /\ pc'[u].desc = arena[p].desc
                      /\ \/ pc'[u].op = "malloc" /\ \A x \in Range(free_list[arena[p].desc]) : x.page = p
                         \/ pc'[u].op = "pages" /\ pc'[u].block.page = p
  BY DEF FullInv, IsArena
<1>1. PICK u \in Threads :
        /\ pc[u].desc = arena[p].desc
        /\ \/ pc[u].op = "malloc" /\ \A x \in Range(free_list[arena[p].desc]) : x.page = p
           \/ pc[u].op = "pages" /\ pc[u].block.page = p
  BY DEF MemoryInv, FullInv
<1>2. u # t
  BY <1>1, Constants DEF IsArena
<1>3. pc'[u] = pc[u]
  BY <1>2 DEF OthersSame
<1> QED BY <1>1, <1>3

-----------------------------------------------------------------------------
(* The invariant holds at first.                                           *)

LEMMA MemoryInitial == malloc_init => MemoryInv
<1> SUFFICES ASSUME malloc_init PROVE MemoryInv
  OBVIOUS
<1>1. /\ used_map = [p \in Pages |-> FALSE]
      /\ arena = [p \in Pages |-> NoArena]
      /\ free_list = [d \in descs |-> <<>>]
      /\ lock = [d \in descs |-> Nobody]
      /\ pc = [t \in Threads |-> Idle]
      /\ heap = {}
  BY DEF malloc_init
<1>2. /\ NoArena \in [desc : descs \cup {0}, free_cnt : Int] /\ NoArena.desc = 0
      /\ Idle \in [op : Ops, desc : descs \cup {0}, block : Block \cup {NoBlock},
                   old : Block \cup {NoBlock}]
  BY DEF NoArena, Idle, Ops
<1>3. MemoryType
  <2>1. <<>> \in Seq(Block)
    OBVIOUS
  <2> QED BY <1>1, <1>2, <2>1 DEF MemoryType
<1>4. \A t \in Threads : Held(t) = {} /\ Freed(t) = {}
  BY <1>1, Constants DEF Held, Freed
<1>5. Out = {} /\ \A p : ~BeingFreed(p)
  BY <1>1, <1>4 DEF Out, BeingFreed
<1>6. \A p \in Pages : ~IsArena(p)
  BY <1>1, <1>2, Constants DEF IsArena
<1>7. CallInv /\ DescInv /\ OwnInv
  BY <1>1, <1>4, Constants DEF CallInv, CallOk, DescInv, OwnInv
<1>8. SoundInv /\ ApartInv /\ ArenaInv /\ FullInv
  BY <1>4, <1>5, <1>6 DEF SoundInv, ApartInv, ArenaInv, FullInv
<1>9. FreeInv
  BY <1>1 DEF FreeInv, Once, Range
<1>10. UsedInv
  BY <1>1 DEF UsedInv
<1> QED BY <1>3, <1>7, <1>8, <1>9, <1>10 DEF MemoryInv

-----------------------------------------------------------------------------
(* Steps that move a block between its caller and a call.                  *)

\* The records of pc that the actions build.
LEMMA CallRecords ==
  ASSUME NEW d, NEW b, NEW o
  PROVE  /\ [Idle EXCEPT !.op = "malloc", !.desc = d, !.old = o] =
              [op |-> "malloc", desc |-> d, block |-> NoBlock, old |-> o]
         /\ [Idle EXCEPT !.op = "free", !.block = b] =
              [op |-> "free", desc |-> 0, block |-> b, old |-> NoBlock]
<1>1. [Idle EXCEPT !.op = "malloc", !.desc = d, !.old = o] =
        [op |-> "malloc", desc |-> d, block |-> NoBlock, old |-> o]
  <2>1. PICK r : r = [Idle EXCEPT !.op = "malloc", !.desc = d, !.old = o]
    OBVIOUS
  <2>2. r \in [op : {"malloc"}, desc : {d}, block : {NoBlock}, old : {o}]
    BY <2>1 DEF Idle
  <2>3. r = [op |-> "malloc", desc |-> d, block |-> NoBlock, old |-> o]
    BY <2>2
  <2> QED BY <2>1, <2>3
<1>2. [Idle EXCEPT !.op = "free", !.block = b] =
        [op |-> "free", desc |-> 0, block |-> b, old |-> NoBlock]
  <2>1. PICK r : r = [Idle EXCEPT !.op = "free", !.block = b]
    OBVIOUS
  <2>2. r \in [op : {"free"}, desc : {0}, block : {b}, old : {NoBlock}]
    BY <2>1 DEF Idle
  <2>3. r = [op |-> "free", desc |-> 0, block |-> b, old |-> NoBlock]
    BY <2>2
  <2> QED BY <2>1, <2>3
<1> QED BY <1>1, <1>2

\* The descriptor for a size is one of the descriptors.
LEMMA DescOf ==
  ASSUME NEW size \in Sizes, ~big(size)
  PROVE  desc_of(size) \in descs
<1>1. size \in Nat /\ descs \subseteq Nat
  BY MemoryAssumption, Constants
<1>2. PICK e \in descs : ~(e < size)
  BY DEF big
<1>3. {d \in descs : d >= size} # {} /\ {d \in descs : d >= size} \in SUBSET Nat
  <2>1. e \in {d \in descs : d >= size}
    BY <1>1, <1>2
  <2> QED BY <1>1, <2>1
<1>4. Min({d \in descs : d >= size}) \in {d \in descs : d >= size}
  BY <1>3, MinFacts
<1> QED BY <1>4 DEF desc_of

LEMMA MallocStep ==
  ASSUME MemoryInv, NEW t \in Threads, NEW size \in Sizes, NEW old \in heap \cup {NoBlock},
         malloc(t, size, old)
  PROVE  MemoryInv'
<1>1. PICK d \in descs : d = desc_of(size)
  BY DescOf DEF malloc
<1>2. MemoryType /\ OwnInv /\ DescInv /\ CallInv
  BY DEF MemoryInv
<1>3. /\ pc[t] = Idle /\ lock[d] = Nobody
      /\ lock' = [lock EXCEPT ![d] = t]
      /\ pc' = [pc EXCEPT ![t] = [op |-> "malloc", desc |-> d, block |-> NoBlock, old |-> old]]
      /\ heap' = heap \ {old}
      /\ UNCHANGED <<used_map, arena, free_list>>
  BY <1>1, CallRecords DEF malloc
<1>4. pc \in [Threads -> [op : Ops, desc : descs \cup {0},
                          block : Block \cup {NoBlock}, old : Block \cup {NoBlock}]]
      /\ heap \subseteq Block
  BY <1>2 DEF MemoryType
<1>5. /\ OthersSame(t)
      /\ pc'[t] = [op |-> "malloc", desc |-> d, block |-> NoBlock, old |-> old]
  BY <1>3, <1>4 DEF OthersSame
<1>6. pc[t].op = "idle" /\ pc[t].desc = 0
  BY <1>3, Constants
<1>7. /\ Held(t) = {} /\ Held(t)' = {old} \ {NoBlock} /\ Freed(t) = {} /\ Freed(t)' = {}
  BY <1>5, <1>6 DEF Held, Freed
<1>8. Out' = Out
  <2>1. Out = heap \cup Held(t) \cup Others(t) /\ Out' = heap' \cup Held(t)' \cup Others(t)
    BY <1>5, OutParts, OutStep
  <2>2. NoBlock \notin heap
    BY <1>4, Constants
  <2> QED BY <1>3, <1>7, <2>1, <2>2
<1>9. OwnInv'
  <2>1. heap \cap Held(t) = {} /\ (heap \cup Held(t)) \cap Others(t) = {}
    BY <1>2, OwnParts
  <2>2. heap' \cap Held(t)' = {} /\ (heap' \cup Held(t)') \cap Others(t) = {}
    BY <1>3, <1>7, <2>1
  <2> QED BY <1>2, <1>5, <2>2, OwnStep
<1>10. DescInv' /\ lock' \in [descs -> Threads \cup {Nobody}]
  <2>1. pc'[t].desc = d
    BY <1>5
  <2> QED BY <1>2, <1>3, <1>5, <1>6, <2>1, LockTaken
<1>11. MemoryType'
  <2>1. pc'[t] \in [op : Ops, desc : descs \cup {0}, block : Block \cup {NoBlock},
                    old : Block \cup {NoBlock}]
    BY <1>4, <1>5 DEF Ops
  <2>2. pc' \in [Threads -> [op : Ops, desc : descs \cup {0},
                          block : Block \cup {NoBlock}, old : Block \cup {NoBlock}]]
    BY <1>3, <1>4, <1>5, <2>1
  <2>3. heap' \in SUBSET Block
    BY <1>3, <1>4
  <2> QED BY <1>2, <1>3, <1>10, <2>2, <2>3 DEF MemoryType
<1>12. CallInv'
  <2>1. CallOk(t)'
    BY <1>5 DEF CallOk
  <2>2. DescsKept(t)
    BY <1>3 DEF DescsKept
  <2> QED BY <1>2, <1>5, <2>1, <2>2, CallStep
<1>13. FreedKept
  BY <1>5, <1>6, <1>7, OutStep DEF FreedKept, OthersSame
<1>14. SoundInv' /\ ApartInv' /\ FreeInv' /\ ArenaInv' /\ UsedInv'
  BY <1>3, <1>8, <1>13, Moved
<1>15. FullInv'
  BY <1>3, <1>5, <1>6, FullKept
<1> QED BY <1>9, <1>10, <1>11, <1>12, <1>14, <1>15 DEF MemoryInv

LEMMA FreeStep ==
  ASSUME MemoryInv, NEW t \in Threads, NEW b \in heap, free(t, b)
  PROVE  MemoryInv'
<1>1. MemoryType /\ OwnInv /\ DescInv /\ CallInv
  BY DEF MemoryInv
<1>2. /\ pc[t] = Idle
      /\ pc' = [pc EXCEPT ![t] = [op |-> "free", desc |-> 0, block |-> b, old |-> NoBlock]]
      /\ heap' = heap \ {b}
      /\ UNCHANGED <<used_map, arena, free_list, lock>>
  BY CallRecords DEF free
<1>3. pc \in [Threads -> [op : Ops, desc : descs \cup {0},
                          block : Block \cup {NoBlock}, old : Block \cup {NoBlock}]]
      /\ heap \subseteq Block
  BY <1>1 DEF MemoryType
<1>4. /\ OthersSame(t)
      /\ pc'[t] = [op |-> "free", desc |-> 0, block |-> b, old |-> NoBlock]
  BY <1>2, <1>3 DEF OthersSame
<1>5. pc[t].op = "idle" /\ pc[t].desc = 0
  BY <1>2, Constants
<1>6. /\ Held(t) = {} /\ Held(t)' = {b} /\ Freed(t) = {} /\ Freed(t)' = {}
  BY <1>4, <1>5 DEF Held, Freed
<1>7. Out' = Out
  <2>1. Out = heap \cup Held(t) \cup Others(t) /\ Out' = heap' \cup Held(t)' \cup Others(t)
    BY <1>4, OutParts, OutStep
  <2> QED BY <1>2, <1>6, <2>1
<1>8. OwnInv'
  <2>1. heap \cap Held(t) = {} /\ (heap \cup Held(t)) \cap Others(t) = {}
    BY <1>1, OwnParts
  <2>2. heap' \cap Held(t)' = {} /\ (heap' \cup Held(t)') \cap Others(t) = {}
    BY <1>2, <1>6, <2>1
  <2> QED BY <1>1, <1>4, <2>2, OwnStep
<1>9. DescInv'
  BY <1>1, <1>2, <1>4, <1>5, LocksKept
<1>10. MemoryType'
  <2>1. pc'[t] \in [op : Ops, desc : descs \cup {0}, block : Block \cup {NoBlock},
                    old : Block \cup {NoBlock}]
    BY <1>3, <1>4 DEF Ops
  <2>2. pc' \in [Threads -> [op : Ops, desc : descs \cup {0},
                          block : Block \cup {NoBlock}, old : Block \cup {NoBlock}]]
    BY <1>2, <1>3, <1>4, <2>1
  <2>3. heap' \in SUBSET Block
    BY <1>2, <1>3
  <2> QED BY <1>1, <1>2, <2>2, <2>3 DEF MemoryType
<1>11. CallInv'
  <2>1. CallOk(t)'
    BY <1>3, <1>4 DEF CallOk
  <2>2. DescsKept(t)
    BY <1>2 DEF DescsKept
  <2> QED BY <1>1, <1>4, <2>1, <2>2, CallStep
<1>12. FreedKept
  BY <1>4, <1>5, <1>6, OutStep DEF FreedKept, OthersSame
<1>13. SoundInv' /\ ApartInv' /\ FreeInv' /\ ArenaInv' /\ UsedInv'
  BY <1>2, <1>7, <1>12, Moved
<1>14. FullInv'
  BY <1>2, <1>4, <1>5, FullKept
<1> QED BY <1>8, <1>9, <1>10, <1>11, <1>13, <1>14 DEF MemoryInv

\* The free of a small block has its descriptor's lock.
LEMMA FreeBeginSmall ==
  ASSUME MemoryInv, NEW t \in Threads, free_begin(t), arena[pc[t].block.page].desc # 0
  PROVE  MemoryInv'
<1>1. MemoryType /\ OwnInv /\ DescInv /\ CallInv
  BY DEF MemoryInv
<1>2. PICK b \in Block : b = pc[t].block
  BY <1>1 DEF free_begin, CallInv, CallOk
<1>3. PICK d \in descs : d = arena[b.page].desc
  BY <1>1, <1>2 DEF MemoryType, Block
<1>4. pc \in [Threads -> [op : Ops, desc : descs \cup {0},
                          block : Block \cup {NoBlock}, old : Block \cup {NoBlock}]]
      /\ heap \subseteq Block
  BY <1>1 DEF MemoryType
<1>5. /\ pc[t].op = "free" /\ pc[t].desc = 0 /\ lock[d] = Nobody
      /\ lock' = [lock EXCEPT ![d] = t]
      /\ pc' = [pc EXCEPT ![t] = [pc[t] EXCEPT !.op = "push", !.desc = d]]
      /\ UNCHANGED <<used_map, arena, free_list, heap>>
  BY <1>1, <1>2, <1>3 DEF free_begin, CallInv, CallOk
<1>6. /\ OthersSame(t)
      /\ pc'[t].op = "push" /\ pc'[t].desc = d /\ pc'[t].block = b
      /\ pc'[t] \in [op : Ops, desc : descs \cup {0}, block : Block \cup {NoBlock},
                     old : Block \cup {NoBlock}]
  BY <1>2, <1>4, <1>5 DEF OthersSame, Ops
<1>7. /\ Held(t) = {b} /\ Held(t)' = {b} /\ Freed(t) = {} /\ Freed(t)' = {}
  BY <1>2, <1>5, <1>6 DEF Held, Freed
<1>8. Out = heap \cup Held(t) \cup Others(t) /\ Out' = heap' \cup Held(t)' \cup Others(t)
  BY <1>6, OutParts, OutStep
<1>9. Out' = Out
  BY <1>5, <1>7, <1>8
<1>10. OwnInv'
  <2>1. heap \cap Held(t) = {} /\ (heap \cup Held(t)) \cap Others(t) = {}
    BY <1>1, OwnParts
  <2>2. heap' \cap Held(t)' = {} /\ (heap' \cup Held(t)') \cap Others(t) = {}
    BY <1>5, <1>7, <2>1
  <2> QED BY <1>1, <1>6, <2>2, OwnStep
<1>11. DescInv' /\ lock' \in [descs -> Threads \cup {Nobody}]
  BY <1>1, <1>5, <1>6, LockTaken
<1>12. MemoryType'
  <2>1. pc' \in [Threads -> [op : Ops, desc : descs \cup {0},
                          block : Block \cup {NoBlock}, old : Block \cup {NoBlock}]]
    BY <1>4, <1>5, <1>6
  <2> QED BY <1>1, <1>5, <1>11, <2>1 DEF MemoryType
<1>13. CallInv'
  <2>1. Sound(b) /\ 0 \notin descs
    BY <1>7, <1>8, Constants DEF MemoryInv, SoundInv
  <2>2. b.pages = 0 /\ arena[b.page].desc = d
    BY <1>3, <2>1, Constants DEF Sound
  <2>3. CallOk(t)'
    BY <1>2, <1>5, <1>6, <2>2 DEF CallOk
  <2>4. DescsKept(t)
    BY <1>5 DEF DescsKept
  <2> QED BY <1>1, <1>6, <2>3, <2>4, CallStep
<1>14. FreedKept
  BY <1>5, <1>6, <1>7, OutStep DEF FreedKept, OthersSame
<1>15. SoundInv' /\ ApartInv' /\ FreeInv' /\ ArenaInv' /\ UsedInv'
  BY <1>5, <1>9, <1>14, Moved
<1>16. FullInv'
  BY <1>5, <1>6, FullKept
<1> QED BY <1>10, <1>11, <1>12, <1>13, <1>15, <1>16 DEF MemoryInv

\* While the list of a descriptor is empty no arena of it is full.
LEMMA EmptyNotFull ==
  ASSUME MemoryInv, NEW t \in Threads, pc[t].op = "malloc", free_list[pc[t].desc] = <<>>,
         NEW p \in Pages, IsArena(p), arena[p].desc = pc[t].desc
  PROVE  FreeIdx(p) = {} /\ ~BeingFreed(p) /\ arena[p].free_cnt < blocks_per_arena(arena[p].desc)
<1>1. pc[t].desc \in descs
  BY DEF IsArena
<1>2. \A v \in Threads : pc[v].desc = pc[t].desc => v = t
  BY <1>1 DEF MemoryInv, DescInv
<1>3. ~BeingFreed(p)
  BY <1>2 DEF MemoryInv, ApartInv, BeingFreed, Freed
<1>4. Cardinality(FreeIdx(p)) = arena[p].free_cnt
  BY <1>3 DEF MemoryInv, ArenaInv
<1>5. FreeIdx(p) = {}
  BY DEF FreeIdx, Range
<1>6. Cardinality(FreeIdx(p)) = 0
  BY <1>5, FS_EmptySet
<1>7. blocks_per_arena(pc[t].desc) \in Nat /\ blocks_per_arena(pc[t].desc) >= 1
  BY <1>1, Constants
<1> QED BY <1>3, <1>4, <1>5, <1>6, <1>7

\* malloc finds no page for an arena: the caller of realloc has its block again.
LEMMA NoArenaStep ==
  ASSUME MemoryInv, NEW t \in Threads, malloc_arena(t), NoPages(1)
  PROVE  MemoryInv'
<1>1. MemoryType /\ OwnInv /\ DescInv /\ CallInv
  BY DEF MemoryInv
<1>2. PICK d \in descs : d = pc[t].desc
  BY <1>1 DEF malloc_arena, CallInv, CallOk
<1>3. pc \in [Threads -> [op : Ops, desc : descs \cup {0},
                          block : Block \cup {NoBlock}, old : Block \cup {NoBlock}]]
      /\ heap \subseteq Block
  BY <1>1 DEF MemoryType
<1>4. /\ pc[t].op = "malloc" /\ free_list[d] = <<>>
      /\ lock' = [lock EXCEPT ![d] = Nobody]
      /\ pc' = [pc EXCEPT ![t] = Idle]
      /\ heap' = heap \cup kept(pc[t].old)
      /\ UNCHANGED <<used_map, arena, free_list>>
  BY <1>2 DEF malloc_arena
<1>5. OthersSame(t) /\ pc'[t] = Idle
  BY <1>3, <1>4 DEF OthersSame
<1>6. pc'[t].op = "idle" /\ pc'[t].desc = 0
  BY <1>5, Constants
<1>7. /\ Held(t) = kept(pc[t].old) /\ Held(t)' = {} /\ Freed(t) = {} /\ Freed(t)' = {}
  BY <1>4, <1>6 DEF Held, Freed, kept
<1>8. Out = heap \cup Held(t) \cup Others(t) /\ Out' = heap' \cup Held(t)' \cup Others(t)
  BY <1>5, OutParts, OutStep
<1>9. Out' = Out
  BY <1>4, <1>7, <1>8
<1>10. OwnInv'
  <2>1. heap \cap Held(t) = {} /\ (heap \cup Held(t)) \cap Others(t) = {}
    BY <1>1, OwnParts
  <2>2. heap' \cap Held(t)' = {} /\ (heap' \cup Held(t)') \cap Others(t) = {}
    BY <1>4, <1>7, <2>1
  <2> QED BY <1>1, <1>5, <2>2, OwnStep
<1>11. DescInv' /\ lock' \in [descs -> Threads \cup {Nobody}]
  BY <1>1, <1>2, <1>4, <1>5, <1>6, LockReleased
<1>12. MemoryType'
  <2>1. Idle \in [op : Ops, desc : descs \cup {0}, block : Block \cup {NoBlock},
                  old : Block \cup {NoBlock}]
    BY DEF Idle, Ops
  <2>2. pc' \in [Threads -> [op : Ops, desc : descs \cup {0},
                          block : Block \cup {NoBlock}, old : Block \cup {NoBlock}]]
    BY <1>3, <1>4, <2>1
  <2>3. pc[t].old \in Block \cup {NoBlock}
    BY <1>3
  <2>4. heap' \in SUBSET Block
    BY <1>3, <1>4, <2>3 DEF kept
  <2> QED BY <1>1, <1>4, <1>11, <2>2, <2>4 DEF MemoryType
<1>13. CallInv'
  <2>1. CallOk(t)'
    BY <1>5, <1>6 DEF CallOk
  <2>2. DescsKept(t)
    BY <1>4 DEF DescsKept
  <2> QED BY <1>1, <1>5, <2>1, <2>2, CallStep
<1>14. FreedKept
  BY <1>4, <1>5, <1>7, OutStep DEF FreedKept, OthersSame
<1>15. SoundInv' /\ ApartInv' /\ FreeInv' /\ ArenaInv' /\ UsedInv'
  BY <1>4, <1>9, <1>14, Moved
\* The descriptor's list is empty, so none of its arenas is full.
<1>16. FullInv'
  <2> SUFFICES ASSUME NEW p \in Pages, IsArena(p), arena[p].free_cnt >= blocks_per_arena(arena[p].desc)
               PROVE  \E u \in Threads :
                      /\ pc'[u].desc = arena[p].desc
                      /\ \/ pc'[u].op = "malloc" /\ \A x \in Range(free_list[arena[p].desc]) : x.page = p
                         \/ pc'[u].op = "pages" /\ pc'[u].block.page = p
    BY <1>4 DEF FullInv, IsArena
  <2>1. PICK u \in Threads :
          /\ pc[u].desc = arena[p].desc
          /\ \/ pc[u].op = "malloc" /\ \A x \in Range(free_list[arena[p].desc]) : x.page = p
             \/ pc[u].op = "pages" /\ pc[u].block.page = p
    BY DEF MemoryInv, FullInv
  <2>2. ASSUME u = t PROVE FALSE
    <3>1. arena[p].desc = pc[t].desc
      BY <2>1, <2>2
    <3>2. arena[p].free_cnt < blocks_per_arena(arena[p].desc)
      BY <1>2, <1>4, <3>1, EmptyNotFull
    <3>3. arena[p].free_cnt \in Int /\ blocks_per_arena(d) \in Nat
      BY <1>1, Constants DEF MemoryType
    <3> QED BY <1>2, <3>1, <3>2, <3>3
  <2>3. pc'[u] = pc[u]
    BY <1>5, <2>2 DEF OthersSame
  <2> QED BY <2>1, <2>3
<1> QED BY <1>10, <1>11, <1>12, <1>13, <1>15, <1>16 DEF MemoryInv

-----------------------------------------------------------------------------
(* Steps that take pages from the pool.                                    *)

\* Blocks and the pages that they lie in.
LEMMA BlockFacts ==
  ASSUME MemoryInv
  PROVE  /\ Out \subseteq Block
         /\ \A b \in Block : b.page \in Pages /\ b.page \in Cover(b)
         /\ \A b \in Block : b.pages = 0 =>
              Cover(b) = {b.page} /\ b = arena_to_block(b.page, b.idx)
         /\ \A p, i : /\ arena_to_block(p, i).page = p /\ arena_to_block(p, i).idx = i
                      /\ arena_to_block(p, i).pages = 0
<1>1. Out \subseteq Block
  <2>1. \A t \in Threads : Held(t) \subseteq Block
    BY DEF MemoryInv, MemoryType, CallInv, CallOk, Held
  <2>2. heap \subseteq Block
    BY DEF MemoryInv, MemoryType
  <2> QED BY <2>1, <2>2 DEF Out
<1>2. \A b \in Block : b.page \in Pages /\ b.page \in Cover(b)
  BY Constants DEF Block, Cover
<1>3. \A b \in Block : b.pages = 0 => Cover(b) = {b.page}
  BY Constants DEF Block, Cover
<1>4. \A b \in Block : b.pages = 0 => b = arena_to_block(b.page, b.idx)
  BY DEF Block, arena_to_block
<1>5. \A p, i : /\ arena_to_block(p, i).page = p /\ arena_to_block(p, i).idx = i
                /\ arena_to_block(p, i).pages = 0
  BY DEF arena_to_block
<1> QED BY <1>1, <1>2, <1>3, <1>4, <1>5

\* A free list holds blocks.
LEMMA ListFacts ==
  ASSUME MemoryInv, NEW d \in descs
  PROVE  /\ free_list[d] \in Seq(Block) /\ Once(free_list[d])
         /\ \A x \in Range(free_list[d]) : x \in Block /\ x.page \in Pages
<1>1. free_list[d] \in Seq(Block) /\ Once(free_list[d])
  BY DEF MemoryInv, MemoryType, FreeInv
<1>2. \A i \in DOMAIN free_list[d] : free_list[d][i] \in Block
  BY <1>1
<1>3. \A b \in Block : b.page \in Pages
  BY DEF Block
<1> QED BY <1>1, <1>2, <1>3 DEF Range

\* A page that the pool has is nobody's.
LEMMA UnusedFacts ==
  ASSUME MemoryInv, NEW p \in Pages, ~used_map[p]
  PROVE  /\ arena[p] = NoArena /\ arena[p].desc = 0 /\ ~IsArena(p)
         /\ ~BeingFreed(p) /\ \A u \in Threads : p \notin Freed(u)
         /\ \A b \in Out : p \notin Cover(b)
         /\ \A d \in descs : \A x \in Range(free_list[d]) : x.page # p
<1>1. arena[p] = NoArena
  BY DEF MemoryInv, UsedInv
<1>2. arena[p].desc = 0 /\ ~IsArena(p)
  BY <1>1, Constants DEF NoArena, IsArena
<1>3. \A u \in Threads : p \notin Freed(u)
  BY DEF MemoryInv, ApartInv
<1>4. \A b \in Out : p \notin Cover(b)
  BY DEF MemoryInv, SoundInv, Sound
<1>5. \A d \in descs : \A x \in Range(free_list[d]) : x.page # p
  BY <1>2, Constants DEF MemoryInv, FreeInv
<1> QED BY <1>1, <1>2, <1>3, <1>4, <1>5 DEF BeingFreed

LEMMA PageCnt ==
  ASSUME NEW size \in Sizes
  PROVE  page_cnt(size) \in Nat /\ page_cnt(size) >= 1
<1>1. size \in Nat /\ PGSIZE \in Nat /\ PGSIZE >= 48
  BY MemoryAssumption
<1>2. PICK a \in Nat : a = size + ArenaSize + PGSIZE - 1 /\ a >= PGSIZE
  BY <1>1 DEF ArenaSize
<1>3. a \div PGSIZE \in Int /\ a \div PGSIZE >= 1
  BY <1>1, <1>2
<1> QED BY <1>2, <1>3 DEF page_cnt

\* What malloc does after it has the block: the record of the call.
LEMMA AfterFacts ==
  ASSUME MemoryInv, NEW t \in Threads, NEW old \in Block \cup {NoBlock}, pc' = after(t, old)
  PROVE  /\ OthersSame(t)
         /\ Held(t)' = {old} \ {NoBlock} /\ Freed(t)' = {}
         /\ pc'[t].desc = 0
         /\ CallOk(t)'
         /\ pc' \in [Threads -> [op : Ops, desc : descs \cup {0},
                          block : Block \cup {NoBlock}, old : Block \cup {NoBlock}]]
<1>1. pc \in [Threads -> [op : Ops, desc : descs \cup {0},
                          block : Block \cup {NoBlock}, old : Block \cup {NoBlock}]]
  BY DEF MemoryInv, MemoryType
<1>2. pc' = [pc EXCEPT ![t] = IF old = NoBlock THEN Idle
                              ELSE [op |-> "free", desc |-> 0, block |-> old, old |-> NoBlock]]
  BY CallRecords DEF after
<1>3. Idle \in [op : Ops, desc : descs \cup {0}, block : Block \cup {NoBlock},
                old : Block \cup {NoBlock}]
  BY DEF Idle, Ops
<1>4. OthersSame(t) /\ pc'[t] = IF old = NoBlock THEN Idle
             ELSE [op |-> "free", desc |-> 0, block |-> old, old |-> NoBlock]
  BY <1>1, <1>2 DEF OthersSame
<1>5. CASE old = NoBlock
  <2>1. pc'[t] = Idle /\ pc'[t].op = "idle" /\ pc'[t].desc = 0
    BY <1>4, <1>5, Constants
  <2>2. Held(t)' = {old} \ {NoBlock} /\ Freed(t)' = {} /\ CallOk(t)'
    BY <1>5, <2>1 DEF Held, Freed, CallOk
  <2> QED BY <1>1, <1>2, <1>3, <1>4, <1>5, <2>1, <2>2
<1>6. CASE old # NoBlock
  <2>1. pc'[t] = [op |-> "free", desc |-> 0, block |-> old, old |-> NoBlock] /\ old \in Block
    BY <1>4, <1>6
  <2>2. Held(t)' = {old} \ {NoBlock} /\ Freed(t)' = {} /\ CallOk(t)' /\ pc'[t].desc = 0
    BY <1>6, <2>1 DEF Held, Freed, CallOk
  <2>3. pc'[t] \in [op : Ops, desc : descs \cup {0}, block : Block \cup {NoBlock},
                    old : Block \cup {NoBlock}]
    BY <2>1 DEF Ops
  <2> QED BY <1>1, <1>2, <1>4, <2>1, <2>2, <2>3
<1> QED BY <1>5, <1>6

LEMMA MallocBigStep ==
  ASSUME MemoryInv, NEW t \in Threads, NEW size \in Sizes, NEW old \in heap \cup {NoBlock},
         malloc_big(t, size, old), ~NoPages(page_cnt(size))
  PROVE  MemoryInv'
<1>1. MemoryType /\ OwnInv /\ DescInv /\ CallInv
  BY DEF MemoryInv
<1>2. PICK cnt \in Nat : cnt = page_cnt(size) /\ cnt >= 1
  BY PageCnt
<1>3. PICK first \in Pages : /\ first = bitmap_scan(used_map, cnt, FALSE)
                             /\ \A k \in first .. first + cnt - 1 : k \in Pages /\ ~used_map[k]
  BY <1>1, <1>2, ScanFacts
<1> DEFINE n == [page |-> first, idx |-> 0, pages |-> cnt]
           New == first .. first + cnt - 1
<1>4. /\ n \in Block /\ n.page = first /\ n.pages = cnt /\ Cover(n) = New /\ n # NoBlock
      /\ first \in New /\ New \subseteq Pages
  <2>1. n.page = first /\ n.pages = cnt /\ first \in Nat
    BY <1>3, Constants
  <2>2. n \in Block
    BY <1>3 DEF Block
  <2>3. Cover(n) = New
    <3> HIDE DEF n
    <3> QED BY <1>2, <2>1 DEF Cover
  <2>4. first \in New
    BY <1>2, <2>1
  <2>5. New \subseteq Pages
    BY <1>3
  <2> QED BY <2>1, <2>2, <2>3, <2>4, <2>5, Constants
<1>5. \A k \in New : k \in Pages /\ ~used_map[k]
  BY <1>3
<1>6. /\ pc[t] = Idle
      /\ used_map' = bitmap_set_multiple(used_map, first, cnt, TRUE)
      /\ arena' = [arena EXCEPT ![first] = [desc |-> 0, free_cnt |-> cnt]]
      /\ heap' = (heap \ {old}) \cup {n}
      /\ pc' = after(t, old)
      /\ UNCHANGED <<free_list, lock>>
  BY <1>2, <1>3 DEF malloc_big, palloc_get_multiple
<1>7. /\ used_map \in [Pages -> BOOLEAN] /\ heap \subseteq Block
      /\ arena \in [Pages -> [desc : descs \cup {0}, free_cnt : Int]]
  BY <1>1 DEF MemoryType
<1>8. used_map' = [i \in Pages |-> IF i \in New THEN TRUE ELSE used_map[i]]
  BY <1>6, <1>7 DEF bitmap_set_multiple
<1> HIDE DEF New
<1>9. /\ used_map' \in [Pages -> BOOLEAN]
      /\ \A p \in Pages : p \in New => used_map'[p]
      /\ \A p \in Pages : p \notin New => (used_map'[p] <=> used_map[p])
  BY <1>7, <1>8, Zenon
<1>10. /\ arena' \in [Pages -> [desc : descs \cup {0}, free_cnt : Int]]
       /\ arena'[first] = [desc |-> 0, free_cnt |-> cnt]
       /\ \A p \in Pages : p # first => arena'[p] = arena[p]
       /\ \A p \in Pages : arena'[p].desc = arena[p].desc
  <2>1. arena[first].desc = 0
    BY <1>4, <1>5, UnusedFacts
  <2> QED BY <1>2, <1>6, <1>7, <2>1
<1>11. /\ OthersSame(t) /\ Held(t)' = {old} \ {NoBlock} /\ Freed(t)' = {} /\ pc'[t].desc = 0
       /\ CallOk(t)'
       /\ pc' \in [Threads -> [op : Ops, desc : descs \cup {0},
                          block : Block \cup {NoBlock}, old : Block \cup {NoBlock}]]
  <2>1. old \in Block \cup {NoBlock}
    BY <1>7
  <2> QED BY <1>6, <2>1, AfterFacts
<1>12. pc[t].op = "idle" /\ pc[t].desc = 0 /\ Held(t) = {} /\ Freed(t) = {}
  BY <1>6, Constants DEF Held, Freed
<1>13. /\ \A u \in Threads : Freed(u)' = Freed(u)
       /\ \A u \in Threads : \A p \in Freed(u) : pc'[u].desc = pc[u].desc
  BY <1>11, <1>12, OutStep DEF OthersSame
<1>14. \A k \in New : /\ k \in Pages /\ arena[k].desc = 0 /\ ~BeingFreed(k)
                      /\ \A u \in Threads : k \notin Freed(u)
                      /\ \A b \in Out : k \notin Cover(b)
                      /\ \A d \in descs : \A x \in Range(free_list[d]) : x.page # k
  BY <1>5, UnusedFacts
<1>15. n \notin Out
  BY <1>4, <1>14
<1>16. Out = heap \cup Held(t) \cup Others(t) /\ Out' = heap' \cup Held(t)' \cup Others(t)
  BY <1>11, OutParts, OutStep
<1> HIDE DEF n
<1>17. Out' = Out \cup {n}
  <2>1. NoBlock \notin heap
    BY <1>7, Constants
  <2> QED BY <1>6, <1>11, <1>12, <1>16, <2>1
<1>18. OwnInv'
  <2>1. heap \cap Held(t) = {} /\ (heap \cup Held(t)) \cap Others(t) = {}
    BY <1>1, OwnParts
  <2>2. heap' \cap Held(t)' = {} /\ (heap' \cup Held(t)') \cap Others(t) = {}
    BY <1>4, <1>6, <1>11, <1>15, <1>16, <2>1
  <2> QED BY <1>1, <1>11, <2>2, OwnStep
<1>19. MemoryType'
  <2>1. heap' \in SUBSET Block
    BY <1>4, <1>6, <1>7
  <2> QED BY <1>1, <1>6, <1>9, <1>10, <1>11, <2>1 DEF MemoryType
<1>20. CallInv' /\ DescInv'
  <2>1. DescsKept(t)
    BY <1>10, PushBlock DEF DescsKept
  <2>2. CallInv'
    BY <1>1, <1>11, <2>1, CallStep
  <2>3. DescInv'
    BY <1>1, <1>6, <1>11, <1>12, LocksKept
  <2> QED BY <2>2, <2>3
<1>21. \A p \in Pages : (BeingFreed(p)' <=> BeingFreed(p)) /\ (IsArena(p)' <=> IsArena(p))
  BY <1>10, <1>13 DEF BeingFreed, IsArena
<1>22. \A p \in Pages : FreeIdx(p)' = FreeIdx(p)
  BY <1>6, <1>10 DEF FreeIdx
<1>23. SoundInv'
  <2> SUFFICES ASSUME NEW b \in Out' PROVE Sound(b)'
    BY DEF SoundInv
  <2>1. CASE b \in Out
    <3>1. Sound(b) /\ b.page \in Pages /\ b.page \in Cover(b)
      BY <2>1, BlockFacts DEF MemoryInv, SoundInv
    <3>2. \A p \in Cover(b) : p \in Pages /\ p \notin New /\ used_map'[p] /\ arena'[p] = arena[p]
      BY <1>4, <1>9, <1>10, <1>14, <2>1, <3>1 DEF Sound
    <3> QED BY <3>1, <3>2 DEF Sound, IsArena
  <2>2. CASE b = n
    <3>1. b.pages # 0 /\ arena'[b.page] = [desc |-> 0, free_cnt |-> b.pages]
      BY <1>2, <1>4, <1>10, <2>2
    <3>2. \A p \in Cover(b) : p \in Pages /\ used_map'[p] /\ arena'[p].desc = 0
      BY <1>4, <1>9, <1>10, <1>14, <2>2
    <3> QED BY <3>1, <3>2 DEF Sound
  <2> QED BY <1>17, <2>1, <2>2
<1>24. ApartInv'
  <2>1. \A b, c \in Out' : b # c /\ b.pages # 0 => Cover(b) \cap Cover(c) = {}
    BY <1>4, <1>14, <1>17 DEF MemoryInv, ApartInv
  <2>2. \A u \in Threads, b \in Out' : Freed(u)' \cap Cover(b) = {}
    BY <1>4, <1>13, <1>14, <1>17 DEF MemoryInv, ApartInv
  <2>3. \A u, v \in Threads : u # v => Freed(u)' \cap Freed(v)' = {}
    BY <1>13 DEF MemoryInv, ApartInv
  <2>4. \A u \in Threads : \A p \in Freed(u) : p \in Pages /\ used_map'[p] /\ arena'[p].desc = pc'[u].desc
    BY <1>9, <1>10, <1>13 DEF MemoryInv, ApartInv
  <2> QED BY <1>13, <2>1, <2>2, <2>3, <2>4 DEF ApartInv, Cover
<1>25. FreeInv'
  <2> SUFFICES ASSUME NEW d \in descs
               PROVE  /\ Once(free_list[d])
                      /\ \A x \in Range(free_list[d]) :
                           /\ x.pages = 0 /\ arena'[x.page].desc = d /\ x.idx \in 1 .. blocks_per_arena(d)
                           /\ x \notin Out' /\ ~BeingFreed(x.page)'
    BY <1>6 DEF FreeInv
  <2>1. \A x \in Range(free_list[d]) : x \in Block /\ x.page \in Pages
    BY ListFacts
  <2>2. n \notin Range(free_list[d])
    BY <1>2, <1>4 DEF MemoryInv, FreeInv
  <2> QED BY <1>10, <1>17, <1>21, <2>1, <2>2 DEF MemoryInv, FreeInv
<1>26. ArenaInv'
  <2> SUFFICES ASSUME NEW p \in Pages, IsArena(p)
               PROVE  /\ used_map'[p]
                      /\ ~BeingFreed(p) =>
                           /\ \A i \in 1 .. blocks_per_arena(arena[p].desc) :
                                arena_to_block(p, i) \in Range(free_list[arena[p].desc]) \cup Out'
                           /\ Cardinality(FreeIdx(p)') = arena'[p].free_cnt
    BY <1>6, <1>10, <1>21 DEF ArenaInv
  <2>1. p \notin New
    BY <1>14, Constants DEF IsArena
  <2>2. p # first /\ used_map[p]
    BY <1>4, <2>1 DEF MemoryInv, ArenaInv
  <2> QED BY <1>9, <1>10, <1>17, <1>22, <2>1, <2>2 DEF MemoryInv, ArenaInv
<1>27. FullInv'
  <2> SUFFICES ASSUME NEW p \in Pages, IsArena(p), arena'[p].free_cnt >= blocks_per_arena(arena[p].desc)
               PROVE  \E u \in Threads :
                      /\ pc'[u].desc = arena[p].desc
                      /\ \/ pc'[u].op = "malloc" /\ \A x \in Range(free_list[arena[p].desc]) : x.page = p
                         \/ pc'[u].op = "pages" /\ pc'[u].block.page = p
    BY <1>6, <1>10, <1>21 DEF FullInv
  <2>1. p # first
    BY <1>4, <1>14, Constants DEF IsArena
  <2>2. PICK u \in Threads :
          /\ pc[u].desc = arena[p].desc
          /\ \/ pc[u].op = "malloc" /\ \A x \in Range(free_list[arena[p].desc]) : x.page = p
             \/ pc[u].op = "pages" /\ pc[u].block.page = p
    BY <1>10, <2>1 DEF MemoryInv, FullInv
  <2>3. pc'[u] = pc[u]
    BY <1>11, <1>12, <2>2 DEF OthersSame
  <2> QED BY <2>2, <2>3
<1>28. UsedInv'
  <2> SUFFICES ASSUME NEW p \in Pages
               PROVE  /\ used_map'[p] => IsArena(p) \/ BeingFreed(p) \/ \E b \in Out' : p \in Cover(b)
                      /\ ~used_map'[p] => arena'[p] = NoArena
    BY <1>21 DEF UsedInv, Cover
  <2>1. CASE p \in New
    BY <1>4, <1>9, <1>17, <2>1
  <2>2. CASE p \notin New
    BY <1>4, <1>9, <1>10, <1>17, <2>2 DEF MemoryInv, UsedInv
  <2> QED BY <2>1, <2>2
<1> QED BY <1>18, <1>19, <1>20, <1>23, <1>24, <1>25, <1>26, <1>27, <1>28 DEF MemoryInv

\* malloc makes an arena of a free page and lists its blocks.
LEMMA NewArenaStep ==
  ASSUME MemoryInv, NEW t \in Threads, malloc_arena(t), ~NoPages(1)
  PROVE  MemoryInv'
<1>1. MemoryType /\ OwnInv /\ DescInv /\ CallInv
  BY DEF MemoryInv
<1>2. PICK d \in descs : d = pc[t].desc
  BY <1>1 DEF malloc_arena, CallInv, CallOk
<1>3. PICK page \in Pages : page = bitmap_scan(used_map, 1, FALSE) /\ ~used_map[page]
  <2>1. PICK cnt \in Nat : cnt = 1 /\ cnt >= 1 /\ ~NoPages(cnt)
    OBVIOUS
  <2>2. /\ bitmap_scan(used_map, cnt, FALSE) \in Pages
        /\ \A k \in bitmap_scan(used_map, cnt, FALSE) .. bitmap_scan(used_map, cnt, FALSE) + cnt - 1 :
             k \in Pages /\ ~used_map[k]
    <3>1. cnt >= 1 /\ ~NoPages(cnt)
      BY <2>1
    <3> QED BY <1>1, <3>1, ScanFacts
  <2>3. PICK page \in Pages : page = bitmap_scan(used_map, cnt, FALSE)
    BY <2>2
  <2>4. page \in page .. page + cnt - 1
    BY <2>1, Constants
  <2> QED BY <2>1, <2>2, <2>3, <2>4
<1>4. /\ pc[t].op = "malloc" /\ free_list[d] = <<>>
      /\ used_map' = bitmap_set_multiple(used_map, page, 1, TRUE)
      /\ arena' = [arena EXCEPT ![page] = [desc |-> d, free_cnt |-> blocks_per_arena(d)]]
      /\ free_list' = [free_list EXCEPT ![d] = blocks(page, d)]
      /\ UNCHANGED <<lock, pc, heap>>
  BY <1>2, <1>3 DEF malloc_arena, palloc_get_multiple
<1>5. /\ used_map \in [Pages -> BOOLEAN] /\ free_list \in [descs -> Seq(Block)]
      /\ arena \in [Pages -> [desc : descs \cup {0}, free_cnt : Int]]
  BY <1>1 DEF MemoryType
<1>6. page \in Nat /\ blocks_per_arena(d) \in Nat /\ 0 \notin descs /\ descs \subseteq Nat
  BY Constants
<1>7. used_map' = [i \in Pages |-> IF i = page THEN TRUE ELSE used_map[i]]
  <2>1. used_map' = [i \in Pages |-> IF i \in page .. page + 1 - 1 THEN TRUE ELSE used_map[i]]
    BY <1>4, <1>5 DEF bitmap_set_multiple
  <2>2. page .. page + 1 - 1 = {page}
    BY <1>6
  <2> QED BY <2>1, <2>2, Zenon
<1>8. /\ used_map' \in [Pages -> BOOLEAN] /\ used_map'[page]
      /\ \A p \in Pages : p # page => (used_map'[p] <=> used_map[p])
  BY <1>5, <1>7, Zenon
<1>9. /\ arena' \in [Pages -> [desc : descs \cup {0}, free_cnt : Int]]
      /\ arena'[page].desc = d /\ arena'[page].free_cnt = blocks_per_arena(d)
      /\ \A p \in Pages : p # page => arena'[p] = arena[p]
  BY <1>4, <1>5, <1>6
<1>10. /\ blocks(page, d) \in Seq(Block) /\ Once(blocks(page, d))
       /\ \A x : x \in Range(blocks(page, d)) <=>
            \E i \in 1 .. blocks_per_arena(d) : x = arena_to_block(page, i)
  BY BlocksFacts
<1>11. /\ free_list' \in [descs -> Seq(Block)] /\ free_list'[d] = blocks(page, d)
       /\ \A e \in descs : e # d => free_list'[e] = free_list[e]
  BY <1>4, <1>5, <1>10
<1>12. /\ arena[page].desc = 0 /\ ~IsArena(page) /\ ~BeingFreed(page)
       /\ \A u \in Threads : page \notin Freed(u)
       /\ \A b \in Out : page \notin Cover(b)
       /\ \A e \in descs : \A x \in Range(free_list[e]) : x.page # page
  BY <1>3, UnusedFacts
<1>13. /\ Out' = Out /\ \A u \in Threads : Held(u)' = Held(u) /\ Freed(u)' = Freed(u)
       /\ \A p : BeingFreed(p)' <=> BeingFreed(p)
  BY <1>4 DEF Out, Held, Freed, BeingFreed
<1>14. OwnInv' /\ DescInv'
  BY <1>1, <1>4, <1>13 DEF OwnInv, DescInv
<1>15. MemoryType'
  BY <1>1, <1>4, <1>8, <1>9, <1>11 DEF MemoryType
<1>16. CallInv'
  <2>1. OthersSame(t) /\ CallOk(t)'
    BY <1>1, <1>4 DEF OthersSame, CallInv, CallOk
  <2>2. DescsKept(t)
    BY <1>9, <1>12, PushBlock DEF DescsKept
  <2> QED BY <1>1, <2>1, <2>2, CallStep
<1>17. SoundInv'
  <2> SUFFICES ASSUME NEW b \in Out PROVE Sound(b)'
    BY <1>13 DEF SoundInv
  <2>1. Sound(b) /\ b.page \in Pages /\ b.page \in Cover(b)
    BY BlockFacts DEF MemoryInv, SoundInv
  <2>2. \A p \in Cover(b) : p \in Pages /\ used_map'[p] /\ arena'[p] = arena[p]
    BY <1>8, <1>9, <1>12, <2>1 DEF Sound
  <2> QED BY <2>1, <2>2 DEF Sound, IsArena
<1>18. ApartInv'
  <2>1. \A u \in Threads : \A p \in Freed(u) :
          p \in Pages /\ p # page /\ used_map[p] /\ arena[p].desc = pc[u].desc
    BY <1>12 DEF MemoryInv, ApartInv
  <2>2. \A u \in Threads : \A p \in Freed(u) : p \in Pages /\ used_map'[p] /\ arena'[p].desc = pc'[u].desc
    BY <1>4, <1>8, <1>9, <2>1
  <2> QED BY <1>13, <2>2 DEF MemoryInv, ApartInv, Cover
<1>19. FreeInv'
  <2> SUFFICES ASSUME NEW e \in descs
               PROVE  /\ Once(free_list'[e])
                      /\ \A x \in Range(free_list'[e]) :
                           /\ x.pages = 0 /\ arena'[x.page].desc = e /\ x.idx \in 1 .. blocks_per_arena(e)
                           /\ x \notin Out /\ ~BeingFreed(x.page)
    BY <1>13 DEF FreeInv, Once, Range
  <2>1. CASE e # d
    <3>1. \A x \in Range(free_list[e]) : x.page \in Pages /\ x.page # page
      BY <1>12, ListFacts
    <3> QED BY ZenonT(30), <1>9, <1>11, <2>1, <3>1 DEF MemoryInv, FreeInv
  <2>2. CASE e = d
    <3> SUFFICES ASSUME NEW i \in 1 .. blocks_per_arena(d), NEW x, x = arena_to_block(page, i)
                 PROVE  /\ x.pages = 0 /\ arena'[x.page].desc = d /\ x.idx \in 1 .. blocks_per_arena(d)
                        /\ x \notin Out /\ ~BeingFreed(x.page)
      BY <1>10, <1>11, <2>2
    <3>1. x.page = page /\ x.idx = i /\ x.pages = 0
      BY BlockFacts
    <3>2. x \notin Out
      BY <1>12, <3>1, BlockFacts
    <3> QED BY <1>9, <1>12, <3>1, <3>2
  <2> QED BY <2>1, <2>2
<1>20. \A p \in Pages : p # page => (IsArena(p)' <=> IsArena(p))
  BY <1>9 DEF IsArena
\* The other arenas of the descriptor have no block on the list, before and after.
<1>21. ASSUME NEW p \in Pages, p # page, IsArena(p)
       PROVE  /\ \A i : arena_to_block(p, i) \in Range(free_list[arena[p].desc]) =>
                          arena_to_block(p, i) \in Range(free_list'[arena[p].desc])
              /\ FreeIdx(p)' = FreeIdx(p)
  <2>1. CASE arena[p].desc = d
    <3>1. FreeIdx(p) = {} /\ Range(free_list[d]) = {}
      BY <1>2, <1>4, <1>21, <2>1, EmptyNotFull DEF Range
    <3>2. \A i : arena_to_block(p, i) \notin Range(free_list'[d])
      BY <1>10, <1>11, <1>21, BlockFacts
    <3>3. FreeIdx(p)' = {}
      BY <1>9, <1>21, <2>1, <3>2 DEF FreeIdx
    <3> QED BY <2>1, <3>1, <3>3
  <2>2. CASE arena[p].desc # d
    <3>1. free_list'[arena[p].desc] = free_list[arena[p].desc] /\ arena'[p] = arena[p]
      BY <1>9, <1>11, <1>21, <2>2 DEF IsArena
    <3> QED BY <3>1 DEF FreeIdx
  <2> QED BY <2>1, <2>2
<1>22. ArenaInv'
  <2>1. ASSUME NEW p \in Pages, p # page, IsArena(p)'
        PROVE  /\ used_map'[p]
               /\ ~BeingFreed(p) =>
                    /\ \A i \in 1 .. blocks_per_arena(arena'[p].desc) :
                         arena_to_block(p, i) \in Range(free_list'[arena'[p].desc]) \cup Out
                    /\ Cardinality(FreeIdx(p)') = arena'[p].free_cnt
    <3>1. IsArena(p) /\ arena'[p] = arena[p]
      BY <1>9, <1>20, <2>1
    <3> QED BY <1>8, <1>21, <2>1, <3>1 DEF MemoryInv, ArenaInv
  <2>2. /\ used_map'[page]
        /\ \A i \in 1 .. blocks_per_arena(d) : arena_to_block(page, i) \in Range(free_list'[d])
        /\ Cardinality(FreeIdx(page)') = blocks_per_arena(d)
    <3>1. \A i \in 1 .. blocks_per_arena(d) : arena_to_block(page, i) \in Range(free_list'[d])
      BY <1>10, <1>11
    <3>2. FreeIdx(page)' = 1 .. blocks_per_arena(d)
      BY <1>9, <3>1 DEF FreeIdx
    <3>3. Cardinality(1 .. blocks_per_arena(d)) = blocks_per_arena(d)
      BY IndexCount
    <3> QED BY <1>8, <3>1, <3>2, <3>3
  <2>3. arena'[page].desc = d /\ arena'[page].free_cnt = blocks_per_arena(d)
    BY <1>9
  <2> QED BY <1>13, <2>1, <2>2, <2>3 DEF ArenaInv, arena_to_block
<1>23. FullInv'
  <2> SUFFICES ASSUME NEW p \in Pages, IsArena(p)', arena'[p].free_cnt >= blocks_per_arena(arena'[p].desc)
               PROVE  \E u \in Threads :
                      /\ pc[u].desc = arena'[p].desc
                      /\ \/ pc[u].op = "malloc" /\ \A x \in Range(free_list'[arena'[p].desc]) : x.page = p
                         \/ pc[u].op = "pages" /\ pc[u].block.page = p
    BY <1>4 DEF FullInv, Range
  <2>1. CASE p = page
    <3>1. \A x \in Range(free_list'[d]) : x.page = page
      BY <1>10, <1>11, BlockFacts
    <3> QED BY <1>2, <1>4, <1>9, <2>1, <3>1
  <2>2. CASE p # page
    <3>1. arena'[p] = arena[p] /\ IsArena(p)
      BY <1>9, <1>20, <2>2
    <3>2. PICK u \in Threads :
            /\ pc[u].desc = arena[p].desc
            /\ \/ pc[u].op = "malloc" /\ \A x \in Range(free_list[arena[p].desc]) : x.page = p
               \/ pc[u].op = "pages" /\ pc[u].block.page = p
      BY <3>1 DEF MemoryInv, FullInv
    <3>3. arena[p].free_cnt \in Int /\ blocks_per_arena(arena[p].desc) \in Nat
      BY <1>5, <3>1, Constants DEF IsArena
    <3>4. arena[p].desc # d
      <4> SUFFICES ASSUME arena[p].desc = d PROVE FALSE
        OBVIOUS
      <4>1. arena[p].free_cnt < blocks_per_arena(arena[p].desc)
        BY <1>2, <1>4, <3>1, EmptyNotFull
      <4> QED BY <3>1, <3>3, <4>1
    <3>5. free_list'[arena[p].desc] = free_list[arena[p].desc]
      BY <1>11, <3>1, <3>4 DEF IsArena
    <3> QED BY <3>1, <3>2, <3>5
  <2> QED BY <2>1, <2>2
<1>24. UsedInv'
  <2> SUFFICES ASSUME NEW p \in Pages
               PROVE  /\ used_map'[p] => IsArena(p)' \/ BeingFreed(p) \/ \E b \in Out : p \in Cover(b)
                      /\ ~used_map'[p] => arena'[p] = NoArena
    BY <1>13 DEF UsedInv, Cover
  <2>1. CASE p = page
    BY <1>8, <1>9, <2>1 DEF IsArena
  <2>2. CASE p # page
    BY <1>8, <1>9, <1>20, <2>2 DEF MemoryInv, UsedInv
  <2> QED BY <2>1, <2>2
<1> QED BY <1>14, <1>15, <1>16, <1>17, <1>18, <1>19, <1>22, <1>23, <1>24 DEF MemoryInv

-----------------------------------------------------------------------------
(* Steps that take a block off a free list or put one back.                *)

\* The count of an arena's blocks on the list stays within the arena.
LEMMA CountBounds ==
  ASSUME MemoryInv, NEW p \in Pages, IsArena(p), ~BeingFreed(p)
  PROVE  /\ FreeIdx(p) \subseteq 1 .. blocks_per_arena(arena[p].desc) /\ IsFiniteSet(FreeIdx(p))
         /\ Cardinality(FreeIdx(p)) = arena[p].free_cnt
         /\ arena[p].free_cnt \in Nat /\ arena[p].free_cnt <= blocks_per_arena(arena[p].desc)
<1>1. FreeIdx(p) \subseteq 1 .. blocks_per_arena(arena[p].desc)
  BY DEF FreeIdx
<1>2. /\ IsFiniteSet(1 .. blocks_per_arena(arena[p].desc))
      /\ Cardinality(1 .. blocks_per_arena(arena[p].desc)) = blocks_per_arena(arena[p].desc)
  BY IndexCount DEF IsArena
<1>3. /\ IsFiniteSet(FreeIdx(p))
      /\ Cardinality(FreeIdx(p)) <= Cardinality(1 .. blocks_per_arena(arena[p].desc))
  BY <1>1, <1>2, FS_Subset
<1>4. Cardinality(FreeIdx(p)) \in Nat
  BY <1>3, FS_CardinalityType
<1>5. Cardinality(FreeIdx(p)) = arena[p].free_cnt
  BY DEF MemoryInv, ArenaInv
<1> QED BY <1>1, <1>2, <1>3, <1>4, <1>5

\* The first block of the list goes to the caller.
LEMMA PopStep ==
  ASSUME MemoryInv, NEW t \in Threads, malloc_pop(t)
  PROVE  MemoryInv'
<1>1. MemoryType /\ OwnInv /\ DescInv /\ CallInv
  BY DEF MemoryInv
<1>2. PICK d \in descs : d = pc[t].desc
  BY <1>1 DEF malloc_pop, CallInv, CallOk
<1>3. PICK q : q = free_list[d]
  OBVIOUS
<1>4. q # <<>> /\ q \in Seq(Block) /\ Once(q)
  BY <1>2, <1>3, ListFacts DEF malloc_pop
<1>5. PICK b : b = Head(q)
  OBVIOUS
<1>6. /\ b \in Block /\ Tail(q) \in Seq(Block) /\ Once(Tail(q))
      /\ Range(q) = Range(Tail(q)) \cup {b} /\ b \notin Range(Tail(q))
  BY <1>4, <1>5, TailFacts
<1>7. PICK old \in Block \cup {NoBlock} : old = pc[t].old
  BY <1>1 DEF MemoryType
<1>8. /\ pc[t].op = "malloc"
      /\ free_list' = [free_list EXCEPT ![d] = Tail(q)]
      /\ arena' = [arena EXCEPT ![b.page].free_cnt = arena[b.page].free_cnt - 1]
      /\ heap' = heap \cup {b}
      /\ lock' = [lock EXCEPT ![d] = Nobody]
      /\ pc' = after(t, old)
      /\ UNCHANGED used_map
  BY <1>2, <1>3, <1>5, <1>7 DEF malloc_pop
<1>9. /\ free_list \in [descs -> Seq(Block)] /\ heap \subseteq Block
      /\ arena \in [Pages -> [desc : descs \cup {0}, free_cnt : Int]]
      /\ 0 \notin descs
  BY <1>1, Constants DEF MemoryType
<1>10. /\ b.pages = 0 /\ b.page \in Pages /\ arena[b.page].desc = d /\ b.idx \in 1 .. blocks_per_arena(d)
       /\ b \notin Out /\ ~BeingFreed(b.page)
       /\ Cover(b) = {b.page} /\ b = arena_to_block(b.page, b.idx)
  <2>1. b \in Range(free_list[d])
    BY <1>3, <1>6
  <2>2. b.pages = 0 /\ b.page \in Pages
    BY <2>1, ListFacts DEF MemoryInv, FreeInv
  <2> QED BY <1>6, <2>1, <2>2, BlockFacts DEF MemoryInv, FreeInv
<1>11. /\ free_list' \in [descs -> Seq(Block)] /\ free_list'[d] = Tail(q)
       /\ \A e \in descs : e # d => free_list'[e] = free_list[e]
  BY <1>6, <1>8, <1>9
<1>12. /\ arena' \in [Pages -> [desc : descs \cup {0}, free_cnt : Int]]
       /\ \A p \in Pages : p # b.page => arena'[p] = arena[p]
       /\ \A p \in Pages : arena'[p].desc = arena[p].desc
       /\ arena'[b.page].free_cnt = arena[b.page].free_cnt - 1
  BY <1>8, <1>9, <1>10
<1>13. /\ OthersSame(t) /\ Held(t)' = {old} \ {NoBlock} /\ Freed(t)' = {} /\ pc'[t].desc = 0
       /\ CallOk(t)'
       /\ pc' \in [Threads -> [op : Ops, desc : descs \cup {0},
                          block : Block \cup {NoBlock}, old : Block \cup {NoBlock}]]
  BY <1>8, AfterFacts
<1>14. Held(t) = {old} \ {NoBlock} /\ Freed(t) = {}
  BY <1>7, <1>8 DEF Held, Freed
<1>15. Out = heap \cup Held(t) \cup Others(t) /\ Out' = heap' \cup Held(t)' \cup Others(t)
  BY <1>13, OutParts, OutStep
<1>16. Out' = Out \cup {b}
  BY <1>8, <1>13, <1>14, <1>15
<1>17. /\ \A u \in Threads : Freed(u)' = Freed(u)
       /\ \A u \in Threads : \A p \in Freed(u) : pc'[u].desc = pc[u].desc
       /\ \A p : BeingFreed(p)' <=> BeingFreed(p)
  <2>1. \A u \in Threads : Freed(u)' = Freed(u)
    BY <1>13, <1>14, OutStep
  <2> QED BY <1>13, <1>14, <2>1 DEF OthersSame, BeingFreed
<1>18. \A p \in Pages : IsArena(p)' <=> IsArena(p)
  BY <1>12 DEF IsArena
<1>19. OwnInv'
  <2>1. heap \cap Held(t) = {} /\ (heap \cup Held(t)) \cap Others(t) = {}
    BY <1>1, OwnParts
  <2>2. heap' \cap Held(t)' = {} /\ (heap' \cup Held(t)') \cap Others(t) = {}
    BY <1>8, <1>10, <1>13, <1>14, <1>15, <2>1
  <2> QED BY <1>1, <1>13, <2>2, OwnStep
<1>20. DescInv' /\ lock' \in [descs -> Threads \cup {Nobody}]
  BY <1>1, <1>2, <1>8, <1>13, LockReleased
<1>21. MemoryType'
  <2>1. heap' \in SUBSET Block
    BY <1>6, <1>8, <1>9
  <2> QED BY <1>1, <1>8, <1>11, <1>12, <1>13, <1>20, <2>1 DEF MemoryType
<1>22. CallInv'
  <2>1. DescsKept(t)
    BY <1>12, PushBlock DEF DescsKept
  <2> QED BY <1>1, <1>13, <2>1, CallStep
<1>23. SoundInv'
  <2> SUFFICES ASSUME NEW c \in Out' PROVE Sound(c)'
    BY DEF SoundInv
  <2>1. CASE c \in Out
    <3>1. Sound(c) /\ c.page \in Pages /\ c.page \in Cover(c)
      BY <2>1, BlockFacts DEF MemoryInv, SoundInv
    <3>2. c.pages # 0 => c.page # b.page
      BY <1>9, <1>10, <3>1 DEF Sound
    <3>3. \A p \in Cover(c) : p \in Pages /\ used_map'[p] /\ arena'[p].desc = arena[p].desc
      BY <1>8, <1>12, <3>1 DEF Sound
    <3>4. c.pages # 0 => arena'[c.page] = arena[c.page]
      BY <1>12, <3>1, <3>2
    <3> QED BY <3>1, <3>3, <3>4 DEF Sound, IsArena
  <2>2. CASE c = b
    <3>1. used_map'[b.page]
      BY <1>8, <1>10 DEF MemoryInv, ArenaInv, IsArena
    <3> QED BY <1>10, <1>12, <2>2, <3>1 DEF Sound, IsArena
  <2> QED BY <1>16, <2>1, <2>2
<1>24. ApartInv'
  <2>1. ASSUME NEW c \in Out, c.pages # 0 PROVE Cover(c) \cap Cover(b) = {}
    <3>1. \A p \in Cover(c) : arena[p].desc = 0
      BY <2>1 DEF MemoryInv, SoundInv, Sound
    <3>2. b.page \notin Cover(c)
      BY <1>9, <1>10, <3>1
    <3> QED BY <1>10, <3>2
  <2>2. \A a, c \in Out' : a # c /\ a.pages # 0 => Cover(a) \cap Cover(c) = {}
    BY <1>10, <1>16, <2>1 DEF MemoryInv, ApartInv
  <2>3. \A u \in Threads, c \in Out' : Freed(u)' \cap Cover(c) = {}
    BY <1>10, <1>16, <1>17 DEF MemoryInv, ApartInv, BeingFreed
  <2>4. \A u, v \in Threads : u # v => Freed(u)' \cap Freed(v)' = {}
    BY <1>17 DEF MemoryInv, ApartInv
  <2>5. \A u \in Threads : \A p \in Freed(u) : p \in Pages /\ used_map'[p] /\ arena'[p].desc = pc'[u].desc
    BY <1>8, <1>12, <1>17 DEF MemoryInv, ApartInv
  <2> QED BY <1>17, <2>2, <2>3, <2>4, <2>5 DEF ApartInv, Cover
<1>25. FreeInv'
  <2> SUFFICES ASSUME NEW e \in descs
               PROVE  /\ Once(free_list'[e])
                      /\ \A x \in Range(free_list'[e]) :
                           /\ x.pages = 0 /\ arena'[x.page].desc = e /\ x.idx \in 1 .. blocks_per_arena(e)
                           /\ x \notin Out' /\ ~BeingFreed(x.page)
    BY <1>17 DEF FreeInv, Once, Range
  <2>1. \A x \in Range(free_list[e]) :
          /\ x.page \in Pages /\ x.pages = 0 /\ arena[x.page].desc = e
          /\ x.idx \in 1 .. blocks_per_arena(e) /\ x \notin Out /\ ~BeingFreed(x.page)
    BY ListFacts DEF MemoryInv, FreeInv
  <2>2. Once(free_list[e])
    BY ListFacts
  <2>3. CASE e # d
    BY <1>10, <1>11, <1>12, <1>16, <2>1, <2>2, <2>3
  <2>4. CASE e = d
    BY <1>3, <1>6, <1>11, <1>12, <1>16, <2>1, <2>4
  <2> QED BY <2>3, <2>4
\* Only the arena of the block loses a block on the list.
<1>26. ASSUME NEW p \in Pages, IsArena(p)
       PROVE  /\ \A i : arena_to_block(p, i) \in Range(free_list[arena[p].desc]) =>
                          arena_to_block(p, i) \in Range(free_list'[arena[p].desc]) \cup {b}
              /\ p # b.page => FreeIdx(p)' = FreeIdx(p)
              /\ p = b.page => FreeIdx(p)' = FreeIdx(p) \ {b.idx}
  <2>1. arena'[p].desc = arena[p].desc /\ arena[p].desc \in descs
    BY <1>12, <1>26 DEF IsArena
  <2>2. CASE arena[p].desc = d
    <3>1. \A i : arena_to_block(p, i) \in Range(free_list[d]) <=>
                 arena_to_block(p, i) \in Range(free_list'[d]) \/ arena_to_block(p, i) = b
      BY <1>3, <1>6, <1>11
    <3>2. p # b.page => \A i : arena_to_block(p, i) # b
      BY BlockFacts
    <3>3. \A i : arena_to_block(b.page, i) = b <=> i = b.idx
      BY <1>10, BlockFacts
    <3>4. b \notin Range(free_list'[d])
      BY <1>6, <1>11
    <3>5. p # b.page => FreeIdx(p)' = FreeIdx(p)
      BY <2>1, <2>2, <3>1, <3>2 DEF FreeIdx
    <3>6. ASSUME p = b.page PROVE FreeIdx(p)' = FreeIdx(p) \ {b.idx}
      <4>1. \A i : i \in FreeIdx(p)' <=>
              i \in 1 .. blocks_per_arena(d) /\ arena_to_block(p, i) \in Range(free_list'[d])
        BY <2>1, <2>2 DEF FreeIdx
      <4>2. \A i : i \in FreeIdx(p) <=>
              i \in 1 .. blocks_per_arena(d) /\ arena_to_block(p, i) \in Range(free_list[d])
        BY <2>2 DEF FreeIdx
      <4>3. \A i : i \in FreeIdx(p)' <=> i \in FreeIdx(p) /\ i # b.idx
        BY <3>1, <3>3, <3>4, <3>6, <4>1, <4>2
      <4> QED BY <4>3
    <3> QED BY <2>2, <3>1, <3>5, <3>6
  <2>3. CASE arena[p].desc # d
    BY <1>10, <1>11, <2>1, <2>3 DEF FreeIdx
  <2> QED BY <2>2, <2>3
<1>27. b.page \in Pages /\ IsArena(b.page) /\ b.idx \in FreeIdx(b.page)
  BY <1>3, <1>6, <1>10 DEF IsArena, FreeIdx
<1>28. ArenaInv'
  <2> SUFFICES ASSUME NEW p \in Pages, IsArena(p)
               PROVE  /\ used_map[p]
                      /\ ~BeingFreed(p) =>
                           /\ \A i \in 1 .. blocks_per_arena(arena[p].desc) :
                                arena_to_block(p, i) \in Range(free_list'[arena[p].desc]) \cup Out'
                           /\ Cardinality(FreeIdx(p)') = arena'[p].free_cnt
    BY <1>8, <1>12, <1>17, <1>18 DEF ArenaInv, arena_to_block
  <2>1. used_map[p]
    BY DEF MemoryInv, ArenaInv
  <2>2. ASSUME ~BeingFreed(p), NEW i \in 1 .. blocks_per_arena(arena[p].desc)
        PROVE  arena_to_block(p, i) \in Range(free_list'[arena[p].desc]) \cup Out'
    <3>1. arena_to_block(p, i) \in Range(free_list[arena[p].desc]) \cup Out
      BY <2>2 DEF MemoryInv, ArenaInv
    <3> QED BY <1>16, <1>26, <3>1
  <2>3. ASSUME ~BeingFreed(p) PROVE Cardinality(FreeIdx(p)') = arena'[p].free_cnt
    <3>1. IsFiniteSet(FreeIdx(p)) /\ Cardinality(FreeIdx(p)) = arena[p].free_cnt
      BY <2>3, CountBounds
    <3>2. CASE p # b.page
      BY <1>12, <1>26, <3>1, <3>2
    <3>3. CASE p = b.page
      <4>1. Cardinality(FreeIdx(p) \ {b.idx}) = Cardinality(FreeIdx(p)) - 1
        BY <1>27, <3>1, <3>3, FS_RemoveElement
      <4> QED BY <1>12, <1>26, <3>1, <3>3, <4>1
    <3> QED BY <3>2, <3>3
  <2> QED BY <2>1, <2>2, <2>3
<1>29. FullInv'
  <2> SUFFICES ASSUME NEW p \in Pages, IsArena(p), arena'[p].free_cnt >= blocks_per_arena(arena[p].desc)
               PROVE  \E u \in Threads :
                      /\ pc'[u].desc = arena[p].desc
                      /\ \/ pc'[u].op = "malloc" /\ \A x \in Range(free_list'[arena[p].desc]) : x.page = p
                         \/ pc'[u].op = "pages" /\ pc'[u].block.page = p
    BY SMTT(20), <1>12, <1>18 DEF FullInv, Range
  <2>1. p # b.page
    <3> SUFFICES ASSUME p = b.page PROVE FALSE
      OBVIOUS
    <3>1. /\ arena[p].free_cnt \in Nat /\ arena[p].free_cnt <= blocks_per_arena(arena[p].desc)
      BY <1>10, CountBounds
    <3>2. blocks_per_arena(arena[p].desc) \in Nat /\ arena'[p].free_cnt = arena[p].free_cnt - 1
      BY <1>12, Constants DEF IsArena
    <3> QED BY <3>1, <3>2
  <2>2. PICK u \in Threads :
          /\ pc[u].desc = arena[p].desc
          /\ \/ pc[u].op = "malloc" /\ \A x \in Range(free_list[arena[p].desc]) : x.page = p
             \/ pc[u].op = "pages" /\ pc[u].block.page = p
    BY <1>12, <2>1 DEF MemoryInv, FullInv
  <2>3. u # t
    BY <1>2, <1>3, <1>6, <1>8, <2>1, <2>2
  <2>4. arena[p].desc # d /\ arena[p].desc \in descs
    BY <1>1, <1>2, <2>2, <2>3 DEF DescInv, IsArena
  <2>5. pc'[u] = pc[u] /\ free_list'[arena[p].desc] = free_list[arena[p].desc]
    BY <1>11, <1>13, <2>3, <2>4 DEF OthersSame
  <2> QED BY <2>2, <2>5
<1>30. UsedInv'
  <2>1. \A p \in Pages : ~used_map[p] => p # b.page
    BY <1>27 DEF MemoryInv, ArenaInv
  <2> QED BY <1>8, <1>12, <1>16, <1>17, <1>18, <2>1 DEF MemoryInv, UsedInv, Cover
<1> QED BY <1>19, <1>20, <1>21, <1>22, <1>23, <1>24, <1>25, <1>28, <1>29, <1>30 DEF MemoryInv

\* The free of a big block starts to give its pages back.
LEMMA FreeBeginBig ==
  ASSUME MemoryInv, NEW t \in Threads, free_begin(t), arena[pc[t].block.page].desc = 0
  PROVE  MemoryInv'
<1>1. MemoryType /\ OwnInv /\ DescInv /\ CallInv
  BY DEF MemoryInv
<1>2. PICK b \in Block : b = pc[t].block
  BY <1>1 DEF free_begin, CallInv, CallOk
<1>3. /\ pc \in [Threads -> [op : Ops, desc : descs \cup {0},
                          block : Block \cup {NoBlock}, old : Block \cup {NoBlock}]]
      /\ 0 \notin descs
  BY <1>1, Constants DEF MemoryType
<1>4. /\ pc[t].op = "free" /\ pc[t].desc = 0
      /\ pc' = [pc EXCEPT ![t] = [pc[t] EXCEPT !.op = "pages",
                                               !.block.pages = arena[b.page].free_cnt]]
      /\ UNCHANGED <<used_map, arena, free_list, heap, lock>>
  <2>1. pc[t].op = "free" /\ pc[t].desc = 0
    BY <1>1 DEF free_begin, CallInv, CallOk
  <2> QED BY <1>1, <1>2, <2>1 DEF free_begin
<1>5. Held(t) = {b} /\ Freed(t) = {}
  BY <1>2, <1>4 DEF Held, Freed
<1>6. b \in Out /\ Sound(b)
  BY <1>5, OutParts DEF MemoryInv, SoundInv
<1>7. /\ b.pages # 0 /\ arena[b.page].free_cnt = b.pages /\ b.pages \in Nat
      /\ \A p \in Cover(b) : p \in Pages /\ used_map[p] /\ arena[p].desc = 0
      /\ Cover(b) = b.page .. b.page + b.pages - 1
  <2>1. b.pages # 0
    BY <1>2, <1>3, <1>6 DEF Sound, IsArena
  <2> QED BY <1>6, <2>1 DEF Sound, Cover, Block
<1>8. /\ OthersSame(t)
      /\ pc'[t].op = "pages" /\ pc'[t].desc = 0 /\ pc'[t].block = b
      /\ pc'[t] \in [op : Ops, desc : descs \cup {0}, block : Block \cup {NoBlock},
                     old : Block \cup {NoBlock}]
  <2>1. OthersSame(t)
    BY <1>3, <1>4 DEF OthersSame
  <2>2. [b EXCEPT !.pages = b.pages] = b
    BY DEF Block
  <2>3. PICK r : r = pc[t]
    OBVIOUS
  <2>4. r \in [op : Ops, desc : descs \cup {0}, block : Block \cup {NoBlock},
               old : Block \cup {NoBlock}] /\ r.block = b /\ r.desc = 0
    BY <1>2, <1>3, <1>4, <2>3
  <2>5. pc'[t] = [r EXCEPT !.op = "pages", !.block = b]
    BY <1>2, <1>3, <1>4, <1>7, <2>2, <2>3
  <2> QED BY <2>1, <2>4, <2>5 DEF Ops
<1>9. Held(t)' = {} /\ Freed(t)' = Cover(b)
  BY <1>7, <1>8 DEF Held, Freed
<1>10. Out = heap \cup Held(t) \cup Others(t) /\ Out' = heap' \cup Held(t)' \cup Others(t)
  BY <1>8, OutParts, OutStep
<1>11. heap \cap Held(t) = {} /\ (heap \cup Held(t)) \cap Others(t) = {}
  BY <1>1, OwnParts
<1>12. Out' = Out \ {b}
  BY <1>4, <1>5, <1>9, <1>10, <1>11
<1>13. \A u \in Threads : u # t => Freed(u)' = Freed(u) /\ pc'[u] = pc[u]
  BY <1>8, OutStep DEF OthersSame
<1>14. \A p : BeingFreed(p)' <=> BeingFreed(p) \/ p \in Cover(b)
  BY <1>5, <1>9, <1>13 DEF BeingFreed
<1>15. OwnInv'
  <2>1. heap' \cap Held(t)' = {} /\ (heap' \cup Held(t)') \cap Others(t) = {}
    BY <1>4, <1>9, <1>11
  <2> QED BY <1>1, <1>8, <2>1, OwnStep
<1>16. DescInv'
  BY <1>1, <1>4, <1>8, LocksKept
<1>17. MemoryType'
  <2>1. pc' \in [Threads -> [op : Ops, desc : descs \cup {0},
                          block : Block \cup {NoBlock}, old : Block \cup {NoBlock}]]
    BY <1>3, <1>4, <1>8
  <2> QED BY <1>1, <1>4, <2>1 DEF MemoryType
<1>18. CallInv'
  <2>1. CallOk(t)'
    BY <1>7, <1>8 DEF CallOk
  <2>2. DescsKept(t)
    BY <1>4 DEF DescsKept
  <2> QED BY <1>1, <1>8, <2>1, <2>2, CallStep
<1>19. \A p : (IsArena(p)' <=> IsArena(p)) /\ FreeIdx(p)' = FreeIdx(p)
  BY <1>4 DEF IsArena, FreeIdx
<1>20. SoundInv'
  <2>1. \A c : Sound(c)' <=> Sound(c)
    BY <1>4 DEF Sound, IsArena
  <2> QED BY <1>12, <2>1 DEF MemoryInv, SoundInv
<1>21. ApartInv'
  <2>1. \A a, c \in Out' : a # c /\ a.pages # 0 => Cover(a) \cap Cover(c) = {}
    BY <1>12 DEF MemoryInv, ApartInv
  <2>2. \A u \in Threads, c \in Out' : Freed(u)' \cap Cover(c) = {}
    BY <1>6, <1>7, <1>9, <1>12, <1>13 DEF MemoryInv, ApartInv
  <2>3. \A u, v \in Threads : u # v => Freed(u)' \cap Freed(v)' = {}
    BY <1>6, <1>9, <1>13 DEF MemoryInv, ApartInv
  <2>4. \A u \in Threads : \A p \in Freed(u)' : p \in Pages /\ used_map[p] /\ arena[p].desc = pc'[u].desc
    <3>1. \A u \in Threads : u # t =>
            \A p \in Freed(u) : p \in Pages /\ used_map[p] /\ arena[p].desc = pc[u].desc
      BY DEF MemoryInv, ApartInv
    <3>2. \A p \in Freed(t)' : p \in Pages /\ used_map[p] /\ arena[p].desc = pc'[t].desc
      BY <1>7, <1>8, <1>9
    <3> QED BY <1>13, <3>1, <3>2
  <2> QED BY <1>4, <2>1, <2>2, <2>3, <2>4 DEF ApartInv, Cover
<1>22. FreeInv'
  <2> SUFFICES ASSUME NEW e \in descs
               PROVE  /\ Once(free_list[e])
                      /\ \A x \in Range(free_list[e]) :
                           /\ x.pages = 0 /\ arena[x.page].desc = e /\ x.idx \in 1 .. blocks_per_arena(e)
                           /\ x \notin Out' /\ ~(BeingFreed(x.page) \/ x.page \in Cover(b))
    BY <1>4, <1>14 DEF FreeInv
  <2> QED BY <1>3, <1>7, <1>12 DEF MemoryInv, FreeInv
<1>23. ArenaInv'
  <2> SUFFICES ASSUME NEW p \in Pages, IsArena(p)
               PROVE  /\ used_map[p]
                      /\ ~BeingFreed(p) =>
                           /\ \A i \in 1 .. blocks_per_arena(arena[p].desc) :
                                arena_to_block(p, i) \in Range(free_list[arena[p].desc]) \cup Out'
                           /\ Cardinality(FreeIdx(p)) = arena[p].free_cnt
    BY <1>4, <1>14, <1>19 DEF ArenaInv
  <2>1. \A i : arena_to_block(p, i) # b
    BY <1>7, BlockFacts
  <2> QED BY <1>12, <2>1 DEF MemoryInv, ArenaInv
<1>24. FullInv'
  BY <1>4, <1>8, FullKept
<1>25. UsedInv'
  BY <1>4, <1>12, <1>14, <1>19 DEF MemoryInv, UsedInv, Cover
<1> QED BY <1>15, <1>16, <1>17, <1>18, <1>20, <1>21, <1>22, <1>23, <1>24, <1>25 DEF MemoryInv

\* The pages go back one by one.
LEMMA PagesStep ==
  ASSUME MemoryInv, NEW t \in Threads, palloc_free_multiple(t)
  PROVE  MemoryInv'
<1>1. MemoryType /\ OwnInv /\ DescInv /\ CallInv
  BY DEF MemoryInv
<1>2. pc[t].op = "pages"
  BY DEF palloc_free_multiple
<1>3. PICK b \in Block : b = pc[t].block
  BY <1>1, <1>2 DEF CallInv, CallOk
<1>4. PICK d \in descs \cup {0} : d = pc[t].desc
  BY <1>1 DEF MemoryType
<1>5. b.page \in Pages /\ b.page \in Nat /\ b.pages \in Nat /\ b.pages >= 1 /\ (d # 0 => b.pages = 1)
  BY <1>1, <1>2, <1>3, <1>4, Constants DEF CallInv, CallOk, Block
<1>6. Freed(t) = b.page .. b.page + b.pages - 1 /\ Held(t) = {}
  BY <1>2, <1>3 DEF Freed, Held
<1>7. /\ used_map' = bitmap_set_multiple(used_map, b.page, 1, FALSE)
      /\ arena' = [arena EXCEPT ![b.page] = NoArena]
      /\ pc' = [pc EXCEPT ![t] = IF b.pages = 1 THEN Idle
                                 ELSE [pc[t] EXCEPT !.block = [page |-> b.page + 1, idx |-> 0,
                                                               pages |-> b.pages - 1]]]
      /\ lock' = IF b.pages = 1 /\ d # 0 THEN [lock EXCEPT ![d] = Nobody] ELSE lock
      /\ UNCHANGED <<free_list, heap>>
  BY <1>3, <1>4 DEF palloc_free_multiple
<1>8. /\ used_map \in [Pages -> BOOLEAN] /\ 0 \notin descs
      /\ arena \in [Pages -> [desc : descs \cup {0}, free_cnt : Int]]
      /\ pc \in [Threads -> [op : Ops, desc : descs \cup {0},
                          block : Block \cup {NoBlock}, old : Block \cup {NoBlock}]]
  BY <1>1, Constants DEF MemoryType
<1>9. /\ used_map' \in [Pages -> BOOLEAN] /\ ~used_map'[b.page]
      /\ \A p \in Pages : p # b.page => (used_map'[p] <=> used_map[p])
  <2>1. used_map' = [i \in Pages |-> IF i \in b.page .. b.page + 1 - 1 THEN FALSE ELSE used_map[i]]
    BY <1>7, <1>8 DEF bitmap_set_multiple
  <2>2. b.page .. b.page + 1 - 1 = {b.page}
    BY <1>5
  <2>3. used_map' = [i \in Pages |-> IF i = b.page THEN FALSE ELSE used_map[i]]
    BY <2>1, <2>2, Zenon
  <2> QED BY <1>5, <1>8, <2>3, Zenon
<1>10. /\ arena' \in [Pages -> [desc : descs \cup {0}, free_cnt : Int]]
       /\ arena'[b.page] = NoArena /\ arena'[b.page].desc = 0
       /\ \A p \in Pages : p # b.page => arena'[p] = arena[p]
  BY <1>5, <1>7, <1>8 DEF NoArena
<1>11. OthersSame(t)
  BY <1>7, <1>8 DEF OthersSame
<1>12. \A p \in Freed(t) : p \in Pages /\ used_map[p] /\ arena[p].desc = d
  BY <1>4 DEF MemoryInv, ApartInv
<1>13. b.page \in Freed(t)
  BY <1>5, <1>6
\* The call is over, or goes on with the next page.
<1>14. /\ Held(t)' = {} /\ Freed(t)' = Freed(t) \ {b.page} /\ CallOk(t)'
       /\ pc' \in [Threads -> [op : Ops, desc : descs \cup {0},
                          block : Block \cup {NoBlock}, old : Block \cup {NoBlock}]]
       /\ pc'[t].desc = IF b.pages = 1 THEN 0 ELSE d
  <2>1. CASE b.pages = 1
    <3>1. pc'[t] = Idle /\ pc'[t].op = "idle" /\ pc'[t].desc = 0
      BY <1>7, <1>8, <2>1, Constants
    <3>2. Freed(t) = {b.page}
      BY <1>5, <1>6, <2>1
    <3>3. Held(t)' = {} /\ Freed(t)' = {} /\ CallOk(t)'
      BY <3>1 DEF Held, Freed, CallOk
    <3>4. Idle \in [op : Ops, desc : descs \cup {0}, block : Block \cup {NoBlock},
                    old : Block \cup {NoBlock}]
      BY DEF Idle, Ops
    <3> QED BY <1>7, <1>8, <2>1, <3>1, <3>2, <3>3, <3>4
  <2>2. CASE b.pages # 1
    <3>1. b.page + 1 \in Freed(t) /\ d = 0
      BY <1>5, <1>6, <2>2
    <3>2. PICK n : n = [page |-> b.page + 1, idx |-> 0, pages |-> b.pages - 1]
      OBVIOUS
    <3>3. n \in Block /\ n.page = b.page + 1 /\ n.pages = b.pages - 1
      BY <1>5, <1>12, <2>2, <3>1, <3>2 DEF Block
    <3>4. /\ pc'[t].op = "pages" /\ pc'[t].desc = d /\ pc'[t].block = n
          /\ pc'[t] \in [op : Ops, desc : descs \cup {0}, block : Block \cup {NoBlock},
                         old : Block \cup {NoBlock}]
      BY <1>2, <1>4, <1>7, <1>8, <2>2, <3>2, <3>3
    <3>5. Held(t)' = {} /\ Freed(t)' = b.page + 1 .. b.page + 1 + (b.pages - 1) - 1
      BY <3>3, <3>4 DEF Held, Freed
    <3>6. Freed(t)' = Freed(t) \ {b.page}
      BY <1>5, <1>6, <3>5
    <3>7. CallOk(t)'
      BY <1>5, <2>2, <3>1, <3>3, <3>4 DEF CallOk
    <3> QED BY <1>7, <1>8, <2>2, <3>4, <3>5, <3>6, <3>7
  <2> QED BY <2>1, <2>2
<1>15. Out' = Out
  <2>1. Out = heap \cup Held(t) \cup Others(t) /\ Out' = heap' \cup Held(t)' \cup Others(t)
    BY <1>11, OutParts, OutStep
  <2> QED BY <1>6, <1>7, <1>14, <2>1
<1>16. \A u \in Threads : u # t => Freed(u)' = Freed(u) /\ pc'[u] = pc[u] /\ b.page \notin Freed(u)
  BY <1>11, <1>13, OutStep DEF OthersSame, MemoryInv, ApartInv
<1>17. \A p : BeingFreed(p)' <=> BeingFreed(p) /\ p # b.page
  BY <1>14, <1>16 DEF BeingFreed
<1>18. BeingFreed(b.page) /\ \A c \in Out : b.page \notin Cover(c)
  BY <1>13 DEF BeingFreed, MemoryInv, ApartInv
<1>19. OwnInv'
  <2>1. heap \cap Held(t) = {} /\ (heap \cup Held(t)) \cap Others(t) = {}
    BY <1>1, OwnParts
  <2>2. heap' \cap Held(t)' = {} /\ (heap' \cup Held(t)') \cap Others(t) = {}
    BY <1>7, <1>14, <2>1
  <2> QED BY <1>1, <1>11, <2>2, OwnStep
<1>20. DescInv' /\ lock' \in [descs -> Threads \cup {Nobody}]
  <2>1. CASE b.pages = 1 /\ d # 0
    <3>1. d \in descs /\ pc[t].desc = d /\ lock' = [lock EXCEPT ![d] = Nobody] /\ pc'[t].desc = 0
      BY <1>4, <1>7, <1>14, <2>1
    <3> QED BY <1>1, <1>11, <3>1, LockReleased
  <2>2. CASE ~(b.pages = 1 /\ d # 0)
    <3>1. lock' = lock /\ pc'[t].desc = pc[t].desc
      BY <1>4, <1>7, <1>14, <2>2
    <3>2. DescInv'
      BY <1>1, <1>11, <3>1, LocksKept
    <3> QED BY <1>1, <3>1, <3>2 DEF MemoryType
  <2> QED BY <2>1, <2>2
<1>21. MemoryType'
  BY <1>1, <1>7, <1>9, <1>10, <1>14, <1>20 DEF MemoryType
<1>22. CallInv'
  <2>1. DescsKept(t)
    BY <1>10, <1>18, PushBlock DEF DescsKept
  <2> QED BY <1>1, <1>11, <1>14, <2>1, CallStep
<1>23. SoundInv'
  <2> SUFFICES ASSUME NEW c \in Out PROVE Sound(c)'
    BY <1>15 DEF SoundInv
  <2>1. Sound(c) /\ c.page \in Pages /\ c.page \in Cover(c)
    BY BlockFacts DEF MemoryInv, SoundInv
  <2>2. \A p \in Cover(c) : p \in Pages /\ used_map'[p] /\ arena'[p] = arena[p]
    BY <1>9, <1>10, <1>18, <2>1 DEF Sound
  <2> QED BY <2>1, <2>2 DEF Sound, IsArena
<1>24. ApartInv'
  <2>1. \A u \in Threads : Freed(u)' \subseteq Freed(u) /\ b.page \notin Freed(u)'
    BY <1>14, <1>16
  <2>2. \A u \in Threads, c \in Out' : Freed(u)' \cap Cover(c) = {}
    BY <1>15, <2>1 DEF MemoryInv, ApartInv
  <2>3. \A u, v \in Threads : u # v => Freed(u)' \cap Freed(v)' = {}
    BY <2>1 DEF MemoryInv, ApartInv
  <2>4. \A u \in Threads : Freed(u)' # {} => pc'[u].desc = pc[u].desc
    <3>1. Freed(t)' # {} => pc'[t].desc = pc[t].desc
      BY <1>4, <1>5, <1>6, <1>14
    <3> QED BY <1>16, <3>1
  <2>5. \A u \in Threads : \A p \in Freed(u)' : p \in Pages /\ used_map'[p] /\ arena'[p].desc = pc'[u].desc
    BY <1>9, <1>10, <2>1, <2>4 DEF MemoryInv, ApartInv
  <2> QED BY <1>15, <2>2, <2>3, <2>5 DEF MemoryInv, ApartInv, Cover
<1>25. FreeInv'
  <2> SUFFICES ASSUME NEW e \in descs
               PROVE  /\ Once(free_list[e])
                      /\ \A x \in Range(free_list[e]) :
                           /\ x.pages = 0 /\ arena'[x.page].desc = e /\ x.idx \in 1 .. blocks_per_arena(e)
                           /\ x \notin Out /\ ~(BeingFreed(x.page) /\ x.page # b.page)
    BY <1>7, <1>15, <1>17 DEF FreeInv
  <2>1. \A x \in Range(free_list[e]) : x.page \in Pages
    BY ListFacts
  <2> QED BY <1>10, <1>18, <2>1 DEF MemoryInv, FreeInv
<1>26. \A p \in Pages : IsArena(p)' => IsArena(p) /\ p # b.page
  BY <1>8, <1>10 DEF IsArena
<1>27. ArenaInv'
  <2> SUFFICES ASSUME NEW p \in Pages, IsArena(p), p # b.page
               PROVE  /\ used_map'[p]
                      /\ ~BeingFreed(p) =>
                           /\ \A i \in 1 .. blocks_per_arena(arena'[p].desc) :
                                arena_to_block(p, i) \in Range(free_list[arena'[p].desc]) \cup Out
                           /\ Cardinality(FreeIdx(p)') = arena'[p].free_cnt
    BY <1>7, <1>15, <1>17, <1>26 DEF ArenaInv
  <2>1. arena'[p] = arena[p] /\ FreeIdx(p)' = FreeIdx(p)
    BY <1>7, <1>10 DEF FreeIdx
  <2> QED BY <1>9, <2>1 DEF MemoryInv, ArenaInv
<1>28. FullInv'
  <2> SUFFICES ASSUME NEW p \in Pages, IsArena(p), p # b.page,
                      arena'[p].free_cnt >= blocks_per_arena(arena'[p].desc)
               PROVE  \E u \in Threads :
                      /\ pc'[u].desc = arena'[p].desc
                      /\ \/ pc'[u].op = "malloc" /\ \A x \in Range(free_list[arena'[p].desc]) : x.page = p
                         \/ pc'[u].op = "pages" /\ pc'[u].block.page = p
    BY <1>7, <1>26 DEF FullInv
  <2>1. arena'[p] = arena[p]
    BY <1>10
  <2>2. PICK u \in Threads :
          /\ pc[u].desc = arena[p].desc
          /\ \/ pc[u].op = "malloc" /\ \A x \in Range(free_list[arena[p].desc]) : x.page = p
             \/ pc[u].op = "pages" /\ pc[u].block.page = p
    BY <2>1 DEF MemoryInv, FullInv
  <2>3. u # t
    BY <1>2, <1>3, <2>2
  <2> QED BY <1>16, <2>1, <2>2, <2>3
<1>29. UsedInv'
  <2> SUFFICES ASSUME NEW p \in Pages
               PROVE  /\ used_map'[p] => \/ IsArena(p)'
                                         \/ BeingFreed(p) /\ p # b.page
                                         \/ \E c \in Out : p \in Cover(c)
                      /\ ~used_map'[p] => arena'[p] = NoArena
    BY <1>15, <1>17 DEF UsedInv, Cover
  <2>1. CASE p = b.page
    BY <1>9, <1>10, <2>1
  <2>2. CASE p # b.page
    <3>1. arena'[p] = arena[p] /\ (used_map'[p] <=> used_map[p]) /\ (IsArena(p)' <=> IsArena(p))
      BY <1>9, <1>10, <2>2 DEF IsArena
    <3> QED BY <2>2, <3>1 DEF MemoryInv, UsedInv
  <2> QED BY <2>1, <2>2
<1> QED BY <1>19, <1>20, <1>21, <1>22, <1>23, <1>24, <1>25, <1>27, <1>28, <1>29 DEF MemoryInv

\* What free finds when it puts block b of descriptor d back, and what it leaves.
PushFinds(t, b, d) ==
  /\ d \in descs /\ 0 \notin descs /\ b \in Block /\ b \in Out /\ b.pages = 0 /\ b.page \in Pages
  /\ Cover(b) = {b.page} /\ b = arena_to_block(b.page, b.idx)
  /\ b.idx \in 1 .. blocks_per_arena(d) /\ arena[b.page].desc = d /\ IsArena(b.page)
  /\ used_map[b.page] /\ ~BeingFreed(b.page)
  /\ \A e \in descs : b \notin Range(free_list[e])
  /\ \A c \in Out : c.pages # 0 => b.page \notin Cover(c)
  /\ Held(t) = {b} /\ Freed(t) = {}

PushLeaves(b) ==
  /\ arena' \in [Pages -> [desc : descs \cup {0}, free_cnt : Int]]
  /\ \A p \in Pages : p # b.page => arena'[p] = arena[p]
  /\ \A p \in Pages : arena'[p].desc = arena[p].desc
  /\ arena'[b.page].free_cnt = arena[b.page].free_cnt + 1
  /\ UNCHANGED <<used_map, heap>>

LEMMA PushFound ==
  ASSUME MemoryInv, NEW t \in Threads, free_push(t)
  PROVE  PushFinds(t, pc[t].block, pc[t].desc) /\ PushLeaves(pc[t].block)
<1>1. PICK b, d : b = pc[t].block /\ d = pc[t].desc
  OBVIOUS
<1>2. /\ pc[t].op = "push" /\ UNCHANGED <<used_map, heap>>
      /\ arena' = [arena EXCEPT ![b.page].free_cnt = arena[b.page].free_cnt + 1]
  BY <1>1 DEF free_push
<1>3. /\ b \in Out /\ b \in Block /\ Sound(b) /\ b.pages = 0 /\ b.page \in Pages /\ used_map[b.page]
      /\ arena[b.page].desc = d /\ d \in descs
  BY <1>1, <1>2, PushBlock
<1>4. 0 \notin descs
  BY Constants
<1>5. Cover(b) = {b.page} /\ b = arena_to_block(b.page, b.idx)
  BY <1>3, BlockFacts
<1>6. b.idx \in 1 .. blocks_per_arena(d) /\ IsArena(b.page)
  BY <1>3 DEF Sound, IsArena
<1>7. ~BeingFreed(b.page)
  BY <1>3, <1>5 DEF MemoryInv, ApartInv, BeingFreed
<1>8. \A e \in descs : b \notin Range(free_list[e])
  BY <1>3 DEF MemoryInv, FreeInv
<1>9. ASSUME NEW c \in Out, c.pages # 0 PROVE b.page \notin Cover(c)
  <2>1. \A p \in Cover(c) : arena[p].desc = 0
    BY <1>9 DEF MemoryInv, SoundInv, Sound
  <2> QED BY <1>3, <1>4, <2>1
<1>10. Held(t) = {b} /\ Freed(t) = {}
  BY <1>1, <1>2 DEF Held, Freed
<1>11. arena \in [Pages -> [desc : descs \cup {0}, free_cnt : Int]]
  BY DEF MemoryInv, MemoryType
<1>12. /\ arena' \in [Pages -> [desc : descs \cup {0}, free_cnt : Int]]
       /\ \A p \in Pages : p # b.page => arena'[p] = arena[p]
       /\ \A p \in Pages : arena'[p].desc = arena[p].desc
       /\ arena'[b.page].free_cnt = arena[b.page].free_cnt + 1
  BY <1>2, <1>3, <1>11
<1> QED BY <1>1, <1>2, <1>3, <1>4, <1>5, <1>6, <1>7, <1>8, <1>9, <1>10, <1>12 DEF PushFinds, PushLeaves

\* The blocks that stay out keep their pages and headers.
LEMMA PushSound ==
  ASSUME MemoryInv, NEW t \in Threads, free_push(t), Out' \subseteq Out
  PROVE  SoundInv'
<1>1. PICK b, d : PushFinds(t, b, d) /\ PushLeaves(b)
  BY PushFound
<1>2. /\ \A p \in Pages : p # b.page => arena'[p] = arena[p]
      /\ \A p \in Pages : arena'[p].desc = arena[p].desc
      /\ used_map' = used_map /\ \A c \in Out : c.pages # 0 => b.page \notin Cover(c)
  BY <1>1 DEF PushFinds, PushLeaves
<1> SUFFICES ASSUME NEW c \in Out PROVE Sound(c)'
  BY DEF SoundInv
<1>3. Sound(c) /\ c.page \in Pages /\ c.page \in Cover(c)
  BY BlockFacts DEF MemoryInv, SoundInv
<1>4. \A p \in Cover(c) : p \in Pages /\ used_map'[p] /\ arena'[p].desc = arena[p].desc
  BY <1>2, <1>3 DEF Sound
<1>5. c.pages # 0 => arena'[c.page] = arena[c.page]
  BY <1>2, <1>3
<1> QED BY <1>3, <1>4, <1>5 DEF Sound, IsArena

\* The arena has other blocks out: the block goes on the list.
LEMMA PushStep ==
  ASSUME MemoryInv, NEW t \in Threads, free_push(t),
         ~(arena[pc[t].block.page].free_cnt + 1 >= blocks_per_arena(pc[t].desc))
  PROVE  MemoryInv'
<1>1. MemoryType /\ OwnInv /\ DescInv /\ CallInv
  BY DEF MemoryInv
<1>2. PICK b : b = pc[t].block
  OBVIOUS
<1>3. PICK d : d = pc[t].desc
  OBVIOUS
<1>4. /\ d \in descs /\ 0 \notin descs /\ b \in Block /\ b \in Out /\ b.pages = 0 /\ b.page \in Pages
      /\ Cover(b) = {b.page} /\ b = arena_to_block(b.page, b.idx)
      /\ b.idx \in 1 .. blocks_per_arena(d) /\ arena[b.page].desc = d /\ IsArena(b.page)
      /\ used_map[b.page] /\ ~BeingFreed(b.page)
      /\ \A e \in descs : b \notin Range(free_list[e])
      /\ Held(t) = {b} /\ Freed(t) = {}
  <2>1. PushFinds(t, b, d)
    BY <1>2, <1>3, PushFound
  <2> QED BY <2>1 DEF PushFinds
<1>5. /\ arena' \in [Pages -> [desc : descs \cup {0}, free_cnt : Int]]
      /\ \A p \in Pages : p # b.page => arena'[p] = arena[p]
      /\ \A p \in Pages : arena'[p].desc = arena[p].desc
      /\ arena'[b.page].free_cnt = arena[b.page].free_cnt + 1
      /\ UNCHANGED <<used_map, heap>>
  <2>1. PushLeaves(b)
    BY <1>2, PushFound
  <2> QED BY <2>1 DEF PushLeaves
<1>6. PICK q : q = free_list[d]
  OBVIOUS
<1>7. q \in Seq(Block) /\ Once(q) /\ b \notin Range(q)
  BY <1>4, <1>6, ListFacts
<1>8. PICK r : r = <<b>> \o q
  OBVIOUS
<1>9. r \in Seq(Block) /\ Range(r) = Range(q) \cup {b} /\ Once(r)
  BY <1>4, <1>7, <1>8, PushFacts
<1>10. /\ pc[t].op = "push"
       /\ free_list' = [free_list EXCEPT ![d] = r]
       /\ pc' = [pc EXCEPT ![t] = Idle]
       /\ lock' = [lock EXCEPT ![d] = Nobody]
  BY <1>2, <1>3, <1>6, <1>8 DEF free_push
<1>11. /\ free_list \in [descs -> Seq(Block)]
       /\ pc \in [Threads -> [op : Ops, desc : descs \cup {0},
                          block : Block \cup {NoBlock}, old : Block \cup {NoBlock}]]
  BY <1>1 DEF MemoryType
<1>12. /\ free_list' \in [descs -> Seq(Block)] /\ free_list'[d] = r
       /\ \A e \in descs : e # d => free_list'[e] = free_list[e]
  BY <1>4, <1>9, <1>10, <1>11
<1>13. OthersSame(t) /\ pc'[t] = Idle /\ pc'[t].op = "idle" /\ pc'[t].desc = 0
  BY <1>10, <1>11, Constants DEF OthersSame
<1>14. Held(t)' = {} /\ Freed(t)' = {}
  BY <1>13 DEF Held, Freed
<1>15. Out = heap \cup Held(t) \cup Others(t) /\ Out' = heap' \cup Held(t)' \cup Others(t)
  BY <1>13, OutParts, OutStep
<1>16. heap \cap Held(t) = {} /\ (heap \cup Held(t)) \cap Others(t) = {}
  BY <1>1, OwnParts
<1>17. Out' = Out \ {b}
  BY <1>4, <1>5, <1>14, <1>15, <1>16
<1>18. /\ \A u \in Threads : Freed(u)' = Freed(u)
       /\ \A u \in Threads : \A p \in Freed(u) : pc'[u].desc = pc[u].desc
       /\ \A p : BeingFreed(p)' <=> BeingFreed(p)
  <2>1. \A u \in Threads : Freed(u)' = Freed(u)
    BY <1>4, <1>13, <1>14, OutStep
  <2> QED BY <1>4, <1>13, <2>1 DEF OthersSame, BeingFreed
<1>19. \A p \in Pages : IsArena(p)' <=> IsArena(p)
  BY <1>5 DEF IsArena
<1>20. OwnInv'
  <2>1. heap' \cap Held(t)' = {} /\ (heap' \cup Held(t)') \cap Others(t) = {}
    BY <1>5, <1>14, <1>16
  <2> QED BY <1>1, <1>13, <2>1, OwnStep
<1>21. DescInv' /\ lock' \in [descs -> Threads \cup {Nobody}]
  BY <1>1, <1>3, <1>4, <1>10, <1>13, LockReleased
<1>22. MemoryType'
  <2>1. Idle \in [op : Ops, desc : descs \cup {0}, block : Block \cup {NoBlock},
                  old : Block \cup {NoBlock}]
    BY DEF Idle, Ops
  <2>2. pc' \in [Threads -> [op : Ops, desc : descs \cup {0},
                          block : Block \cup {NoBlock}, old : Block \cup {NoBlock}]]
    BY <1>10, <1>11, <2>1
  <2> QED BY <1>1, <1>5, <1>12, <1>21, <2>2 DEF MemoryType
<1>23. CallInv'
  <2>1. CallOk(t)'
    BY <1>13 DEF CallOk
  <2>2. DescsKept(t)
    BY <1>5, PushBlock DEF DescsKept
  <2> QED BY <1>1, <1>13, <2>1, <2>2, CallStep
<1>24. SoundInv'
  BY <1>17, PushSound
<1>25. ApartInv'
  <2>1. \A a, c \in Out' : a # c /\ a.pages # 0 => Cover(a) \cap Cover(c) = {}
    BY <1>17 DEF MemoryInv, ApartInv
  <2>2. \A u \in Threads, c \in Out' : Freed(u)' \cap Cover(c) = {}
    BY <1>17, <1>18 DEF MemoryInv, ApartInv
  <2>3. \A u, v \in Threads : u # v => Freed(u)' \cap Freed(v)' = {}
    BY <1>18 DEF MemoryInv, ApartInv
  <2>4. \A u \in Threads : \A p \in Freed(u) : p \in Pages /\ used_map'[p] /\ arena'[p].desc = pc'[u].desc
    BY <1>5, <1>18 DEF MemoryInv, ApartInv
  <2> QED BY <1>18, <2>1, <2>2, <2>3, <2>4 DEF ApartInv, Cover
<1>26. FreeInv'
  <2> SUFFICES ASSUME NEW e \in descs
               PROVE  /\ Once(free_list'[e])
                      /\ \A x \in Range(free_list'[e]) :
                           /\ x.pages = 0 /\ arena'[x.page].desc = e /\ x.idx \in 1 .. blocks_per_arena(e)
                           /\ x \notin Out' /\ ~BeingFreed(x.page)
    BY <1>18 DEF FreeInv, Once, Range
  <2>1. \A x \in Range(free_list[e]) :
          /\ x.page \in Pages /\ x.pages = 0 /\ arena[x.page].desc = e
          /\ x.idx \in 1 .. blocks_per_arena(e) /\ x \notin Out /\ ~BeingFreed(x.page)
    BY ListFacts DEF MemoryInv, FreeInv
  <2>2. Once(free_list[e])
    BY ListFacts
  <2>3. CASE e # d
    BY <1>5, <1>12, <1>17, <2>1, <2>2, <2>3
  <2>4. CASE e = d
    <3>1. \A x \in Range(q) : x \in Range(free_list[d]) /\ arena'[x.page].desc = d /\ x \notin Out'
      BY <1>5, <1>6, <1>17, <2>1, <2>4
    <3>2. arena'[b.page].desc = d /\ b \notin Out'
      BY <1>4, <1>5, <1>17
    <3> QED BY <1>4, <1>9, <1>12, <2>1, <2>4, <3>1, <3>2
  <2> QED BY <2>3, <2>4
\* Only the arena of the block gains a block on the list.
<1>27. ASSUME NEW p \in Pages, IsArena(p)
       PROVE  /\ \A i : arena_to_block(p, i) \in Range(free_list[arena[p].desc]) \cup Out =>
                          arena_to_block(p, i) \in Range(free_list'[arena[p].desc]) \cup Out'
              /\ p # b.page => FreeIdx(p)' = FreeIdx(p)
              /\ p = b.page => FreeIdx(p)' = FreeIdx(p) \cup {b.idx}
  <2>1. arena'[p].desc = arena[p].desc /\ arena[p].desc \in descs
    BY <1>5, <1>27 DEF IsArena
  <2>2. p # b.page => \A i : arena_to_block(p, i) # b
    BY BlockFacts
  <2>3. CASE arena[p].desc = d
    <3>1. \A i : arena_to_block(p, i) \in Range(free_list'[d]) <=>
                 arena_to_block(p, i) \in Range(free_list[d]) \/ arena_to_block(p, i) = b
      BY <1>6, <1>9, <1>12
    <3>2. \A i : arena_to_block(b.page, i) = b <=> i = b.idx
      BY <1>4, BlockFacts
    <3>3. p # b.page => FreeIdx(p)' = FreeIdx(p)
      BY <2>1, <2>2, <2>3, <3>1 DEF FreeIdx
    <3>4. ASSUME p = b.page PROVE FreeIdx(p)' = FreeIdx(p) \cup {b.idx}
      <4>1. \A i : i \in FreeIdx(p)' <=>
              i \in 1 .. blocks_per_arena(d) /\ arena_to_block(p, i) \in Range(free_list'[d])
        BY <2>1, <2>3 DEF FreeIdx
      <4>2. \A i : i \in FreeIdx(p) <=>
              i \in 1 .. blocks_per_arena(d) /\ arena_to_block(p, i) \in Range(free_list[d])
        BY <2>3 DEF FreeIdx
      <4>3. \A i : i \in FreeIdx(p)' <=> i \in FreeIdx(p) \/ i = b.idx
        BY <1>4, <3>1, <3>2, <3>4, <4>1, <4>2
      <4> QED BY <4>3
    <3>5. \A i : arena_to_block(p, i) \in Out => arena_to_block(p, i) \in Out' \/ arena_to_block(p, i) = b
      BY <1>17
    <3> QED BY <2>3, <3>1, <3>3, <3>4, <3>5
  <2>4. CASE arena[p].desc # d
    <3>1. p # b.page /\ free_list'[arena[p].desc] = free_list[arena[p].desc]
      BY <1>4, <1>12, <2>1, <2>4
    <3>2. FreeIdx(p)' = FreeIdx(p)
      BY <2>1, <3>1 DEF FreeIdx
    <3> QED BY <1>17, <2>2, <3>1, <3>2
  <2> QED BY <2>3, <2>4
<1>28. b.idx \notin FreeIdx(b.page)
  BY <1>4 DEF FreeIdx
<1>29. ArenaInv'
  <2> SUFFICES ASSUME NEW p \in Pages, IsArena(p)
               PROVE  /\ used_map[p]
                      /\ ~BeingFreed(p) =>
                           /\ \A i \in 1 .. blocks_per_arena(arena[p].desc) :
                                arena_to_block(p, i) \in Range(free_list'[arena[p].desc]) \cup Out'
                           /\ Cardinality(FreeIdx(p)') = arena'[p].free_cnt
    BY <1>5, <1>18, <1>19 DEF ArenaInv, arena_to_block
  <2>1. used_map[p]
    BY DEF MemoryInv, ArenaInv
  <2>2. ASSUME ~BeingFreed(p), NEW i \in 1 .. blocks_per_arena(arena[p].desc)
        PROVE  arena_to_block(p, i) \in Range(free_list'[arena[p].desc]) \cup Out'
    <3>1. arena_to_block(p, i) \in Range(free_list[arena[p].desc]) \cup Out
      BY <2>2 DEF MemoryInv, ArenaInv
    <3> QED BY <1>27, <3>1
  <2>3. ASSUME ~BeingFreed(p) PROVE Cardinality(FreeIdx(p)') = arena'[p].free_cnt
    <3>1. IsFiniteSet(FreeIdx(p)) /\ Cardinality(FreeIdx(p)) = arena[p].free_cnt
      BY <2>3, CountBounds
    <3>2. CASE p # b.page
      BY <1>5, <1>27, <3>1, <3>2
    <3>3. CASE p = b.page
      <4>1. Cardinality(FreeIdx(p) \cup {b.idx}) = Cardinality(FreeIdx(p)) + 1
        BY <1>28, <3>1, <3>3, FS_AddElement
      <4> QED BY <1>5, <1>27, <3>1, <3>3, <4>1
    <3> QED BY <3>2, <3>3
  <2> QED BY <2>1, <2>2, <2>3
<1>30. FullInv'
  <2> SUFFICES ASSUME NEW p \in Pages, IsArena(p), arena'[p].free_cnt >= blocks_per_arena(arena[p].desc)
               PROVE  \E u \in Threads :
                      /\ pc'[u].desc = arena[p].desc
                      /\ \/ pc'[u].op = "malloc" /\ \A x \in Range(free_list'[arena[p].desc]) : x.page = p
                         \/ pc'[u].op = "pages" /\ pc'[u].block.page = p
    BY SMTT(20), <1>5, <1>19 DEF FullInv, Range
  <2>1. p # b.page
    BY <1>2, <1>3, <1>4, <1>5
  <2>2. PICK u \in Threads :
          /\ pc[u].desc = arena[p].desc
          /\ \/ pc[u].op = "malloc" /\ \A x \in Range(free_list[arena[p].desc]) : x.page = p
             \/ pc[u].op = "pages" /\ pc[u].block.page = p
    BY <1>5, <2>1 DEF MemoryInv, FullInv
  <2>3. u # t
    BY <1>10, <2>2
  <2>4. arena[p].desc # d /\ arena[p].desc \in descs
    BY <1>1, <1>3, <2>2, <2>3 DEF DescInv, IsArena
  <2>5. pc'[u] = pc[u] /\ free_list'[arena[p].desc] = free_list[arena[p].desc]
    BY <1>12, <1>13, <2>3, <2>4 DEF OthersSame
  <2> QED BY <2>2, <2>5
<1>31. UsedInv'
  <2> SUFFICES ASSUME NEW p \in Pages
               PROVE  /\ used_map[p] => IsArena(p) \/ BeingFreed(p) \/ \E c \in Out' : p \in Cover(c)
                      /\ ~used_map[p] => arena'[p] = NoArena
    BY <1>5, <1>18, <1>19 DEF UsedInv, Cover
  <2>1. CASE p = b.page
    BY <1>4, <2>1
  <2>2. CASE p # b.page
    BY <1>4, <1>5, <1>17, <2>2 DEF MemoryInv, UsedInv
  <2> QED BY <2>1, <2>2
<1> QED BY <1>20, <1>21, <1>22, <1>23, <1>24, <1>25, <1>26, <1>29, <1>30, <1>31 DEF MemoryInv

\* No other block of the arena is out: the arena leaves the list and goes back
\* to the pool.
LEMMA WholeStep ==
  ASSUME MemoryInv, NEW t \in Threads, free_push(t),
         arena[pc[t].block.page].free_cnt + 1 >= blocks_per_arena(pc[t].desc)
  PROVE  MemoryInv'
<1>1. MemoryType /\ OwnInv /\ DescInv /\ CallInv
  BY DEF MemoryInv
<1>2. PICK b : b = pc[t].block
  OBVIOUS
<1>3. PICK d : d = pc[t].desc
  OBVIOUS
<1>4. /\ d \in descs /\ 0 \notin descs /\ b \in Block /\ b \in Out /\ b.pages = 0 /\ b.page \in Pages
      /\ Cover(b) = {b.page} /\ b = arena_to_block(b.page, b.idx)
      /\ b.idx \in 1 .. blocks_per_arena(d) /\ arena[b.page].desc = d /\ IsArena(b.page)
      /\ used_map[b.page] /\ ~BeingFreed(b.page)
      /\ \A e \in descs : b \notin Range(free_list[e])
      /\ \A c \in Out : c.pages # 0 => b.page \notin Cover(c)
      /\ Held(t) = {b} /\ Freed(t) = {}
  <2>1. PushFinds(t, b, d)
    BY <1>2, <1>3, PushFound
  <2> QED BY <2>1 DEF PushFinds
<1>5. /\ arena' \in [Pages -> [desc : descs \cup {0}, free_cnt : Int]]
      /\ \A p \in Pages : p # b.page => arena'[p] = arena[p]
      /\ \A p \in Pages : arena'[p].desc = arena[p].desc
      /\ arena'[b.page].free_cnt = arena[b.page].free_cnt + 1
      /\ UNCHANGED <<used_map, heap>>
  <2>1. PushLeaves(b)
    BY <1>2, PushFound
  <2> QED BY <2>1 DEF PushLeaves
<1>6. PICK q : q = free_list[d]
  OBVIOUS
<1>7. q \in Seq(Block) /\ Once(q) /\ b \notin Range(q)
  BY <1>4, <1>6, ListFacts
<1>8. PICK r : r = without(<<b>> \o q, b.page)
  OBVIOUS
<1>9. r \in Seq(Block) /\ Once(r) /\ \A x : x \in Range(r) <=> x \in Range(q) /\ x.page # b.page
  <2>1. PICK w : w = <<b>> \o q
    OBVIOUS
  <2>2. w \in Seq(Block) /\ Range(w) = Range(q) \cup {b} /\ Once(w)
    BY <1>4, <1>7, <2>1, PushFacts
  <2>3. /\ without(w, b.page) \in Seq(Block) /\ Once(without(w, b.page))
        /\ \A x : x \in Range(without(w, b.page)) <=> x \in Range(w) /\ x.page # b.page
    BY <2>2, WithoutFacts
  <2>4. r = without(w, b.page)
    BY <1>8, <2>1
  <2> QED BY <2>2, <2>3, <2>4
<1>10. /\ pc[t].op = "push"
       /\ free_list' = [free_list EXCEPT ![d] = r]
       /\ pc' = [pc EXCEPT ![t] = [pc[t] EXCEPT !.op = "pages", !.block.pages = 1]]
       /\ lock' = lock
  BY <1>2, <1>3, <1>6, <1>8 DEF free_push
<1>11. /\ free_list \in [descs -> Seq(Block)]
       /\ pc \in [Threads -> [op : Ops, desc : descs \cup {0},
                          block : Block \cup {NoBlock}, old : Block \cup {NoBlock}]]
  BY <1>1 DEF MemoryType
<1>12. /\ free_list' \in [descs -> Seq(Block)] /\ free_list'[d] = r
       /\ \A e \in descs : e # d => free_list'[e] = free_list[e]
  BY <1>4, <1>9, <1>10, <1>11
<1>13. PICK n : n = [b EXCEPT !.pages = 1]
  OBVIOUS
<1>14. n \in Block /\ n.page = b.page /\ n.pages = 1
  BY <1>4, <1>13 DEF Block
<1>15. /\ OthersSame(t)
       /\ pc'[t].op = "pages" /\ pc'[t].desc = d /\ pc'[t].block = n
       /\ pc'[t] \in [op : Ops, desc : descs \cup {0}, block : Block \cup {NoBlock},
                      old : Block \cup {NoBlock}]
  <2>1. OthersSame(t)
    BY <1>10, <1>11 DEF OthersSame
  <2>2. PICK s : s = pc[t]
    OBVIOUS
  <2>3. s \in [op : Ops, desc : descs \cup {0}, block : Block \cup {NoBlock},
               old : Block \cup {NoBlock}] /\ s.block = b /\ s.desc = d
    BY <1>2, <1>3, <1>11, <2>2
  <2>4. pc'[t] = [s EXCEPT !.op = "pages", !.block = n]
    BY <1>2, <1>10, <1>11, <1>13, <2>2
  <2> QED BY <1>14, <2>1, <2>3, <2>4 DEF Ops
<1>16. Held(t)' = {} /\ Freed(t)' = {b.page}
  <2>1. Freed(t)' = b.page .. b.page + 1 - 1
    BY <1>14, <1>15 DEF Freed
  <2>2. b.page \in Nat
    BY <1>4, Constants
  <2>3. b.page .. b.page + 1 - 1 = {b.page}
    BY <2>2
  <2> QED BY <1>15, <2>1, <2>3 DEF Held
<1>17. Out = heap \cup Held(t) \cup Others(t) /\ Out' = heap' \cup Held(t)' \cup Others(t)
  BY <1>15, OutParts, OutStep
<1>18. heap \cap Held(t) = {} /\ (heap \cup Held(t)) \cap Others(t) = {}
  BY <1>1, OwnParts
<1>19. Out' = Out \ {b}
  BY <1>4, <1>5, <1>16, <1>17, <1>18
<1>20. \A u \in Threads : u # t => Freed(u)' = Freed(u) /\ pc'[u] = pc[u] /\ b.page \notin Freed(u)
  BY <1>4, <1>15, OutStep DEF OthersSame, BeingFreed
<1>21. \A p : BeingFreed(p)' <=> BeingFreed(p) \/ p = b.page
  BY <1>4, <1>16, <1>20 DEF BeingFreed
<1>22. \A p \in Pages : IsArena(p)' <=> IsArena(p)
  BY <1>5 DEF IsArena
\* The count says that all the blocks but b are on the list, so none is out.
<1>23. \A c \in Out' : b.page \notin Cover(c)
  <2>1. /\ FreeIdx(b.page) \subseteq 1 .. blocks_per_arena(d) /\ IsFiniteSet(FreeIdx(b.page))
        /\ Cardinality(FreeIdx(b.page)) = arena[b.page].free_cnt /\ arena[b.page].free_cnt \in Nat
    BY <1>4, CountBounds
  <2>2. b.idx \notin FreeIdx(b.page)
    BY <1>4 DEF FreeIdx
  <2>3. PICK A : A = FreeIdx(b.page) \cup {b.idx}
    OBVIOUS
  <2>4. Cardinality(A) = Cardinality(FreeIdx(b.page)) + 1 /\ IsFiniteSet(A)
    <3>1. Cardinality(FreeIdx(b.page) \cup {b.idx}) = Cardinality(FreeIdx(b.page)) + 1
      BY <2>1, <2>2, FS_AddElement
    <3>2. IsFiniteSet(FreeIdx(b.page) \cup {b.idx})
      BY <2>1, FS_AddElement
    <3> QED BY <2>3, <3>1, <3>2
  <2>5. /\ IsFiniteSet(1 .. blocks_per_arena(d)) /\ blocks_per_arena(d) \in Nat
        /\ Cardinality(1 .. blocks_per_arena(d)) = blocks_per_arena(d)
    BY <1>4, IndexCount, Constants
  <2>6. A \subseteq 1 .. blocks_per_arena(d)
    BY <1>4, <2>1, <2>3
  <2>7. Cardinality(A) <= Cardinality(1 .. blocks_per_arena(d))
    BY <2>5, <2>6, FS_Subset
  <2>8. Cardinality(A) >= blocks_per_arena(d)
    BY <1>2, <1>3, <2>1, <2>4
  <2>9. Cardinality(A) = Cardinality(1 .. blocks_per_arena(d))
    BY <2>1, <2>4, <2>5, <2>7, <2>8
  <2>10. A = 1 .. blocks_per_arena(d)
    BY <2>5, <2>6, <2>9, FS_Subset
  <2> SUFFICES ASSUME NEW c \in Out', b.page \in Cover(c) PROVE FALSE
    OBVIOUS
  <2>11. c \in Out /\ c # b /\ c.pages = 0 /\ c \in Block
    BY <1>4, <1>19, BlockFacts
  <2>12. c.page = b.page /\ c = arena_to_block(b.page, c.idx)
    BY <2>11, BlockFacts
  <2>13. c.idx \in 1 .. blocks_per_arena(d)
    BY <1>4, <2>11, <2>12 DEF MemoryInv, SoundInv, Sound
  <2>14. c.idx # b.idx
    BY <1>4, <2>11, <2>12
  <2>15. c.idx \in FreeIdx(b.page)
    BY <2>3, <2>10, <2>13, <2>14
  <2>16. c \in Range(free_list[d])
    BY <1>4, <2>12, <2>15 DEF FreeIdx
  <2> QED BY <1>4, <2>11, <2>16 DEF MemoryInv, FreeInv
<1>24. OwnInv'
  <2>1. heap' \cap Held(t)' = {} /\ (heap' \cup Held(t)') \cap Others(t) = {}
    BY <1>5, <1>16, <1>18
  <2> QED BY <1>1, <1>15, <2>1, OwnStep
<1>25. DescInv'
  BY <1>1, <1>3, <1>10, <1>15, LocksKept
<1>26. MemoryType'
  <2>1. pc' \in [Threads -> [op : Ops, desc : descs \cup {0},
                          block : Block \cup {NoBlock}, old : Block \cup {NoBlock}]]
    BY <1>10, <1>11, <1>15
  <2> QED BY <1>1, <1>5, <1>10, <1>12, <2>1 DEF MemoryType
<1>27. CallInv'
  <2>1. CallOk(t)'
    BY <1>14, <1>15 DEF CallOk
  <2>2. DescsKept(t)
    BY <1>5, PushBlock DEF DescsKept
  <2> QED BY <1>1, <1>15, <2>1, <2>2, CallStep
<1>28. SoundInv'
  BY <1>19, PushSound
<1>29. ApartInv'
  <2>1. \A a, c \in Out' : a # c /\ a.pages # 0 => Cover(a) \cap Cover(c) = {}
    BY <1>19 DEF MemoryInv, ApartInv
  <2>2. \A u \in Threads, c \in Out' : Freed(u)' \cap Cover(c) = {}
    <3>1. \A c \in Out' : Freed(t)' \cap Cover(c) = {}
      BY <1>16, <1>23
    <3>2. \A u \in Threads, c \in Out' : u # t => Freed(u)' \cap Cover(c) = {}
      BY <1>19, <1>20 DEF MemoryInv, ApartInv
    <3> QED BY <3>1, <3>2
  <2>3. \A u, v \in Threads : u # v => Freed(u)' \cap Freed(v)' = {}
    BY <1>16, <1>20 DEF MemoryInv, ApartInv
  <2>4. \A u \in Threads : \A p \in Freed(u)' : p \in Pages /\ used_map'[p] /\ arena'[p].desc = pc'[u].desc
    <3>1. \A u \in Threads : u # t =>
            \A p \in Freed(u) : p \in Pages /\ used_map[p] /\ arena[p].desc = pc[u].desc
      BY DEF MemoryInv, ApartInv
    <3>2. \A p \in Freed(t)' : p \in Pages /\ used_map'[p] /\ arena'[p].desc = pc'[t].desc
      BY <1>4, <1>5, <1>15, <1>16
    <3> QED BY <1>5, <1>20, <3>1, <3>2
  <2> QED BY <2>1, <2>2, <2>3, <2>4 DEF ApartInv, Cover
<1>30. FreeInv'
  <2> SUFFICES ASSUME NEW e \in descs
               PROVE  /\ Once(free_list'[e])
                      /\ \A x \in Range(free_list'[e]) :
                           /\ x.pages = 0 /\ arena'[x.page].desc = e /\ x.idx \in 1 .. blocks_per_arena(e)
                           /\ x \notin Out' /\ ~(BeingFreed(x.page) \/ x.page = b.page)
    BY <1>21 DEF FreeInv, Once, Range
  <2>1. \A x \in Range(free_list[e]) :
          /\ x.page \in Pages /\ x.pages = 0 /\ arena[x.page].desc = e
          /\ x.idx \in 1 .. blocks_per_arena(e) /\ x \notin Out /\ ~BeingFreed(x.page)
    BY ListFacts DEF MemoryInv, FreeInv
  <2>2. Once(free_list[e])
    BY ListFacts
  <2>3. CASE e # d
    BY <1>4, <1>5, <1>12, <1>19, <2>1, <2>2, <2>3
  <2>4. CASE e = d
    BY <1>5, <1>6, <1>9, <1>12, <1>19, <2>1, <2>4
  <2> QED BY <2>3, <2>4
<1>31. ASSUME NEW p \in Pages, IsArena(p), p # b.page
       PROVE  /\ \A i : arena_to_block(p, i) \in Range(free_list'[arena[p].desc]) <=>
                        arena_to_block(p, i) \in Range(free_list[arena[p].desc])
              /\ FreeIdx(p)' = FreeIdx(p)
  <2>1. arena'[p].desc = arena[p].desc /\ arena[p].desc \in descs
    BY <1>5, <1>31 DEF IsArena
  <2>2. \A i : arena_to_block(p, i).page # b.page
    BY <1>31, BlockFacts
  <2>3. \A i : arena_to_block(p, i) \in Range(free_list'[arena[p].desc]) <=>
               arena_to_block(p, i) \in Range(free_list[arena[p].desc])
    <3>1. CASE arena[p].desc = d
      BY <1>6, <1>9, <1>12, <2>2, <3>1
    <3>2. CASE arena[p].desc # d
      BY <1>12, <2>1, <3>2
    <3> QED BY <3>1, <3>2
  <2>4. FreeIdx(p)' = FreeIdx(p)
    BY <2>1, <2>3 DEF FreeIdx
  <2> QED BY <2>3, <2>4
<1>32. ArenaInv'
  <2> SUFFICES ASSUME NEW p \in Pages, IsArena(p)
               PROVE  /\ used_map[p]
                      /\ ~BeingFreed(p) /\ p # b.page =>
                           /\ \A i \in 1 .. blocks_per_arena(arena[p].desc) :
                                arena_to_block(p, i) \in Range(free_list'[arena[p].desc]) \cup Out'
                           /\ Cardinality(FreeIdx(p)') = arena'[p].free_cnt
    BY <1>5, <1>21, <1>22 DEF ArenaInv, arena_to_block
  <2>1. used_map[p]
    BY DEF MemoryInv, ArenaInv
  <2>2. ASSUME ~BeingFreed(p), p # b.page
        PROVE  /\ \A i \in 1 .. blocks_per_arena(arena[p].desc) :
                    arena_to_block(p, i) \in Range(free_list'[arena[p].desc]) \cup Out'
               /\ Cardinality(FreeIdx(p)') = arena'[p].free_cnt
    <3>1. \A i \in 1 .. blocks_per_arena(arena[p].desc) :
            arena_to_block(p, i) \in Range(free_list[arena[p].desc]) \cup Out
      BY <2>2 DEF MemoryInv, ArenaInv
    <3>2. \A i : arena_to_block(p, i) # b
      BY <2>2, BlockFacts
    <3>3. Cardinality(FreeIdx(p)) = arena[p].free_cnt
      BY <2>2 DEF MemoryInv, ArenaInv
    <3> QED BY <1>5, <1>19, <1>31, <2>2, <3>1, <3>2, <3>3
  <2> QED BY <2>1, <2>2
<1>33. FullInv'
  <2> SUFFICES ASSUME NEW p \in Pages, IsArena(p), arena'[p].free_cnt >= blocks_per_arena(arena[p].desc)
               PROVE  \E u \in Threads :
                      /\ pc'[u].desc = arena[p].desc
                      /\ \/ pc'[u].op = "malloc" /\ \A x \in Range(free_list'[arena[p].desc]) : x.page = p
                         \/ pc'[u].op = "pages" /\ pc'[u].block.page = p
    BY SMTT(20), <1>5, <1>22 DEF FullInv, Range
  <2>1. CASE p = b.page
    BY <1>4, <1>14, <1>15, <2>1
  <2>2. CASE p # b.page
    <3>1. PICK u \in Threads :
            /\ pc[u].desc = arena[p].desc
            /\ \/ pc[u].op = "malloc" /\ \A x \in Range(free_list[arena[p].desc]) : x.page = p
               \/ pc[u].op = "pages" /\ pc[u].block.page = p
      BY <1>5, <2>2 DEF MemoryInv, FullInv
    <3>2. u # t
      BY <1>10, <3>1
    <3>3. arena[p].desc # d /\ arena[p].desc \in descs
      BY <1>1, <1>3, <3>1, <3>2 DEF DescInv, IsArena
    <3>4. pc'[u] = pc[u] /\ free_list'[arena[p].desc] = free_list[arena[p].desc]
      BY <1>12, <1>15, <3>2, <3>3 DEF OthersSame
    <3> QED BY <3>1, <3>4
  <2> QED BY <2>1, <2>2
<1>34. UsedInv'
  <2> SUFFICES ASSUME NEW p \in Pages
               PROVE  /\ used_map[p] => IsArena(p) \/ BeingFreed(p) \/ \E c \in Out' : p \in Cover(c)
                      /\ ~used_map[p] => arena'[p] = NoArena
    BY <1>5, <1>21, <1>22 DEF UsedInv, Cover
  <2>1. CASE p = b.page
    BY <1>4, <2>1
  <2>2. CASE p # b.page
    BY <1>4, <1>5, <1>19, <2>2 DEF MemoryInv, UsedInv
  <2> QED BY <2>1, <2>2
<1> QED BY <1>24, <1>25, <1>26, <1>27, <1>28, <1>29, <1>30, <1>32, <1>33, <1>34 DEF MemoryInv

-----------------------------------------------------------------------------
(* The specification.                                                      *)

LEMMA MemoryUnchanged ==
  ASSUME MemoryInv, UNCHANGED vars
  PROVE  MemoryInv'
<1>1. UNCHANGED <<used_map, arena, free_list, lock, pc, heap>>
  BY DEF vars
<1>2. /\ Out' = Out /\ FreedKept
  BY <1>1 DEF Out, Held, FreedKept, Freed
<1>3. SoundInv' /\ ApartInv' /\ FreeInv' /\ ArenaInv' /\ UsedInv'
  BY <1>1, <1>2, Moved
<1>4. MemoryType' /\ CallInv' /\ DescInv'
  BY <1>1 DEF MemoryInv, MemoryType, CallInv, CallOk, DescInv
<1>5. OwnInv'
  BY <1>1 DEF MemoryInv, OwnInv, Held
<1>6. FullInv'
  BY <1>1 DEF MemoryInv, FullInv, IsArena
<1> QED BY <1>3, <1>4, <1>5, <1>6 DEF MemoryInv

LEMMA MemoryNext ==
  ASSUME MemoryInv, Next
  PROVE  MemoryInv'
<1>1. PICK t \in Threads :
        \/ \E size \in Sizes, old \in heap \cup {NoBlock} :
             malloc_big(t, size, old) \/ malloc(t, size, old)
        \/ \E b \in heap : free(t, b)
        \/ Step(t)
  BY DEF Next
<1>2. ASSUME NEW size \in Sizes, NEW old \in heap \cup {NoBlock}, malloc_big(t, size, old)
      PROVE  MemoryInv'
  <2>1. CASE NoPages(page_cnt(size))
    <3>1. UNCHANGED vars
      BY <1>2, <2>1 DEF malloc_big, vars
    <3> QED BY <3>1, MemoryUnchanged
  <2>2. CASE ~NoPages(page_cnt(size))
    BY <1>2, <2>2, MallocBigStep
  <2> QED BY <2>1, <2>2
<1>3. ASSUME NEW size \in Sizes, NEW old \in heap \cup {NoBlock}, malloc(t, size, old)
      PROVE  MemoryInv'
  BY <1>3, MallocStep
<1>4. ASSUME NEW b \in heap, free(t, b) PROVE MemoryInv'
  BY <1>4, FreeStep
<1>5. CASE malloc_arena(t)
  BY <1>5, NoArenaStep, NewArenaStep
<1>6. CASE malloc_pop(t)
  BY <1>6, PopStep
<1>7. CASE free_begin(t)
  BY <1>7, FreeBeginSmall, FreeBeginBig
<1>8. CASE free_push(t)
  BY <1>8, PushStep, WholeStep
<1>9. CASE palloc_free_multiple(t)
  BY <1>9, PagesStep
<1> QED BY <1>1, <1>2, <1>3, <1>4, <1>5, <1>6, <1>7, <1>8, <1>9 DEF Step

\* The inductive invariant of the allocators holds in every run of the kernel's
\* parts: the other parts leave the allocators alone.
THEOREM MemoryInvariant == KSpec => []MemoryInv
<1>1. KInit => MemoryInv
  BY MemoryInitial DEF KInit
<1>2. MemoryInv /\ [KNext]_allVars => MemoryInv'
  <2> SUFFICES ASSUME MemoryInv, [KNext]_allVars PROVE MemoryInv'
    OBVIOUS
  <2>1. Next \/ UNCHANGED vars
    BY DEF KNext, allVars
  <2> QED BY <2>1, MemoryNext, MemoryUnchanged
<1> QED BY <1>1, <1>2, PTL DEF KSpec

\* malloc, realloc and free never give two callers the same memory: a block in
\* use is on no free list, its pages are taken from the pool, its arena is of
\* its kind, and the pages of a big block are its own, however the calls of any
\* number of threads interleave.
THEOREM BlocksDisjoint == KSpec => []HeapDisjoint
  BY MemoryInvariant, DisjointHolds, PTL

\* The allocators lose no block and no page: an arena whose descriptor nobody
\* has locked counts its free blocks exactly and has a block out, and while no
\* call is under way a page is taken from the pool exactly when a block in use
\* lies in it.
THEOREM NothingLost == KSpec => []ArenasAccounted
  BY MemoryInvariant, AccountedHolds, PTL

-----------------------------------------------------------------------------
(* The feedback scheduler: numbers.                                        *)

LEMMA DivFacts ==
  ASSUME NEW n \in Nat, n > 0
  PROVE  /\ \A x \in Int : M!div(x, n) \in Int
         /\ \A x \in Nat : M!div(x, n) = x \div n /\ M!div(x, n) \in Nat
         /\ \A x, y \in Int : x <= y => M!div(x, n) <= M!div(y, n)
<1>1. \A x \in Nat : x \div n \in Nat
  OBVIOUS
<1>2. \A x, y \in Nat : x <= y => x \div n <= y \div n
  OBVIOUS
<1>3. \A x \in Int : x >= 0 => M!div(x, n) = x \div n /\ x \in Nat
  BY DEF M!div
<1>4. \A x \in Int : ~(x >= 0) => M!div(x, n) = -((-x) \div n) /\ -x \in Nat
  BY DEF M!div
<1>5. \A x \in Int : M!div(x, n) \in Int /\ (x >= 0 => M!div(x, n) >= 0) /\ (~(x >= 0) => M!div(x, n) <= 0)
  BY <1>1, <1>3, <1>4
<1>6. ASSUME NEW x \in Int, NEW y \in Int, x <= y PROVE M!div(x, n) <= M!div(y, n)
  <2>1. CASE x >= 0
    <3>1. y >= 0 /\ x \in Nat /\ y \in Nat
      BY <1>6, <2>1
    <3>2. x \div n <= y \div n
      BY <1>2, <1>6, <3>1
    <3> QED BY <1>3, <2>1, <3>1, <3>2
  <2>2. CASE ~(x >= 0) /\ y >= 0
    BY <1>5, <2>2
  <2>3. CASE ~(y >= 0)
    <3>1. ~(x >= 0) /\ -y <= -x
      BY <1>6, <2>3
    <3>2. (-y) \div n <= (-x) \div n /\ (-y) \div n \in Nat /\ (-x) \div n \in Nat
      BY <1>1, <1>2, <1>4, <2>3, <3>1
    <3> QED BY <1>4, <2>3, <3>1, <3>2
  <2> QED BY <2>1, <2>2, <2>3
<1> QED BY <1>1, <1>3, <1>5, <1>6

\* Rounding to the nearest number keeps the order, across zero too.
LEMMA RoundFacts ==
  /\ \A x \in Int : M!fp_to_int_round(x) \in Int
  /\ \A x, y \in Int : x <= y => M!fp_to_int_round(x) <= M!fp_to_int_round(y)
<1>1. F \in Nat /\ F > 0
  BY MlfqsAssumption
<1>2. PICK h \in Nat : h = F \div 2
  BY <1>1
<1>3. /\ \A x \in Int : M!div(x, F) \in Int
      /\ \A x, y \in Int : x <= y => M!div(x, F) <= M!div(y, F)
  BY <1>1, DivFacts
<1>4. \A x \in Int : M!fp_to_int_round(x) = IF x >= 0 THEN M!div(x + h, F) ELSE M!div(x - h, F)
  BY <1>2 DEF M!fp_to_int_round
<1>5. \A x \in Int : x + h \in Int /\ x - h \in Int
  OBVIOUS
<1>6. \A x \in Int : M!fp_to_int_round(x) \in Int
  BY <1>3, <1>4, <1>5
<1>7. ASSUME NEW x \in Int, NEW y \in Int, x <= y
      PROVE  M!fp_to_int_round(x) <= M!fp_to_int_round(y)
  <2>1. CASE x >= 0
    <3>1. y >= 0 /\ x + h <= y + h
      BY <1>7, <2>1
    <3> QED BY <1>3, <1>4, <1>5, <2>1, <3>1
  <2>2. CASE ~(x >= 0) /\ y >= 0
    <3>1. x - h <= y + h
      BY <1>7
    <3> QED BY <1>3, <1>4, <1>5, <2>2, <3>1
  <2>3. CASE ~(x >= 0) /\ ~(y >= 0)
    <3>1. x - h <= y - h
      BY <1>7
    <3> QED BY <1>3, <1>4, <1>5, <2>3, <3>1
  <2> QED BY <1>7, <2>1, <2>2, <2>3
<1> QED BY <1>6, <1>7

\* More CPU and more niceness never raise a priority.
LEMMA PriorityFacts ==
  /\ \A x, n \in Int : M!priority_of(x, n) \in Int
  /\ \A x, y, m, n \in Int : x <= y /\ m <= n => M!priority_of(x, m) >= M!priority_of(y, n)
<1>1. \A x \in Int : M!div(x, 4) \in Int
  BY DivFacts
<1>2. \A x, y \in Int : x <= y => M!div(x, 4) <= M!div(y, 4)
  <2>1. PICK k \in Nat : k = 4 /\ k > 0
    OBVIOUS
  <2>2. \A x, y \in Int : x <= y => M!div(x, k) <= M!div(y, k)
    BY <2>1, DivFacts
  <2> QED BY <2>1, <2>2
<1>3. \A x, n \in Int : M!priority_of(x, n) =
        LET p == 63 - M!fp_to_int_round(M!div(x, 4)) - n * 2
        IN IF p > 63 THEN 63 ELSE IF p < 0 THEN 0 ELSE p
  BY DEF M!priority_of, M!PRI_MAX, M!PRI_MIN
<1>4. \A x \in Int : M!fp_to_int_round(M!div(x, 4)) \in Int
  BY <1>1, RoundFacts
<1>5. \A x, y \in Int : x <= y => M!fp_to_int_round(M!div(x, 4)) <= M!fp_to_int_round(M!div(y, 4))
  BY <1>1, <1>2, RoundFacts
<1>6. \A x, n \in Int : M!priority_of(x, n) \in Int
  BY <1>3, <1>4
<1>7. ASSUME NEW x \in Int, NEW y \in Int, NEW m \in Int, NEW n \in Int, x <= y, m <= n
      PROVE  M!priority_of(x, m) >= M!priority_of(y, n)
  <2>1. PICK a \in Int : a = M!fp_to_int_round(M!div(x, 4))
    BY <1>4
  <2>2. PICK b \in Int : b = M!fp_to_int_round(M!div(y, 4))
    BY <1>4
  <2>3. a <= b
    BY <1>5, <1>7, <2>1, <2>2
  <2>4. PICK p \in Int : p = 63 - a - m * 2
    OBVIOUS
  <2>5. PICK q \in Int : q = 63 - b - n * 2
    OBVIOUS
  <2>6. q <= p
    BY <1>7, <2>3, <2>4, <2>5
  <2>7. M!priority_of(x, m) = IF p > 63 THEN 63 ELSE IF p < 0 THEN 0 ELSE p
    BY <1>3, <2>1, <2>4
  <2>8. M!priority_of(y, n) = IF q > 63 THEN 63 ELSE IF q < 0 THEN 0 ELSE q
    BY <1>3, <2>2, <2>5
  <2> QED BY <2>6, <2>7, <2>8
<1> QED BY <1>6, <1>7

\* load_avg stays below the number of threads.
LEMMA LoadFacts ==
  ASSUME NEW n \in Nat, NEW load \in 0 .. M!int_to_fp(n), NEW r \in Nat, r <= n
  PROVE  M!new_load_avg(load, r) \in 0 .. M!int_to_fp(n)
<1>1. F \in Nat /\ F > 0
  BY MlfqsAssumption
<1>2. PICK m \in Nat : m = n * F /\ m = M!int_to_fp(n)
  BY <1>1 DEF M!int_to_fp
<1>3. load \in Nat /\ load <= m
  BY <1>2
<1>4. M!div(load * 59, 60) = (load * 59) \div 60 /\ M!int_to_fp(1) = F /\ M!div(F, 60) = F \div 60
  BY <1>1, <1>3 DEF M!div, M!int_to_fp
<1>5. PICK q \in Nat : q = F \div 60 /\ 60 * q <= F
  BY <1>1
<1>6. PICK x \in Nat : x = q * r
  BY <1>5
<1>7. 60 * x <= m
  <2>1. (60 * q) * r <= F * r
    BY <1>1, <1>5
  <2>2. 60 * (q * r) = (60 * q) * r
    BY <1>5
  <2>3. F * r <= F * n
    BY <1>1
  <2>4. F * n = n * F
    BY <1>1
  <2>5. PICK a \in Int, b \in Int : a = (60 * q) * r /\ b = F * r
    BY <1>1, <1>5
  <2>6. 60 * x = a /\ a <= b /\ b <= m
    BY <1>2, <1>6, <2>1, <2>2, <2>3, <2>4, <2>5
  <2> QED BY <1>6, <2>5, <2>6
<1>8. (load * 59) \div 60 + x \in 0 .. m
  BY <1>3, <1>7
<1>9. M!new_load_avg(load, r) = (load * 59) \div 60 + x
  BY <1>4, <1>5, <1>6 DEF M!new_load_avg
<1> QED BY <1>2, <1>8, <1>9

\* The decay of recent_cpu does not divide by zero.
LEMMA DecayFacts ==
  ASSUME NEW load \in Nat, NEW cpu \in Int, NEW n \in Int
  PROVE  M!decayed(load, cpu, n) \in Int
<1>1. F \in Nat /\ F > 0
  BY MlfqsAssumption
<1>2. PICK l \in Nat : l = 2 * load
  OBVIOUS
<1>3. PICK y \in Nat : y = l + M!int_to_fp(1) /\ y > 0
  BY <1>1, <1>2 DEF M!int_to_fp
<1>4. l * F \in Int
  BY <1>1, <1>2
<1>5. M!div(l * F, y) \in Int
  BY <1>3, <1>4, DivFacts
<1>6. PICK z \in Int : z = M!div(l * F, y)
  BY <1>5
<1>7. z * cpu \in Int
  BY <1>6
<1>8. M!div(z * cpu, F) \in Int
  BY <1>1, <1>7, DivFacts
<1>9. n * F \in Int
  BY <1>1
<1>10. M!decayed(load, cpu, n) = M!div(z * cpu, F) + n * F
  BY <1>2, <1>3, <1>6 DEF M!decayed, M!mul_fp, M!div_fp, M!int_to_fp
<1> QED BY <1>8, <1>9, <1>10

-----------------------------------------------------------------------------
(* The feedback scheduler: the invariant.                                  *)

\* At a multiple of four ticks the priority of a thread that nothing else has
\* written is that of its recent_cpu.
Judged == \A t \in MThreads \ touched : priority[t] = M!priority_of(recent_cpu[t], nice[t])

\* A priority that thread_set_nice is about to store, computed since the last tick.
Fresh == \A t \in MThreads : local[t].op = "store" /\ local[t].at = ticks =>
           local[t].p = M!priority_of(recent_cpu[t], nice[t])

\* The locals of a call that nothing but a later tick makes stale.
LocalType == /\ local \in [MThreads -> [op : {"none", "nice", "store"}, p : Int, at : Nat]]
             /\ \A t \in MThreads : local[t].at <= ticks

MlfqsInv ==
  /\ ticks \in Nat /\ cur \in MThreads \cup {M!idle_thread}
  /\ nice \in [MThreads -> Int] /\ recent_cpu \in [MThreads -> Int]
  /\ priority \in [MThreads -> Int]
  /\ load_avg \in 0 .. M!int_to_fp(Cardinality(MThreads))
  /\ LocalType /\ Fresh
  /\ ticks > 0 /\ ticks % 4 = 0 => Judged

\* The instance of the feedback scheduler counts as this module does.
LEMMA SameCount ==
  ASSUME NEW S
  PROVE  M!Cardinality(S) = Cardinality(S)
  BY Zenon DEF M!Cardinality, Cardinality

LEMMA TickStep ==
  ASSUME MlfqsInv, NEW ready \in SUBSET (MThreads \ {cur}), M!mlfqs_on_tick(ready)
  PROVE  MlfqsInv'
<1> DEFINE now == ticks + 1
           used == IF cur = M!idle_thread THEN recent_cpu
                   ELSE [recent_cpu EXCEPT ![cur] = recent_cpu[cur] + M!int_to_fp(1)]
           r == M!Cardinality(ready \cup ({cur} \ {M!idle_thread}))
           load == M!new_load_avg(load_avg, r)
<1>1. /\ ticks' = now
      /\ load_avg' = IF now % TIMER_FREQ = 0 THEN load ELSE load_avg
      /\ recent_cpu' = IF now % TIMER_FREQ = 0
                       THEN [t \in MThreads |-> M!decayed(load, used[t], nice[t])] ELSE used
      /\ priority' = IF now % 4 = 0
                     THEN [t \in MThreads |-> M!priority_of(recent_cpu'[t], nice[t])] ELSE priority
      /\ touched' = IF now % 4 = 0 THEN {} ELSE touched
      /\ UNCHANGED <<cur, nice, local>>
  BY Zenon DEF M!mlfqs_on_tick
<1>2. /\ ticks \in Nat /\ cur \in MThreads \cup {M!idle_thread}
      /\ nice \in [MThreads -> Int] /\ recent_cpu \in [MThreads -> Int]
      /\ priority \in [MThreads -> Int]
      /\ load_avg \in 0 .. M!int_to_fp(Cardinality(MThreads))
  BY DEF MlfqsInv
<1>3. used \in [MThreads -> Int]
  <2>1. M!int_to_fp(1) \in Int
    BY MlfqsAssumption DEF M!int_to_fp
  <2> QED BY <1>2, <2>1
<1>4. r \in Nat /\ Cardinality(MThreads) \in Nat /\ r <= Cardinality(MThreads)
  <2>1. IsFiniteSet(MThreads) /\ ready \cup ({cur} \ {M!idle_thread}) \subseteq MThreads
    BY <1>2, MlfqsAssumption
  <2>2. PICK S : S = ready \cup ({cur} \ {M!idle_thread})
    OBVIOUS
  <2>3. IsFiniteSet(S) /\ Cardinality(S) <= Cardinality(MThreads)
    BY <2>1, <2>2, FS_Subset
  <2>4. Cardinality(S) \in Nat /\ Cardinality(MThreads) \in Nat
    BY <2>1, <2>3, FS_CardinalityType
  <2>5. r = Cardinality(S)
    BY <2>2, SameCount
  <2> QED BY <2>3, <2>4, <2>5
<1> HIDE DEF r, used
<1>5. load \in 0 .. M!int_to_fp(Cardinality(MThreads))
  BY <1>2, <1>4, LoadFacts
<1>6. load \in Nat
  <2>1. M!int_to_fp(Cardinality(MThreads)) \in Int
    BY <1>4, MlfqsAssumption DEF M!int_to_fp
  <2> QED BY <1>5, <2>1
<1> HIDE DEF load
<1>7. recent_cpu' \in [MThreads -> Int]
  <2>1. \A t \in MThreads : M!decayed(load, used[t], nice[t]) \in Int
    BY <1>2, <1>3, <1>6, DecayFacts
  <2> QED BY <1>1, <1>3, <2>1
<1>8. priority' \in [MThreads -> Int]
  <2>1. \A t \in MThreads : M!priority_of(recent_cpu'[t], nice[t]) \in Int
    BY <1>2, <1>7, PriorityFacts
  <2> QED BY <1>1, <1>2, <2>1
<1>9. ticks' \in Nat /\ load_avg' \in 0 .. M!int_to_fp(Cardinality(MThreads))
  BY <1>1, <1>2, <1>5
<1>10. ticks' % 4 = 0 => Judged'
  BY <1>1 DEF Judged
<1>11. LocalType' /\ Fresh'
  <2>1. LocalType
    BY DEF MlfqsInv
  <2>2. \A t \in MThreads : local[t].at \in Nat /\ local[t].at < ticks'
    BY <1>1, <1>2, <2>1 DEF LocalType
  <2>3. LocalType'
    BY <1>1, <1>2, <2>1, <2>2 DEF LocalType
  <2>4. Fresh'
    BY <1>1, <1>2, <2>2 DEF Fresh
  <2> QED BY <2>3, <2>4
<1> QED BY <1>1, <1>2, <1>7, <1>8, <1>9, <1>10, <1>11 DEF MlfqsInv

\* thread_set_nice: the thread counts as not judged until it has stored.
LEMMA NiceStep ==
  ASSUME MlfqsInv, NEW n \in Nices, M!thread_set_nice(n)
  PROVE  MlfqsInv'
<1>1. /\ cur # M!idle_thread /\ local[cur] = M!NoCall
      /\ nice' = [nice EXCEPT ![cur] = n]
      /\ local' = [local EXCEPT ![cur].op = "nice"]
      /\ touched' = touched \cup {cur}
      /\ UNCHANGED <<ticks, cur, recent_cpu, load_avg, priority>>
  BY DEF M!thread_set_nice
<1>2. /\ cur \in MThreads /\ n \in Int
      /\ nice \in [MThreads -> Int] /\ LocalType
  BY <1>1, MlfqsAssumption DEF MlfqsInv
<1>3. nice' \in [MThreads -> Int] /\ \A t \in MThreads \ {cur} : nice'[t] = nice[t]
  BY <1>1, <1>2
<1>4. /\ local'[cur].op = "nice" /\ local'[cur].at = local[cur].at
      /\ \A t \in MThreads \ {cur} : local'[t] = local[t]
  BY <1>1, <1>2 DEF LocalType
<1>5. LocalType'
  BY <1>1, <1>2, <1>4 DEF LocalType
<1>6. Fresh'
  BY <1>1, <1>3, <1>4 DEF MlfqsInv, Fresh
<1>7. Judged => Judged'
  BY <1>1, <1>3 DEF Judged
<1> QED BY <1>1, <1>3, <1>5, <1>6, <1>7 DEF MlfqsInv

\* update_priority computes from what the last tick left.
LEMMA ComputeStep ==
  ASSUME MlfqsInv, M!update_priority
  PROVE  MlfqsInv'
<1>1. /\ cur # M!idle_thread
      /\ local' = [local EXCEPT ![cur] = [op |-> "store", at |-> ticks,
                                          p |-> M!priority_of(recent_cpu[cur], nice[cur])]]
      /\ UNCHANGED <<ticks, cur, nice, recent_cpu, load_avg, priority, touched>>
  BY DEF M!update_priority
<1>2. /\ cur \in MThreads /\ ticks \in Nat
      /\ nice \in [MThreads -> Int] /\ recent_cpu \in [MThreads -> Int] /\ LocalType
  BY <1>1 DEF MlfqsInv
<1>3. M!priority_of(recent_cpu[cur], nice[cur]) \in Int
  BY <1>2, PriorityFacts
<1>4. PICK q \in Int : q = M!priority_of(recent_cpu[cur], nice[cur])
  BY <1>3
<1>5. /\ local'[cur] = [op |-> "store", at |-> ticks, p |-> q]
      /\ \A t \in MThreads \ {cur} : local'[t] = local[t]
  BY <1>1, <1>2, <1>4 DEF LocalType
<1>6. LocalType'
  BY <1>1, <1>2, <1>4, <1>5 DEF LocalType
<1>7. Fresh'
  BY <1>1, <1>4, <1>5 DEF MlfqsInv, Fresh
<1>8. Judged => Judged'
  BY <1>1 DEF Judged
<1> QED BY <1>1, <1>6, <1>7, <1>8 DEF MlfqsInv

\* The store judges the thread anew, unless a tick has come between.
LEMMA StoreStep ==
  ASSUME MlfqsInv, M!update_store
  PROVE  MlfqsInv'
<1>1. /\ cur # M!idle_thread /\ local[cur].op = "store"
      /\ priority' = [priority EXCEPT ![cur] = local[cur].p]
      /\ touched' = IF local[cur].at = ticks THEN touched \ {cur} ELSE touched \cup {cur}
      /\ local' = [local EXCEPT ![cur] = M!NoCall]
      /\ UNCHANGED <<ticks, cur, nice, recent_cpu, load_avg>>
  BY DEF M!update_store
<1>2. cur \in MThreads /\ ticks \in Nat /\ priority \in [MThreads -> Int] /\ LocalType /\ Fresh
  BY <1>1 DEF MlfqsInv
<1>3. local[cur].p \in Int
  BY <1>2 DEF LocalType
<1>4. /\ priority' \in [MThreads -> Int] /\ priority'[cur] = local[cur].p
      /\ \A t \in MThreads \ {cur} : priority'[t] = priority[t]
  BY <1>1, <1>2, <1>3
<1>5. /\ local'[cur] = [op |-> "none", p |-> 0, at |-> 0]
      /\ \A t \in MThreads \ {cur} : local'[t] = local[t]
  BY <1>1, <1>2 DEF LocalType, M!NoCall
<1>6. LocalType'
  BY <1>1, <1>2, <1>5 DEF LocalType
<1>7. Fresh'
  BY <1>1, <1>2, <1>5 DEF Fresh
<1>8. Judged => Judged'
  <2> SUFFICES ASSUME Judged, NEW t \in MThreads, t \notin touched'
               PROVE  priority'[t] = M!priority_of(recent_cpu[t], nice[t])
    BY <1>1 DEF Judged
  <2>1. CASE t = cur
    <3>1. local[cur].at = ticks
      BY <1>1, <2>1
    <3> QED BY <1>1, <1>2, <1>4, <2>1, <3>1 DEF Fresh
  <2>2. CASE t # cur
    BY <1>1, <1>4, <2>2 DEF Judged
  <2> QED BY <2>1, <2>2
<1> QED BY <1>1, <1>4, <1>6, <1>7, <1>8 DEF MlfqsInv

\* A lock writes one priority, and that thread is not judged any more.
LEMMA LockStep ==
  ASSUME MlfqsInv, NEW t \in MThreads, NEW q \in Int,
         priority' = [priority EXCEPT ![t] = q], touched' = touched \cup {t},
         UNCHANGED <<ticks, cur, nice, recent_cpu, load_avg, local>>
  PROVE  MlfqsInv'
<1>1. priority \in [MThreads -> Int]
  BY DEF MlfqsInv
<1>2. priority' \in [MThreads -> Int] /\ \A u \in MThreads \ {t} : priority'[u] = priority[u]
  BY <1>1
<1>3. Judged => Judged'
  BY <1>2 DEF Judged
<1>4. LocalType' /\ Fresh'
  BY DEF MlfqsInv, LocalType, Fresh
<1> QED BY <1>2, <1>3, <1>4 DEF MlfqsInv

\* The order of the priorities follows from the invariant.
LEMMA OrderHolds == MlfqsInv => CpuLowersPriority
<1> SUFFICES ASSUME MlfqsInv PROVE M!CpuLowersPriority
  BY DEF CpuLowersPriority
<1>1. /\ nice \in [MThreads -> Int] /\ recent_cpu \in [MThreads -> Int]
      /\ load_avg \in 0 .. M!int_to_fp(Cardinality(MThreads))
  BY DEF MlfqsInv
<1>2. ASSUME Judged, NEW t \in MThreads \ touched, NEW u \in MThreads \ touched,
             recent_cpu[t] <= recent_cpu[u], nice[t] <= nice[u]
      PROVE  priority[t] >= priority[u]
  <2>1. M!priority_of(recent_cpu[t], nice[t]) >= M!priority_of(recent_cpu[u], nice[u])
    BY <1>1, <1>2, PriorityFacts
  <2> QED BY <1>2, <2>1 DEF Judged
<1>3. ticks > 0 /\ ticks % 4 = 0 => Judged
  BY DEF MlfqsInv
<1>4. ticks > 0 /\ ticks % 4 = 0 => \A t, u \in MThreads \ touched :
        M!LessCpu(t, u) => priority[t] >= priority[u]
  BY <1>2, <1>3 DEF M!LessCpu
<1> QED BY <1>1, <1>4, SameCount, Zenon DEF M!CpuLowersPriority

\* After a tick that recomputes the priorities, of two threads that the
\* feedback scheduler has judged since, that is, whose priority no lock and no
\* stale store of thread_set_nice has written, the one that used no more CPU and
\* is no nicer has at least the other's priority; and load_avg lies between 0
\* and the number of threads: for any number of threads, any nice values, any
\* scale of the fixed point and any timer frequency.
THEOREM CpuOrdersPriorities == KSpec => []CpuLowersPriority
<1>1. KInit => MlfqsInv
  <2> SUFFICES ASSUME KInit PROVE MlfqsInv
    OBVIOUS
  <2>1. M!MInit
    BY DEF KInit
  <2>2. Cardinality(MThreads) \in Nat
    BY MlfqsAssumption, FS_CardinalityType
  <2>3. 0 \in 0 .. M!int_to_fp(Cardinality(MThreads))
    BY <2>2, MlfqsAssumption DEF M!int_to_fp
  <2>4. LocalType /\ Fresh
    BY <2>1 DEF M!MInit, M!NoCall, LocalType, Fresh
  <2> QED BY <2>1, <2>3, <2>4 DEF M!MInit, MlfqsInv, M!PRI_DEFAULT
<1>2. MlfqsInv /\ [KNext]_allVars => MlfqsInv'
  <2> SUFFICES ASSUME MlfqsInv, [KNext]_allVars PROVE MlfqsInv'
    OBVIOUS
  <2>1. ASSUME UNCHANGED mlfqsVars PROVE MlfqsInv'
    BY <2>1 DEF mlfqsVars, MlfqsInv, Judged, LocalType, Fresh
  <2>2. ASSUME M!MNext PROVE MlfqsInv'
    <3>1. ASSUME NEW ready \in SUBSET (MThreads \ {cur}), M!mlfqs_on_tick(ready) PROVE MlfqsInv'
      BY <3>1, TickStep
    <3>2. ASSUME NEW t \in MThreads \cup {M!idle_thread}, M!dispatch(t) PROVE MlfqsInv'
      BY <3>2 DEF M!dispatch, MlfqsInv, Judged, LocalType, Fresh
    <3>3. ASSUME NEW n \in Nices, M!thread_set_nice(n) PROVE MlfqsInv'
      BY <3>3, NiceStep
    <3>4. ASSUME M!update_priority PROVE MlfqsInv'
      BY <3>4, ComputeStep
    <3>5. ASSUME M!update_store PROVE MlfqsInv'
      BY <3>5, StoreStep
    <3>6. ASSUME NEW t \in MThreads, M!lock_acquire(t) PROVE MlfqsInv'
      <4>1. /\ cur # M!idle_thread /\ priority' = [priority EXCEPT ![t] = priority[cur]]
            /\ touched' = touched \cup {t} /\ UNCHANGED <<ticks, cur, nice, recent_cpu, load_avg, local>>
        BY <3>6 DEF M!lock_acquire
      <4>2. priority[cur] \in Int
        BY <4>1 DEF MlfqsInv
      <4> QED BY <4>1, <4>2, LockStep
    <3>7. ASSUME NEW q \in M!PRI_MIN .. M!PRI_MAX, M!lock_release(q) PROVE MlfqsInv'
      <4>1. /\ cur # M!idle_thread /\ priority' = [priority EXCEPT ![cur] = q]
            /\ touched' = touched \cup {cur} /\ UNCHANGED <<ticks, cur, nice, recent_cpu, load_avg, local>>
        BY <3>7 DEF M!lock_release
      <4>2. q \in Int /\ cur \in MThreads
        BY <4>1 DEF MlfqsInv, M!PRI_MIN, M!PRI_MAX
      <4> QED BY <4>1, <4>2, LockStep
    <3> QED BY <2>2, <3>1, <3>2, <3>3, <3>4, <3>5, <3>6, <3>7 DEF M!MNext
  <2>3. M!MNext \/ UNCHANGED mlfqsVars
    BY DEF KNext, allVars
  <2> QED BY <2>1, <2>2, <2>3
<1> QED BY <1>1, <1>2, OrderHolds, PTL DEF KSpec

-----------------------------------------------------------------------------
(* The page tables.                                                        *)

Entry == [page : Pool \cup UserFrames \cup {0}, present : BOOLEAN]
TableRec == [Indices -> Entry]

(***************************************************************************)
(* lev says what each page is: 0 free, 1 a pml4, 2 to 4 the tables below   *)
(* it.  A present entry of a table above the last level leads one level    *)
(* down, and no two lead to the same page.  Only the tables in E may be    *)
(* without entries: those a walk has just added.                           *)
(***************************************************************************)
Links(lev, tab) ==
  /\ \A t \in Pool, i \in Indices : lev[t] \in 1 .. 3 /\ tab[t][i].present =>
       tab[t][i].page \in Pool /\ lev[tab[t][i].page] = lev[t] + 1
  /\ \A p \in Pool : lev[p] \in 2 .. 4 =>
       \E t \in Pool, i \in Indices : lev[t] \in 1 .. 3 /\ tab[t][i].present /\ tab[t][i].page = p
  /\ \A t, s \in Pool, i, j \in Indices :
       (/\ lev[t] \in 1 .. 3 /\ lev[s] \in 1 .. 3
        /\ tab[t][i].present /\ tab[s][j].present /\ tab[t][i].page = tab[s][j].page)
         => t = s /\ i = j

Filled(lev, tab, E) ==
  \A t \in Pool : lev[t] \in 2 .. 4 /\ t \notin E => \E i \in Indices : tab[t][i] # PT!Absent

Blank(lev, tab) ==
  /\ \A t \in Pool, i \in Indices : lev[t] \in 1 .. 3 /\ ~tab[t][i].present => tab[t][i] = PT!Absent
  /\ \A t \in Pool : lev[t] \notin 1 .. 4 => tab[t] = PT!Zeroed
  /\ \A t \in Pool, i \in Indices : tab[t][i].present => tab[t][i].page # 0

Tree(lev, tab, E) ==
  /\ lev \in [Pool -> 0 .. 4] /\ tab \in [Pool -> TableRec]
  /\ Links(lev, tab) /\ Filled(lev, tab, E) /\ Blank(lev, tab)

\* Who names the tables at the top: pm stands for pml4.
Roots(lev, pm) ==
  /\ pm \in [Users -> Pool \cup {0}]
  /\ \A u \in Users : pm[u] # 0 => lev[pm[u]] = 1
  /\ \A u, v \in Users : pm[u] # 0 /\ pm[u] = pm[v] => u = v
  /\ \A p \in Pool : lev[p] = 1 => \E u \in Users : pm[u] = p

UsedOf(lev) == {p \in Pool : lev[p] # 0}

TablesOf(lev, used, tab, pm) == Tree(lev, tab, {}) /\ Roots(lev, pm) /\ used = UsedOf(lev)

\* The pages in use form one tree for each process.
TablesInv == \E lev : TablesOf(lev, used_pages, table, pml4)

\* 0 names no page, and an address is made of indices.
LEMMA PoolFacts == /\ 0 \notin Pool /\ 0 \notin UserFrames /\ Pool \subseteq Nat /\ 0 \in Indices
                   /\ \A va \in Vas : va[1] \in Indices /\ va[2] \in Indices /\ va[3] \in Indices
  BY PageTablesAssumption

\* An absent entry, a present one and a cleared table.
LEMMA EntryFacts ==
  /\ PT!Absent \in Entry /\ ~PT!Absent.present /\ PT!Absent.page = 0
  /\ \A p \in Pool \cup UserFrames : /\ PT!Present(p) \in Entry /\ PT!Present(p).present /\ PT!Present(p).page = p
                     /\ PT!Present(p) # PT!Absent
  /\ PT!Zeroed \in TableRec /\ \A i \in Indices : PT!Zeroed[i] = PT!Absent
<1>1. /\ PT!Absent \in Entry /\ ~PT!Absent.present /\ PT!Absent.page = 0
  BY DEF PT!Absent, PT!NONE, Entry
<1>2. \A p \in Pool \cup UserFrames : PT!Present(p) \in Entry /\ PT!Present(p).present /\ PT!Present(p).page = p
  BY DEF PT!Present, Entry
<1>3. \A p \in Pool \cup UserFrames : PT!Present(p) # PT!Absent
  BY <1>1, <1>2
<1>4. PT!Zeroed \in TableRec /\ \A i \in Indices : PT!Zeroed[i] = PT!Absent
  BY <1>1 DEF PT!Zeroed, TableRec
<1> QED BY <1>1, <1>2, <1>3, <1>4

\* The entry i of the table t names the page g, and nothing else changes.
Linked(tab, t, i, g, new) ==
  /\ new \in [Pool -> TableRec]
  /\ \A x \in Pool \ {t} : new[x] = tab[x]
  /\ new[t][i] = PT!Present(g)
  /\ \A j \in Indices \ {i} : new[t][j] = tab[t][j]

Put(lev, g, n, l) == l[g] = n /\ \A p \in Pool \ {g} : l[p] = lev[p]

\* A page that was free is put below a table.
Linking(lev, tab, E, t, i, n, g, new) ==
  /\ Tree(lev, tab, E) /\ t \in Pool /\ i \in Indices /\ n \in 1 .. 3 /\ lev[t] = n
  /\ ~tab[t][i].present /\ g \in Pool /\ lev[g] = 0 /\ Linked(tab, t, i, g, new)

Grown(lev, E, t, n, g, new) ==
  /\ new[g] = PT!Zeroed
  /\ \E l : Tree(l, new, (E \ {t}) \cup {g}) /\ Put(lev, g, n + 1, l)

LEMMA LinkTree ==
  ASSUME NEW lev, NEW tab, NEW E, NEW t, NEW i, NEW n, NEW g, NEW new, Linking(lev, tab, E, t, i, n, g, new)
  PROVE  Grown(lev, E, t, n, g, new)
<1> USE DEF Linking
<1>0. n = lev[t] /\ n \in 1 .. 3 /\ lev[g] = 0 /\ ~tab[t][i].present
  OBVIOUS
<1> DEFINE D == (E \ {t}) \cup {g}
<1>1. PICK l \in [Pool -> 0 .. 4] : /\ l[g] = n + 1
                                    /\ \A p \in Pool \ {g} : l[p] = lev[p]
  <2>1. lev \in [Pool -> 0 .. 4] /\ n + 1 \in 0 .. 4
    BY <1>0 DEF Tree
  <2>2. PICK l : l = [lev EXCEPT ![g] = n + 1]
    OBVIOUS
  <2>3. l \in [Pool -> 0 .. 4] /\ l[g] = n + 1 /\ \A p \in Pool \ {g} : l[p] = lev[p]
    BY <2>1, <2>2
  <2> QED BY <2>2, <2>3
<1>2. /\ tab \in [Pool -> TableRec] /\ tab[t] \in [Indices -> Entry] /\ PT!Present(g) \in Entry
      /\ PT!Present(g).present /\ PT!Present(g).page = g /\ PT!Present(g) # PT!Absent
  BY EntryFacts DEF Tree, TableRec
<1>3. /\ new \in [Pool -> TableRec]
      /\ \A x \in Pool \ {t} : new[x] = tab[x]
      /\ new[t][i] = PT!Present(g)
      /\ \A j \in Indices \ {i} : new[t][j] = tab[t][j]
  BY DEF Linked
<1>4. t # g /\ lev[g] = 0 /\ l[t] = n
  BY <1>0, <1>1
<1>5. tab[g] = PT!Zeroed /\ new[g] = PT!Zeroed
  BY <1>3, <1>4 DEF Tree, Blank
<1>6. \A j \in Indices : ~new[g][j].present
  BY <1>5, EntryFacts
<1>7. \A x \in Pool, j \in Indices : l[x] \in 1 .. 3 /\ new[x][j].present =>
        \/ x = t /\ j = i
        \/ lev[x] \in 1 .. 3 /\ tab[x][j].present /\ new[x][j] = tab[x][j] /\ l[x] = lev[x] /\ x # g
  BY <1>1, <1>3, <1>4, <1>6
<1>8. \A x \in Pool, j \in Indices : lev[x] \in 1 .. 3 /\ tab[x][j].present =>
        /\ ~(x = t /\ j = i) /\ l[x] = lev[x] /\ new[x][j] = tab[x][j]
        /\ tab[x][j].page # g
  <2> SUFFICES ASSUME NEW x \in Pool, NEW j \in Indices, lev[x] \in 1 .. 3, tab[x][j].present
               PROVE  /\ ~(x = t /\ j = i) /\ l[x] = lev[x] /\ new[x][j] = tab[x][j]
                      /\ tab[x][j].page # g
    OBVIOUS
  <2>1. ~(x = t /\ j = i) /\ l[x] = lev[x] /\ new[x][j] = tab[x][j]
    BY <1>1, <1>3, <1>4
  <2>2. lev[tab[x][j].page] = lev[x] + 1
    BY DEF Tree, Links
  <2> QED BY <1>4, <2>1, <2>2
<1>9. Links(l, new)
  <2>1. ASSUME NEW x \in Pool, NEW j \in Indices, l[x] \in 1 .. 3, new[x][j].present
        PROVE  new[x][j].page \in Pool /\ l[new[x][j].page] = l[x] + 1
    <3>1. CASE x = t /\ j = i
      BY <1>1, <1>2, <1>3, <1>4, <3>1
    <3>2. CASE ~(x = t /\ j = i)
      <4>1. lev[x] \in 1 .. 3 /\ tab[x][j].present /\ new[x][j] = tab[x][j] /\ l[x] = lev[x]
        BY <1>7, <2>1, <3>2
      <4>2. tab[x][j].page \in Pool /\ lev[tab[x][j].page] = lev[x] + 1 /\ tab[x][j].page # g
        BY <1>8, <4>1 DEF Tree, Links
      <4> QED BY <1>1, <4>1, <4>2
    <3> QED BY <3>1, <3>2
  <2>2. ASSUME NEW p \in Pool, l[p] \in 2 .. 4
        PROVE  \E x \in Pool, j \in Indices : l[x] \in 1 .. 3 /\ new[x][j].present /\ new[x][j].page = p
    <3>1. CASE p = g
      BY <1>0, <1>2, <1>3, <1>4, <3>1
    <3>2. CASE p # g
      <4>1. lev[p] \in 2 .. 4
        BY <1>1, <2>2, <3>2
      <4>2. PICK x \in Pool, j \in Indices : lev[x] \in 1 .. 3 /\ tab[x][j].present /\ tab[x][j].page = p
        BY <4>1 DEF Tree, Links
      <4> QED BY <1>8, <4>2
    <3> QED BY <3>1, <3>2
  <2>3. ASSUME NEW x \in Pool, NEW y \in Pool, NEW j \in Indices, NEW k \in Indices,
               l[x] \in 1 .. 3, l[y] \in 1 .. 3, new[x][j].present, new[y][k].present,
               new[x][j].page = new[y][k].page
        PROVE  x = y /\ j = k
    <3>1. CASE x = t /\ j = i
      BY <1>2, <1>3, <1>7, <1>8, <2>3, <3>1
    <3>2. CASE y = t /\ k = i
      BY <1>2, <1>3, <1>7, <1>8, <2>3, <3>2
    <3>3. CASE ~(x = t /\ j = i) /\ ~(y = t /\ k = i)
      <4>1. /\ lev[x] \in 1 .. 3 /\ tab[x][j].present /\ new[x][j] = tab[x][j]
            /\ lev[y] \in 1 .. 3 /\ tab[y][k].present /\ new[y][k] = tab[y][k]
        BY <1>7, <2>3, <3>3
      <4> QED BY <2>3, <4>1 DEF Tree, Links
    <3> QED BY <3>1, <3>2, <3>3
  <2>4. \A x, y \in Pool, j, k \in Indices :
          (/\ l[x] \in 1 .. 3 /\ l[y] \in 1 .. 3
           /\ new[x][j].present /\ new[y][k].present /\ new[x][j].page = new[y][k].page)
             => x = y /\ j = k
    BY <2>3
  <2> QED BY <2>1, <2>2, <2>4, Zenon DEF Links
<1>10. Filled(l, new, D)
  <2> SUFFICES ASSUME NEW x \in Pool, l[x] \in 2 .. 4, x \notin D
               PROVE  \E j \in Indices : new[x][j] # PT!Absent
    BY DEF Filled
  <2>1. CASE x = t
    BY <1>2, <1>3, <2>1
  <2>2. CASE x # t
    BY <1>1, <1>3, <2>2 DEF Tree, Filled
  <2> QED BY <2>1, <2>2
<1>11. Blank(l, new)
  <2>1. ASSUME NEW x \in Pool, NEW j \in Indices, l[x] \in 1 .. 3, ~new[x][j].present
        PROVE  new[x][j] = PT!Absent
    <3>1. CASE x = g
      BY <1>5, <3>1, EntryFacts
    <3>2. CASE x # g
      BY <1>1, <1>2, <1>3, <2>1, <3>2 DEF Tree, Blank
    <3> QED BY <3>1, <3>2
  <2>2. ASSUME NEW x \in Pool, l[x] \notin 1 .. 4 PROVE new[x] = PT!Zeroed
    <3>1. CASE x = g
      BY <1>5, <3>1
    <3>2. CASE x # g
      BY <1>1, <1>3, <1>4, <1>0, <2>2, <3>2 DEF Tree, Blank
    <3> QED BY <3>1, <3>2
  <2>3. \A x \in Pool, j \in Indices : new[x][j].present => new[x][j].page # 0
    <3>1. \A x \in Pool, j \in Indices : new[x][j] = IF x = t /\ j = i THEN PT!Present(g) ELSE tab[x][j]
      BY <1>3
    <3> QED BY <1>2, <3>1, PoolFacts DEF Tree, Blank
  <2> QED BY <2>1, <2>2, <2>3 DEF Blank
<1>12. Tree(l, new, D)
  BY <1>1, <1>3, <1>9, <1>10, <1>11, Zenon DEF Tree
<1>13. Put(lev, g, n + 1, l)
  BY <1>1 DEF Put
<1> QED BY <1>5, <1>12, <1>13 DEF Grown

\* What a walk may change: free pages become tables.
Kept(lev, l) == \A p \in Pool : l[p] = lev[p] \/ (lev[p] = 0 /\ l[p] \in 2 .. 4)

MemRec == [used : SUBSET Pool, tab : [Pool -> TableRec]]

\* Where a walk stands: at a table of level n, which may be the one just added.
At(lev, m, E, t, n) ==
  /\ m \in MemRec /\ Tree(lev, m.tab, E) /\ m.used = UsedOf(lev)
  /\ t \in Pool /\ lev[t] = n /\ E \subseteq {t}

\* A table is missing below the entry i of t, and the pool has a page for it.
Adding(lev, m, E, t, i, n) ==
  At(lev, m, E, t, n) /\ n \in 1 .. 3 /\ i \in Indices /\ ~m.tab[t][i].present /\ ~PT!Full(m)

\* The table g that was added is empty, and taking it back undoes the step.
Added(lev, m, t, i, n, g, m1) ==
  /\ m1.tab[t][i].page = g /\ g \in Pool /\ m1.tab[g] = PT!Zeroed
  /\ \E l : Kept(lev, l) /\ At(l, m1, {g}, g, n + 1)
  /\ PT!unlinked(PT!palloc_free_page(m1, g), t, i) = m

LEMMA AddFacts ==
  ASSUME NEW lev, NEW m, NEW E, NEW t, NEW i, NEW n, Adding(lev, m, E, t, i, n)
  PROVE  Added(lev, m, t, i, n, PT!palloc_get_page(m), PT!added(m, t, i))
<1>0. /\ m \in MemRec /\ Tree(lev, m.tab, E) /\ m.used = UsedOf(lev) /\ t \in Pool /\ lev[t] = n /\ E \subseteq {t}
      /\ n \in 1 .. 3 /\ i \in Indices /\ ~m.tab[t][i].present /\ ~PT!Full(m)
  BY DEF Adding, At
<1>a. PICK g, m1 : g = PT!palloc_get_page(m) /\ m1 = PT!added(m, t, i)
  OBVIOUS
<1> USE <1>0, <1>a
<1>1. g \in Pool /\ g \notin m.used
  <2>1. Pool \ m.used \in SUBSET Nat /\ Pool \ m.used # {}
    BY PoolFacts DEF PT!Full
  <2>2. PT!Min(Pool \ m.used) \in Pool \ m.used
    BY <2>1, LeastNat DEF PT!Min
  <2> QED BY <2>2 DEF PT!palloc_get_page
<1>2. lev \in [Pool -> 0 .. 4] /\ lev[g] = 0 /\ g # t
  BY <1>1 DEF Tree, UsedOf
<1>3. m.tab \in [Pool -> TableRec] /\ m.tab[g] = PT!Zeroed /\ m.tab[t] \in [Indices -> Entry] /\ m.used \subseteq Pool
  BY <1>1, <1>2 DEF Tree, Blank, MemRec, TableRec
<1>4. m.tab[t][i] = PT!Absent
  BY DEF Tree, Blank
<1>5. PICK z : z = PT!zeroed(m, g)
  OBVIOUS
<1>6. z.used = m.used \cup {g} /\ z.tab = m.tab /\ z \in MemRec
  <2>1. z.used = m.used \cup {g} /\ z.tab = [m.tab EXCEPT ![g] = PT!Zeroed]
    BY <1>5 DEF PT!zeroed
  <2>2. z.tab = m.tab
    BY <1>1, <1>3, <2>1
  <2> QED BY <1>1, <1>3, <1>5, <2>1, <2>2 DEF MemRec, PT!zeroed
<1>7. m1 = [z EXCEPT !.tab[t][i] = PT!Present(g)]
  BY <1>5 DEF PT!added, PT!linked
<1>8. PICK new \in [Pool -> TableRec] : new = [m.tab EXCEPT ![t][i] = PT!Present(g)]
  <2>1. PT!Present(g) \in Entry
    BY <1>1, EntryFacts
  <2>2. [m.tab[t] EXCEPT ![i] = PT!Present(g)] \in TableRec
    BY <1>3, <2>1 DEF TableRec
  <2> QED BY <1>3, <2>2
<1>9. m1 = [used |-> m.used \cup {g}, tab |-> new]
  BY <1>6, <1>7, <1>8 DEF MemRec
<1>10. m1 \in MemRec /\ m1.used = m.used \cup {g} /\ m1.tab = new
  BY <1>1, <1>3, <1>8, <1>9 DEF MemRec
<1>15. Grown(lev, E, t, n, g, new)
  <2>1. Linked(m.tab, t, i, g, new)
    BY <1>1, <1>3, <1>8, EntryFacts DEF Linked, TableRec
  <2>2. Linking(lev, m.tab, E, t, i, n, g, new)
    BY <1>1, <1>2, <2>1 DEF Linking
  <2> QED BY <2>2, LinkTree
<1>18. new[g] = PT!Zeroed
  BY <1>15 DEF Grown
<1>16. PICK l : Tree(l, new, (E \ {t}) \cup {g}) /\ Put(lev, g, n + 1, l)
  BY <1>15 DEF Grown
<1>17. m1.used = UsedOf(l) /\ Kept(lev, l) /\ l[g] = n + 1
  BY <1>1, <1>2, <1>10, <1>16 DEF UsedOf, Kept, Put
<1>13. PT!unlinked(PT!palloc_free_page(m1, g), t, i) = m
  <2>1. PT!palloc_free_page(m1, g) = [used |-> m.used, tab |-> new]
    <3>1. [new EXCEPT ![g] = PT!Zeroed] = new
      BY <1>8, <1>18
    <3>2. (m.used \cup {g}) \ {g} = m.used
      BY <1>1
    <3>3. PT!palloc_free_page(m1, g) = [m1 EXCEPT !.used = m1.used \ {g}, !.tab = [m1.tab EXCEPT ![g] = PT!Zeroed]]
      BY <1>9 DEF PT!palloc_free_page
    <3>4. m1.used \ {g} = m.used /\ [m1.tab EXCEPT ![g] = PT!Zeroed] = new
      BY <1>10, <3>1, <3>2
    <3> QED BY <1>9, <3>3, <3>4
  <2>2. [new EXCEPT ![t][i] = PT!Absent] = m.tab
    BY <1>3, <1>4, <1>8
  <2>3. m = [used |-> m.used, tab |-> m.tab]
    BY DEF MemRec
  <2> QED BY <2>1, <2>2, <2>3 DEF PT!unlinked
<1>14. new[t][i] = PT!Present(g)
  BY <1>3, <1>8
<1>19. At(l, m1, {g}, g, n + 1)
  <2>1. (E \ {t}) \cup {g} = {g}
    OBVIOUS
  <2> QED BY <1>1, <1>10, <1>16, <1>17, <2>1 DEF At
<1>20. m1.tab[t][i].page = g /\ m1.tab[g] = PT!Zeroed
  BY <1>1, <1>10, <1>14, <1>18, EntryFacts
<1> QED BY <1>1, <1>13, <1>17, <1>19, <1>20 DEF Added

\* A table with an entry needs no exception.
LEMMA ShrinkTree ==
  ASSUME NEW lev, NEW tab, NEW E, Tree(lev, tab, E),
         \A x \in E : x \in Pool /\ lev[x] \in 2 .. 4 => \E i \in Indices : tab[x][i] # PT!Absent
  PROVE  Tree(lev, tab, {})
<1>1. Filled(lev, tab, {})
  BY DEF Tree, Filled
<1> QED BY <1>1 DEF Tree

\* Where a walk that found a page table ends.
Reached(lev, w) ==
  /\ w.mem \in MemRec /\ w.pt \in Pool
  /\ \E l, D : /\ Tree(l, w.mem.tab, D) /\ D \subseteq {w.pt} /\ l[w.pt] = 4
               /\ w.mem.used = UsedOf(l) /\ Kept(lev, l)

(***************************************************************************)
(* A walk from the table t that does not create (wf) changes nothing; one  *)
(* that creates (wt) finds the same page table where there is one, else    *)
(* ends at an empty page table, or fails and leaves the memory as it was.  *)
(***************************************************************************)
Walked(lev, m, t, wf, wt) ==
  /\ wf.mem = m /\ (wf.pt # 0 => wf.pt \in Pool /\ lev[wf.pt] = 4 /\ wt = wf)
  /\ (m.tab[t] = PT!Zeroed => wf.pt = 0)
  /\ (wt.pt = 0 => wt.mem = m)
  /\ (wt.pt # 0 => Reached(lev, wt))
  /\ (wf.pt = 0 /\ wt.pt # 0 => wt.mem.tab[wt.pt] = PT!Zeroed)

\* Two walks change no more than one may.
LEMMA KeptTrans ==
  ASSUME NEW a, NEW b, NEW c, Kept(a, b), Kept(b, c) PROVE Kept(a, c)
  BY DEF Kept

\* A present entry leads one level down.
LEMMA DownFacts ==
  ASSUME NEW lev, NEW m, NEW E, NEW t, NEW n \in 1 .. 3, At(lev, m, E, t, n), NEW i \in Indices, m.tab[t][i].present
  PROVE  At(lev, m, {}, m.tab[t][i].page, n + 1) /\ m.tab[t] # PT!Zeroed
<1>1. /\ m \in MemRec /\ Tree(lev, m.tab, E) /\ m.used = UsedOf(lev) /\ t \in Pool /\ lev[t] = n /\ E \subseteq {t}
  BY DEF At
<1>2. m.tab[t][i] # PT!Absent /\ m.tab[t] # PT!Zeroed
  BY EntryFacts
<1>3. Tree(lev, m.tab, {})
  BY <1>1, <1>2, ShrinkTree
<1>4. m.tab[t][i].page \in Pool /\ lev[m.tab[t][i].page] = n + 1
  BY <1>1 DEF Tree, Links
<1> QED BY <1>1, <1>2, <1>3, <1>4 DEF At

\* pgdir_walk from a page directory.
LEMMA PgdirWalk ==
  ASSUME NEW lev, NEW m, NEW E, NEW pd, At(lev, m, E, pd, 3), NEW va \in Vas
  PROVE  Walked(lev, m, pd, PT!pgdir_walk(m, pd, va, FALSE), PT!pgdir_walk(m, pd, va, TRUE))
<1>1. va[2] \in Indices /\ 0 \notin Pool
  BY PoolFacts
<1>2. PICK wf, wt : wf = PT!pgdir_walk(m, pd, va, FALSE) /\ wt = PT!pgdir_walk(m, pd, va, TRUE)
  OBVIOUS
<1>3. CASE m.tab[pd][va[2]].present
  <2>1. wf = [pt |-> m.tab[pd][va[2]].page, mem |-> m] /\ wt = wf
    BY <1>2, <1>3 DEF PT!pgdir_walk
  <2>2. At(lev, m, {}, m.tab[pd][va[2]].page, 4) /\ m.tab[pd] # PT!Zeroed
    BY <1>1, <1>3, DownFacts
  <2>3. wf.pt \in Pool /\ lev[wf.pt] = 4 /\ wf.mem = m
    BY <2>1, <2>2 DEF At
  <2>4. Kept(lev, lev)
    BY DEF Kept
  <2>5. Reached(lev, wt)
    BY <2>1, <2>2, <2>3, <2>4 DEF Reached, At
  <2> QED BY <1>1, <1>2, <2>1, <2>2, <2>3, <2>5 DEF Walked
<1>4. CASE ~m.tab[pd][va[2]].present /\ PT!Full(m)
  <2>1. wf = [pt |-> 0, mem |-> m] /\ wt = wf
    BY <1>2, <1>4 DEF PT!pgdir_walk, PT!NONE
  <2>2. wf.pt = 0 /\ wf.mem = m /\ wt.pt = 0 /\ wt.mem = m
    BY <2>1
  <2> QED BY <1>2, <2>2 DEF Walked
<1>5. CASE ~m.tab[pd][va[2]].present /\ ~PT!Full(m)
  <2>1. PICK g, m1 : g = PT!palloc_get_page(m) /\ m1 = PT!added(m, pd, va[2])
    OBVIOUS
  <2>2. wf = [pt |-> 0, mem |-> m] /\ wt = [pt |-> g, mem |-> m1]
    BY <1>2, <1>5, <2>1 DEF PT!pgdir_walk, PT!NONE
  <2>3. Adding(lev, m, E, pd, va[2], 3)
    BY <1>1, <1>5 DEF Adding
  <2>4. Added(lev, m, pd, va[2], 3, g, m1)
    BY <2>1, <2>3, AddFacts
  <2>5. PICK l : Kept(lev, l) /\ At(l, m1, {g}, g, 4)
    BY <2>4 DEF Added
  <2>6. wf.pt = 0 /\ wf.mem = m /\ wt.pt = g /\ wt.mem = m1 /\ m1.tab[g] = PT!Zeroed /\ g \in Pool
    BY <2>2, <2>4 DEF Added
  <2>7. Reached(lev, wt)
    BY <2>5, <2>6 DEF Reached, At
  <2> QED BY <1>1, <1>2, <2>6, <2>7 DEF Walked
<1> QED BY <1>3, <1>4, <1>5

\* A walk that goes through a present entry is the walk below it.
LEMMA WalkDown ==
  ASSUME NEW lev, NEW m, NEW t, NEW c, NEW wf, NEW wt, Walked(lev, m, c, wf, wt), m.tab[t] # PT!Zeroed
  PROVE  Walked(lev, m, t, wf, wt)
  BY DEF Walked

\* A walk that adds a table takes it back when the walk below it fails.
LEMMA WalkAdd ==
  ASSUME NEW lev, NEW l, NEW m, NEW m1, NEW t, NEW i, NEW g, NEW wf, NEW wt, NEW w,
         Kept(lev, l), m1.tab[g] = PT!Zeroed, Walked(l, m1, g, wf, w),
         PT!unlinked(PT!palloc_free_page(m1, g), t, i) = m,
         wt = IF w.pt = 0 THEN [pt |-> 0, mem |-> PT!unlinked(PT!palloc_free_page(w.mem, g), t, i)] ELSE w
  PROVE  Walked(lev, m, t, [pt |-> 0, mem |-> m], wt)
<1>1. wf.pt = 0
  BY DEF Walked
<1>2. CASE w.pt = 0
  <2>1. w.mem = m1
    BY <1>2 DEF Walked
  <2>2. wt = [pt |-> 0, mem |-> m]
    BY <1>2, <2>1
  <2> QED BY <2>2 DEF Walked
<1>3. CASE w.pt # 0
  <2>1. wt = w /\ Reached(l, w) /\ w.mem.tab[w.pt] = PT!Zeroed
    BY <1>1, <1>3 DEF Walked
  <2>2. PICK l2, D : /\ Tree(l2, w.mem.tab, D) /\ D \subseteq {w.pt} /\ l2[w.pt] = 4
                     /\ w.mem.used = UsedOf(l2) /\ Kept(l, l2)
    BY <2>1 DEF Reached
  <2>3. Kept(lev, l2)
    BY <2>2, KeptTrans
  <2>4. Reached(lev, wt)
    BY <2>1, <2>2, <2>3 DEF Reached
  <2> QED BY <1>3, <2>1, <2>4 DEF Walked
<1> QED BY <1>2, <1>3

\* pdpe_walk: a page directory it added goes when the walk below it fails.
LEMMA PdpeWalk ==
  ASSUME NEW lev, NEW m, NEW E, NEW pdpe, At(lev, m, E, pdpe, 2), NEW va \in Vas
  PROVE  Walked(lev, m, pdpe, PT!pdpe_walk(m, pdpe, va, FALSE), PT!pdpe_walk(m, pdpe, va, TRUE))
<1>1. va[1] \in Indices /\ 0 \notin Pool
  BY PoolFacts
<1>2. PICK wf, wt : wf = PT!pdpe_walk(m, pdpe, va, FALSE) /\ wt = PT!pdpe_walk(m, pdpe, va, TRUE)
  OBVIOUS
<1>3. CASE m.tab[pdpe][va[1]].present
  <2>1. PICK c : c = m.tab[pdpe][va[1]].page
    OBVIOUS
  <2>2. wf = PT!pgdir_walk(m, c, va, FALSE) /\ wt = PT!pgdir_walk(m, c, va, TRUE)
    BY <1>2, <1>3, <2>1 DEF PT!pdpe_walk
  <2>3. At(lev, m, {}, c, 3) /\ m.tab[pdpe] # PT!Zeroed
    BY <1>1, <1>3, <2>1, DownFacts
  <2>4. Walked(lev, m, c, wf, wt)
    BY <2>2, <2>3, PgdirWalk
  <2> QED BY <1>2, <2>3, <2>4, WalkDown
<1>4. CASE ~m.tab[pdpe][va[1]].present /\ PT!Full(m)
  <2>1. wf = [pt |-> 0, mem |-> m] /\ wt = [pt |-> 0, mem |-> m]
    BY <1>2, <1>4 DEF PT!pdpe_walk, PT!NONE
  <2>2. wf.pt = 0 /\ wf.mem = m /\ wt.pt = 0 /\ wt.mem = m
    BY <2>1
  <2> QED BY <1>2, <2>2 DEF Walked
<1>5. CASE ~m.tab[pdpe][va[1]].present /\ ~PT!Full(m)
  <2>1. PICK g, m1 : g = PT!palloc_get_page(m) /\ m1 = PT!added(m, pdpe, va[1])
    OBVIOUS
  <2>2. Adding(lev, m, E, pdpe, va[1], 2)
    BY <1>1, <1>5 DEF Adding
  <2>3. Added(lev, m, pdpe, va[1], 2, g, m1)
    BY <2>1, <2>2, AddFacts
  <2>4. PICK l : Kept(lev, l) /\ At(l, m1, {g}, g, 3)
    BY <2>3 DEF Added
  <2>5. PICK v, w : v = PT!pgdir_walk(m1, g, va, FALSE) /\ w = PT!pgdir_walk(m1, g, va, TRUE)
    OBVIOUS
  <2>6. Walked(l, m1, g, v, w)
    BY <2>4, <2>5, PgdirWalk
  <2>7. m1.tab[pdpe][va[1]].page = g /\ m1.tab[g] = PT!Zeroed
        /\ PT!unlinked(PT!palloc_free_page(m1, g), pdpe, va[1]) = m
    BY <2>3 DEF Added
  <2>8. wf = [pt |-> 0, mem |-> m]
    BY <1>2, <1>5 DEF PT!pdpe_walk, PT!NONE
  <2>9. wt = IF w.pt = 0 THEN [pt |-> 0, mem |-> PT!unlinked(PT!palloc_free_page(w.mem, g), pdpe, va[1])] ELSE w
    BY <1>2, <1>5, <2>1, <2>5, <2>7 DEF PT!pdpe_walk, PT!NONE
  <2>10. Walked(lev, m, pdpe, [pt |-> 0, mem |-> m], wt)
    BY <2>4, <2>6, <2>7, <2>9, WalkAdd
  <2> QED BY <1>2, <2>8, <2>10
<1> QED BY <1>3, <1>4, <1>5

\* pml4e_walk, from the top.
LEMMA Pml4Walk ==
  ASSUME NEW lev, NEW m, NEW E, NEW root, At(lev, m, E, root, 1), NEW va \in Vas
  PROVE  Walked(lev, m, root, PT!pml4e_walk(m, root, va, FALSE), PT!pml4e_walk(m, root, va, TRUE))
<1>1. 0 \in Indices /\ 0 \notin Pool
  BY PoolFacts
<1>2. PICK wf, wt : wf = PT!pml4e_walk(m, root, va, FALSE) /\ wt = PT!pml4e_walk(m, root, va, TRUE)
  OBVIOUS
<1>3. CASE m.tab[root][0].present
  <2>1. PICK c : c = m.tab[root][0].page
    OBVIOUS
  <2>2. wf = PT!pdpe_walk(m, c, va, FALSE) /\ wt = PT!pdpe_walk(m, c, va, TRUE)
    BY <1>2, <1>3, <2>1 DEF PT!pml4e_walk
  <2>3. At(lev, m, {}, c, 2) /\ m.tab[root] # PT!Zeroed
    BY <1>1, <1>3, <2>1, DownFacts
  <2>4. Walked(lev, m, c, wf, wt)
    BY <2>2, <2>3, PdpeWalk
  <2> QED BY <1>2, <2>3, <2>4, WalkDown
<1>4. CASE ~m.tab[root][0].present /\ PT!Full(m)
  <2>1. wf = [pt |-> 0, mem |-> m] /\ wt = [pt |-> 0, mem |-> m]
    BY <1>2, <1>4 DEF PT!pml4e_walk, PT!NONE
  <2>2. wf.pt = 0 /\ wf.mem = m /\ wt.pt = 0 /\ wt.mem = m
    BY <2>1
  <2> QED BY <1>2, <2>2 DEF Walked
<1>5. CASE ~m.tab[root][0].present /\ ~PT!Full(m)
  <2>1. PICK g, m1 : g = PT!palloc_get_page(m) /\ m1 = PT!added(m, root, 0)
    OBVIOUS
  <2>2. Adding(lev, m, E, root, 0, 1)
    BY <1>1, <1>5 DEF Adding
  <2>3. Added(lev, m, root, 0, 1, g, m1)
    BY <2>1, <2>2, AddFacts
  <2>4. PICK l : Kept(lev, l) /\ At(l, m1, {g}, g, 2)
    BY <2>3 DEF Added
  <2>5. PICK v, w : v = PT!pdpe_walk(m1, g, va, FALSE) /\ w = PT!pdpe_walk(m1, g, va, TRUE)
    OBVIOUS
  <2>6. Walked(l, m1, g, v, w)
    BY <2>4, <2>5, PdpeWalk
  <2>7. m1.tab[root][0].page = g /\ m1.tab[g] = PT!Zeroed
        /\ PT!unlinked(PT!palloc_free_page(m1, g), root, 0) = m
    BY <2>3 DEF Added
  <2>8. wf = [pt |-> 0, mem |-> m]
    BY <1>2, <1>5 DEF PT!pml4e_walk, PT!NONE
  <2>9. wt = IF w.pt = 0 THEN [pt |-> 0, mem |-> PT!unlinked(PT!palloc_free_page(w.mem, g), root, 0)] ELSE w
    BY <1>2, <1>5, <2>1, <2>5, <2>7 DEF PT!pml4e_walk, PT!NONE
  <2>10. Walked(lev, m, root, [pt |-> 0, mem |-> m], wt)
    BY <2>4, <2>6, <2>7, <2>9, WalkAdd
  <2> QED BY <1>2, <2>8, <2>10
<1> QED BY <1>3, <1>4, <1>5

\* A page the pool gives is free.
LEMMA GetPage ==
  ASSUME NEW m, ~PT!Full(m) PROVE PT!palloc_get_page(m) \in Pool /\ PT!palloc_get_page(m) \notin m.used
<1>1. Pool \ m.used \in SUBSET Nat /\ Pool \ m.used # {}
  BY PoolFacts DEF PT!Full
<1>2. PT!Min(Pool \ m.used) \in Pool \ m.used
  BY <1>1, LeastNat DEF PT!Min
<1> QED BY <1>2 DEF PT!palloc_get_page

\* A free page becomes a pml4.
LEMMA Relabel ==
  ASSUME NEW lev, NEW tab, Tree(lev, tab, {}), NEW g \in Pool, lev[g] = 0
  PROVE  \E l : Tree(l, tab, {}) /\ Put(lev, g, 1, l)
<1>1. lev \in [Pool -> 0 .. 4] /\ tab \in [Pool -> TableRec]
  BY DEF Tree
<1>2. PICK l \in [Pool -> 0 .. 4] : l[g] = 1 /\ \A p \in Pool \ {g} : l[p] = lev[p]
  <2>1. PICK l : l = [lev EXCEPT ![g] = 1]
    OBVIOUS
  <2>2. l \in [Pool -> 0 .. 4] /\ l[g] = 1 /\ \A p \in Pool \ {g} : l[p] = lev[p]
    BY <1>1, <2>1
  <2> QED BY <2>2
<1>3. tab[g] = PT!Zeroed /\ \A i \in Indices : tab[g][i] = PT!Absent /\ ~tab[g][i].present
  <2>1. tab[g] = PT!Zeroed
    BY DEF Tree, Blank
  <2> QED BY <2>1, EntryFacts
<1>4. \A t \in Pool, i \in Indices :
        (l[t] \in 1 .. 3 /\ tab[t][i].present) <=> (lev[t] \in 1 .. 3 /\ tab[t][i].present)
  BY <1>2, <1>3
<1>5. \A t \in Pool, i \in Indices : lev[t] \in 1 .. 3 /\ tab[t][i].present => tab[t][i].page # g /\ l[t] = lev[t]
  <2> SUFFICES ASSUME NEW t \in Pool, NEW i \in Indices, lev[t] \in 1 .. 3, tab[t][i].present
               PROVE  tab[t][i].page # g /\ l[t] = lev[t]
    OBVIOUS
  <2>1. lev[tab[t][i].page] = lev[t] + 1
    BY DEF Tree, Links
  <2> QED BY <1>2, <2>1
<1>6. Links(l, tab)
  <2>1. ASSUME NEW t \in Pool, NEW i \in Indices, l[t] \in 1 .. 3, tab[t][i].present
        PROVE  tab[t][i].page \in Pool /\ l[tab[t][i].page] = l[t] + 1
    <3>1. lev[t] \in 1 .. 3 /\ l[t] = lev[t] /\ tab[t][i].page # g
      BY <1>4, <1>5, <2>1
    <3>2. tab[t][i].page \in Pool /\ lev[tab[t][i].page] = lev[t] + 1
      BY <2>1, <3>1 DEF Tree, Links
    <3> QED BY <1>2, <3>1, <3>2
  <2>2. ASSUME NEW p \in Pool, l[p] \in 2 .. 4
        PROVE  \E t \in Pool, i \in Indices : l[t] \in 1 .. 3 /\ tab[t][i].present /\ tab[t][i].page = p
    <3>1. lev[p] \in 2 .. 4
      BY <1>2, <2>2
    <3>2. PICK t \in Pool, i \in Indices : lev[t] \in 1 .. 3 /\ tab[t][i].present /\ tab[t][i].page = p
      BY <3>1 DEF Tree, Links
    <3> QED BY <1>4, <3>2
  <2>3. \A t, s \in Pool, i, j \in Indices :
          (/\ l[t] \in 1 .. 3 /\ l[s] \in 1 .. 3
           /\ tab[t][i].present /\ tab[s][j].present /\ tab[t][i].page = tab[s][j].page)
             => t = s /\ i = j
    BY <1>4 DEF Tree, Links
  <2> QED BY <2>1, <2>2, <2>3, Zenon DEF Links
<1>7. Filled(l, tab, {})
  BY <1>2 DEF Tree, Filled
<1>8. Blank(l, tab)
  BY <1>2, <1>3 DEF Tree, Blank
<1>9. Tree(l, tab, {})
  BY <1>1, <1>6, <1>7, <1>8 DEF Tree
<1> QED BY <1>2, <1>9 DEF Put

\* pml4_create takes a free page and links it nowhere.
LEMMA TablesCreate ==
  ASSUME TablesInv, NEW u \in Users, PT!pml4_create(u) PROVE TablesInv'
<1>1. PICK lev : TablesOf(lev, used_pages, table, pml4)
  BY DEF TablesInv
<1>2. Tree(lev, table, {}) /\ Roots(lev, pml4) /\ used_pages = UsedOf(lev)
  BY <1>1 DEF TablesOf
<1>3. PICK g : g = PT!palloc_get_page(PT!Mem)
  OBVIOUS
<1>4. g \in Pool /\ g \notin used_pages
  BY <1>3, GetPage DEF PT!pml4_create, PT!Mem
<1>5. lev[g] = 0 /\ lev \in [Pool -> 0 .. 4] /\ table \in [Pool -> TableRec]
  BY <1>2, <1>4 DEF UsedOf, Tree
<1>6. table[g] = PT!Zeroed
  BY <1>2, <1>4, <1>5 DEF Tree, Blank
<1>7. /\ pml4[u] = 0 /\ used_pages' = used_pages \cup {g} /\ table' = table
      /\ pml4' = [pml4 EXCEPT ![u] = g]
  BY <1>3, <1>4, <1>5, <1>6 DEF PT!pml4_create, PT!zeroed, PT!Mem, PT!NONE
<1>8. PICK l : Tree(l, table, {}) /\ Put(lev, g, 1, l)
  BY <1>2, <1>4, <1>5, Relabel
<1>9. l[g] = 1 /\ \A p \in Pool \ {g} : l[p] = lev[p]
  BY <1>8 DEF Put
<1>10. used_pages' = UsedOf(l)
  BY <1>2, <1>4, <1>7, <1>9 DEF UsedOf
<1>11. Roots(l, pml4')
  <2>1. pml4' \in [Users -> Pool \cup {0}] /\ pml4'[u] = g /\ \A v \in Users \ {u} : pml4'[v] = pml4[v]
    BY <1>2, <1>4, <1>7 DEF Roots
  <2>2. \A v \in Users : pml4[v] # g /\ (pml4[v] # 0 => v # u)
    BY <1>2, <1>4, <1>5, <1>7, PoolFacts DEF Roots
  <2>3. \A v \in Users : pml4'[v] # 0 => l[pml4'[v]] = 1
    <3> SUFFICES ASSUME NEW v \in Users PROVE pml4'[v] # 0 => l[pml4'[v]] = 1
      OBVIOUS
    <3>1. pml4[v] # 0 => pml4[v] \in Pool \ {g} /\ lev[pml4[v]] = 1
      BY <1>2, <2>2 DEF Roots
    <3>2. pml4[v] # 0 => l[pml4[v]] = 1
      BY <1>9, <3>1
    <3> QED BY <1>9, <2>1, <3>1, <3>2
  <2>4. \A v, w \in Users : pml4'[v] # 0 /\ pml4'[v] = pml4'[w] => v = w
    BY <1>2, <2>1, <2>2 DEF Roots
  <2>5. \A p \in Pool : l[p] = 1 => \E v \in Users : pml4'[v] = p
    BY <1>2, <1>4, <1>7, <1>9, <2>1, <2>2, PoolFacts DEF Roots
  <2> QED BY <2>1, <2>3, <2>4, <2>5 DEF Roots
<1> QED BY <1>7, <1>8, <1>10, <1>11 DEF TablesInv, TablesOf

\* A walk makes no page a pml4 and takes none away.
LEMMA RootsKept ==
  ASSUME NEW lev, NEW l, NEW pm, Roots(lev, pm), Kept(lev, l) PROVE Roots(l, pm)
<1>1. \A u \in Users : pm[u] # 0 => pm[u] \in Pool /\ lev[pm[u]] = 1
  BY DEF Roots
<1>2. \A u \in Users : pm[u] # 0 => l[pm[u]] = 1
  BY <1>1 DEF Kept
<1>3. \A p \in Pool : l[p] = 1 => lev[p] = 1
  BY DEF Kept
<1> QED BY <1>2, <1>3 DEF Roots

\* An entry of a last table changes, and is not blank afterwards.
LEMMA LeafTree ==
  ASSUME NEW lev, NEW tab, NEW D, Tree(lev, tab, D), NEW t \in Pool, lev[t] = 4, D \subseteq {t},
         NEW i \in Indices, NEW e \in Entry, e.page # 0, NEW new, new = [tab EXCEPT ![t][i] = e]
  PROVE  Tree(lev, new, {})
<1>1. lev \in [Pool -> 0 .. 4] /\ tab \in [Pool -> TableRec] /\ tab[t] \in [Indices -> Entry]
  BY DEF Tree, TableRec
<1>2. /\ new \in [Pool -> TableRec] /\ new[t][i] = e
      /\ \A x \in Pool \ {t} : new[x] = tab[x]
  <2>1. [tab[t] EXCEPT ![i] = e] \in TableRec
    BY <1>1 DEF TableRec
  <2> QED BY <1>1, <2>1
<1>3. \A x \in Pool : lev[x] \in 1 .. 3 => new[x] = tab[x]
  BY <1>2
<1>4. Links(lev, new)
  <2>1. Links(lev, tab)
    BY DEF Tree
  <2>2. \A x \in Pool, j \in Indices : lev[x] \in 1 .. 3 => new[x][j] = tab[x][j]
    BY <1>3
  <2> QED BY <2>1, <2>2 DEF Links
<1>5. Filled(lev, new, {})
  <2> SUFFICES ASSUME NEW x \in Pool, lev[x] \in 2 .. 4 PROVE \E j \in Indices : new[x][j] # PT!Absent
    BY DEF Filled
  <2>1. CASE x = t
    BY <1>2, <2>1, EntryFacts
  <2>2. CASE x # t
    BY <1>2, <2>2 DEF Tree, Filled
  <2> QED BY <2>1, <2>2
<1>6. Blank(lev, new)
  <2>1. \A x \in Pool : lev[x] \notin 1 .. 4 => new[x] = PT!Zeroed
    BY <1>2 DEF Tree, Blank
  <2>2. \A x \in Pool, j \in Indices : new[x][j].present => new[x][j].page # 0
    <3>1. \A x \in Pool, j \in Indices : new[x][j] = IF x = t /\ j = i THEN e ELSE tab[x][j]
      BY <1>1, <1>2
    <3> QED BY <3>1 DEF Tree, Blank
  <2> QED BY <1>3, <2>1, <2>2 DEF Tree, Blank
<1> QED BY <1>1, <1>2, <1>4, <1>5, <1>6 DEF Tree

\* An entry without its present bit keeps the page.
LEMMA ClearEntry ==
  ASSUME NEW S, NEW d \in [page : S, present : BOOLEAN], NEW e, e = [d EXCEPT !.present = FALSE]
  PROVE  e \in [page : S, present : BOOLEAN] /\ e.page = d.page
  OBVIOUS

\* What the walks of pml4_set_page and pml4_clear_page find.
LEMMA UserWalk ==
  ASSUME NEW lev, TablesOf(lev, used_pages, table, pml4), NEW u \in Users, pml4[u] # 0, NEW va \in Vas,
         NEW wf, wf = PT!pml4e_walk(PT!Mem, pml4[u], va, FALSE), NEW wt, wt = PT!pml4e_walk(PT!Mem, pml4[u], va, TRUE)
  PROVE  /\ PT!Mem \in MemRec /\ PT!Mem.used = used_pages /\ PT!Mem.tab = table
         /\ Walked(lev, PT!Mem, pml4[u], wf, wt)
<1>1. Tree(lev, table, {}) /\ Roots(lev, pml4) /\ used_pages = UsedOf(lev)
  BY DEF TablesOf
<1>2. PT!Mem = [used |-> used_pages, tab |-> table] /\ PT!Mem.used = used_pages /\ PT!Mem.tab = table
  BY DEF PT!Mem
<1>3. PT!Mem \in MemRec
  BY <1>1, <1>2 DEF MemRec, Tree, UsedOf
<1>4. At(lev, PT!Mem, {}, pml4[u], 1)
  BY <1>1, <1>2, <1>3 DEF At, Roots
<1>5. Walked(lev, PT!Mem, pml4[u], wf, wt)
  BY <1>4, Pml4Walk
<1> QED BY <1>2, <1>3, <1>5

\* pml4_set_page fills an entry of a last table, or leaves the tables alone.
LEMMA TablesSet ==
  ASSUME TablesInv, NEW u \in Users, NEW va \in Vas, NEW f \in UserFrames, PT!pml4_set_page(u, va, f)
  PROVE  TablesInv'
<1>1. PICK lev : TablesOf(lev, used_pages, table, pml4)
  BY DEF TablesInv
<1>2. Tree(lev, table, {}) /\ Roots(lev, pml4) /\ used_pages = UsedOf(lev)
  BY <1>1 DEF TablesOf
<1>3. PICK wf, wt : /\ wf = PT!pml4e_walk(PT!Mem, pml4[u], va, FALSE)
                    /\ wt = PT!pml4e_walk(PT!Mem, pml4[u], va, TRUE)
  OBVIOUS
<1>4. PICK m : m = IF wt.pt = 0 THEN wt.mem ELSE PT!linked(wt.mem, wt.pt, va[3], f)
  OBVIOUS
<1>5. pml4[u] # 0 /\ used_pages' = m.used /\ table' = m.tab /\ pml4' = pml4
  BY <1>3, <1>4 DEF PT!pml4_set_page, PT!NONE
<1>7. /\ PT!Mem \in MemRec /\ PT!Mem.used = used_pages /\ PT!Mem.tab = table
      /\ Walked(lev, PT!Mem, pml4[u], wf, wt)
  BY <1>1, <1>3, <1>5, UserWalk
<1>8. va[3] \in Indices
  BY PoolFacts
<1>9. CASE wt.pt = 0
  <2>1. wt.mem = PT!Mem
    BY <1>7, <1>9 DEF Walked
  <2>2. used_pages' = used_pages /\ table' = table
    BY <1>4, <1>5, <1>7, <1>9, <2>1
  <2> QED BY <1>1, <1>5, <2>2 DEF TablesInv
<1>10. CASE wt.pt # 0
  <2>1. Reached(lev, wt)
    BY <1>7, <1>10 DEF Walked
  <2>2. PICK pt \in Pool, w \in MemRec : pt = wt.pt /\ w = wt.mem
    BY <2>1 DEF Reached
  <2>3. PICK l, D : Tree(l, w.tab, D) /\ D \subseteq {pt} /\ l[pt] = 4 /\ w.used = UsedOf(l) /\ Kept(lev, l)
    BY <2>1, <2>2 DEF Reached
  <2>4. PT!Present(f) \in Entry /\ PT!Present(f).page # 0
    BY EntryFacts, PoolFacts
  <2>5. PICK new : new = [w.tab EXCEPT ![pt][va[3]] = PT!Present(f)]
    OBVIOUS
  <2>6. used_pages' = w.used /\ table' = new
    BY <1>4, <1>5, <1>10, <2>2, <2>5 DEF PT!linked, MemRec
  <2>7. Tree(l, new, {})
    BY <1>8, <2>3, <2>4, <2>5, LeafTree
  <2>8. Roots(l, pml4)
    BY <1>2, <2>3, RootsKept
  <2> QED BY <1>5, <2>3, <2>6, <2>7, <2>8 DEF TablesInv, TablesOf
<1> QED BY <1>9, <1>10

\* pml4_clear_page keeps the frame in the entry, so that the table stays filled.
LEMMA TablesClear ==
  ASSUME TablesInv, NEW u \in Users, NEW va \in Vas, PT!pml4_clear_page(u, va) PROVE TablesInv'
<1>1. PICK lev : TablesOf(lev, used_pages, table, pml4)
  BY DEF TablesInv
<1>2. Tree(lev, table, {}) /\ Roots(lev, pml4) /\ used_pages = UsedOf(lev)
  BY <1>1 DEF TablesOf
<1>3. PICK wf, wt : /\ wf = PT!pml4e_walk(PT!Mem, pml4[u], va, FALSE)
                    /\ wt = PT!pml4e_walk(PT!Mem, pml4[u], va, TRUE)
  OBVIOUS
<1>4. /\ pml4[u] # 0 /\ wf.pt # 0 /\ table[wf.pt][va[3]].present
      /\ table' = [table EXCEPT ![wf.pt][va[3]].present = FALSE]
      /\ used_pages' = used_pages /\ pml4' = pml4
  BY <1>3 DEF PT!pml4_clear_page, PT!NONE
<1>5. Walked(lev, PT!Mem, pml4[u], wf, wt)
  BY <1>1, <1>3, <1>4, UserWalk
<1>6. PICK pt \in Pool : pt = wf.pt /\ lev[pt] = 4
  BY <1>4, <1>5 DEF Walked
<1>7. PICK i \in Indices : i = va[3]
  BY PoolFacts
<1>8. /\ table \in [Pool -> TableRec]
      /\ table[pt] \in [Indices -> Entry] /\ table[pt][i] \in Entry
  BY <1>2 DEF Tree, TableRec
<1>9. table[pt][i].page # 0
  BY <1>2, <1>4, <1>6, <1>7 DEF Tree, Blank
<1>10. PICK e \in Entry : e = [table[pt][i] EXCEPT !.present = FALSE] /\ e.page # 0
  <2>1. PICK d \in Entry : d = table[pt][i]
    BY <1>8
  <2>2. PICK e : e = [d EXCEPT !.present = FALSE]
    OBVIOUS
  <2>3. e \in Entry /\ e.page = d.page
    BY <2>2, ClearEntry DEF Entry
  <2> QED BY <1>9, <2>1, <2>2, <2>3
<1>11. table' = [table EXCEPT ![pt][i] = e]
  BY <1>4, <1>6, <1>7, <1>8, <1>10 DEF TableRec
<1>12. Tree(lev, table', {})
  <2>1. PICK new, D : new = table' /\ D = {}
    OBVIOUS
  <2>2. Tree(lev, table, D) /\ D \subseteq {pt} /\ new = [table EXCEPT ![pt][i] = e]
    BY <1>2, <1>11, <2>1
  <2>3. Tree(lev, new, {})
    BY <1>6, <1>10, <2>2, LeafTree
  <2> QED BY <2>1, <2>3
<1> QED BY <1>2, <1>4, <1>12 DEF TablesInv, TablesOf

-----------------------------------------------------------------------------
(* Who owns a page: the trees of two processes have none in common.        *)

\* What the present entries of tables name.
LEMMA LiveFacts ==
  ASSUME NEW ts
  PROVE  \A p : p \in PT!Live(ts) <=> \E t \in ts, i \in Indices : table[t][i].present /\ table[t][i].page = p
<1>1. ASSUME NEW p, p \in PT!Live(ts)
      PROVE  \E t \in ts, i \in Indices : table[t][i].present /\ table[t][i].page = p
  <2>1. PICK x \in {y \in ts \X Indices : table[y[1]][y[2]].present} : p = table[x[1]][x[2]].page
    BY <1>1 DEF PT!Live
  <2> QED BY <2>1
<1>2. ASSUME NEW p, NEW t \in ts, NEW i \in Indices, table[t][i].present, table[t][i].page = p
      PROVE  p \in PT!Live(ts)
  <2>1. <<t, i>> \in {y \in ts \X Indices : table[y[1]][y[2]].present} /\ table[<<t, i>>[1]][<<t, i>>[2]].page = p
    BY <1>2
  <2> QED BY <2>1 DEF PT!Live
<1> QED BY <1>1, <1>2

\* The pages of level n, each in the set of one process.
Splits(lev, n, A) ==
  /\ A \in [Users -> SUBSET Pool]
  /\ \A u \in Users : \A p \in A[u] : lev[p] = n
  /\ \A p \in Pool : lev[p] = n => \E u \in Users : p \in A[u]
  /\ \A u, v \in Users : u # v => A[u] \cap A[v] = {}

\* Each page one level down has one owner if the level above has.
LEMMA SplitDown ==
  ASSUME NEW lev, Tree(lev, table, {}), NEW n \in 1 .. 3, NEW A, Splits(lev, n, A),
         NEW B, B = [u \in Users |-> PT!Live(A[u])]
  PROVE  Splits(lev, n + 1, B)
<1>1. \A u \in Users : \A p : p \in B[u] <=>
        \E t \in A[u], i \in Indices : table[t][i].present /\ table[t][i].page = p
  BY LiveFacts
<1>2. \A u \in Users : A[u] \subseteq Pool /\ \A t \in A[u] : lev[t] = n
  BY DEF Splits
<1>3. \A u \in Users : \A p \in B[u] : p \in Pool /\ lev[p] = n + 1
  <2> SUFFICES ASSUME NEW u \in Users, NEW p \in B[u] PROVE p \in Pool /\ lev[p] = n + 1
    OBVIOUS
  <2>1. PICK t \in A[u], i \in Indices : table[t][i].present /\ table[t][i].page = p
    BY <1>1
  <2>2. t \in Pool /\ lev[t] = n
    BY <1>2
  <2> QED BY <2>1, <2>2 DEF Tree, Links
<1>4. B \in [Users -> SUBSET Pool]
  <2>1. \A u \in Users : PT!Live(A[u]) \in SUBSET Pool
    BY <1>3
  <2> QED BY <2>1
<1>5. \A p \in Pool : lev[p] = n + 1 => \E u \in Users : p \in B[u]
  <2> SUFFICES ASSUME NEW p \in Pool, lev[p] = n + 1 PROVE \E u \in Users : p \in B[u]
    OBVIOUS
  <2>1. lev[p] \in 2 .. 4
    OBVIOUS
  <2>2. PICK t \in Pool, i \in Indices : lev[t] \in 1 .. 3 /\ table[t][i].present /\ table[t][i].page = p
    BY <2>1 DEF Tree, Links
  <2>3. lev[p] = lev[t] + 1
    BY <2>2 DEF Tree, Links
  <2>4. lev[t] = n
    BY <2>2, <2>3
  <2>5. PICK u \in Users : t \in A[u]
    BY <2>4 DEF Splits
  <2> QED BY <1>1, <2>2, <2>5
<1>6. \A u, v \in Users : u # v => B[u] \cap B[v] = {}
  <2> SUFFICES ASSUME NEW u \in Users, NEW v \in Users, NEW p, p \in B[u], p \in B[v] PROVE u = v
    OBVIOUS
  <2>1. PICK t \in A[u], i \in Indices : table[t][i].present /\ table[t][i].page = p
    BY <1>1
  <2>2. PICK s \in A[v], j \in Indices : table[s][j].present /\ table[s][j].page = p
    BY <1>1
  <2>3. t \in Pool /\ s \in Pool /\ lev[t] \in 1 .. 3 /\ lev[s] \in 1 .. 3
    BY <1>2
  <2>4. t = s
    BY <2>1, <2>2, <2>3 DEF Tree, Links
  <2> QED BY <2>4 DEF Splits
<1> QED BY <1>3, <1>4, <1>5, <1>6 DEF Splits

(***************************************************************************)
(* What a process owns: pages of the tree, which its own pml4 leads to,    *)
(* each page of the tree to one process, a table with all below it.        *)
(***************************************************************************)
Owning(lev) ==
  /\ \A u \in Users : \A p \in PT!OwnedBy(u) : p \in Pool /\ lev[p] \in 1 .. 4 /\ (lev[p] = 1 => p = pml4[u])
  /\ \A u \in Users : pml4[u] # 0 => pml4[u] \in PT!OwnedBy(u)
  /\ \A p \in Pool : lev[p] \in 1 .. 4 => \E u \in Users : p \in PT!OwnedBy(u)
  /\ \A u, v \in Users : u # v => PT!OwnedBy(u) \cap PT!OwnedBy(v) = {}
  /\ \A u \in Users, t \in Pool, i \in Indices :
       lev[t] \in 1 .. 3 /\ table[t][i].present => (t \in PT!OwnedBy(u) <=> table[t][i].page \in PT!OwnedBy(u))
  /\ \A u \in Users : pml4[u] # 0 =>
       \A k \in 1 .. 3 : \A t \in PT!Levels(u)[k] : t \in Pool /\ lev[t] = k + 1
  /\ \A u \in Users : pml4[u] # 0 =>
       \A t \in PT!OwnedBy(u) \ PT!Levels(u)[3] : t \in Pool /\ lev[t] \in 1 .. 3

\* The trees give each page its owner.
LEMMA OwningFacts ==
  ASSUME NEW lev, TablesOf(lev, used_pages, table, pml4) PROVE Owning(lev)
<1>1. Tree(lev, table, {}) /\ Roots(lev, pml4)
  BY DEF TablesOf
<1>2. PICK A1 : A1 = [u \in Users |-> IF pml4[u] = 0 THEN {} ELSE {pml4[u]}]
  OBVIOUS
<1>3. Splits(lev, 1, A1)
  <2>1. \A u \in Users : \A p : p \in A1[u] <=> p = pml4[u] /\ pml4[u] # 0
    BY <1>2
  <2>2. A1 \in [Users -> SUBSET Pool]
    BY <1>1, <1>2 DEF Roots
  <2>3. \A p \in Pool : lev[p] = 1 => \E u \in Users : p \in A1[u]
    BY <1>1, <2>1, PoolFacts DEF Roots
  <2>4. \A u, v \in Users : u # v => A1[u] \cap A1[v] = {}
    BY <1>1, <2>1 DEF Roots
  <2>5. \A u \in Users : \A p \in A1[u] : lev[p] = 1
    BY <1>1, <2>1 DEF Roots
  <2> QED BY <2>2, <2>3, <2>4, <2>5 DEF Splits
<1>4. PICK A2 : A2 = [u \in Users |-> PT!Live(A1[u])]
  OBVIOUS
<1>5. PICK A3 : A3 = [u \in Users |-> PT!Live(A2[u])]
  OBVIOUS
<1>6. PICK A4 : A4 = [u \in Users |-> PT!Live(A3[u])]
  OBVIOUS
<1>8. Splits(lev, 2, A2)
  <2>1. Splits(lev, 1 + 1, A2)
    BY <1>1, <1>3, <1>4, SplitDown
  <2> QED BY <2>1
<1>9. Splits(lev, 3, A3)
  <2>1. Splits(lev, 2 + 1, A3)
    BY <1>1, <1>5, <1>8, SplitDown
  <2> QED BY <2>1
<1>10. Splits(lev, 4, A4)
  <2>1. Splits(lev, 3 + 1, A4)
    BY <1>1, <1>6, <1>9, SplitDown
  <2> QED BY <2>1
<1>12. \A u \in Users : PT!OwnedBy(u) = A1[u] \cup A2[u] \cup A3[u] \cup A4[u]
  <2> SUFFICES ASSUME NEW u \in Users PROVE PT!OwnedBy(u) = A1[u] \cup A2[u] \cup A3[u] \cup A4[u]
    OBVIOUS
  <2>1. CASE pml4[u] = 0
    <3>1. A1[u] = {}
      BY <1>2, <2>1
    <3>2. A2[u] = {}
      <4>1. \A p : p \notin PT!Live(A1[u])
        BY <3>1, LiveFacts
      <4> QED BY <1>4, <4>1
    <3>3. A3[u] = {}
      <4>1. \A p : p \notin PT!Live(A2[u])
        BY <3>2, LiveFacts
      <4> QED BY <1>5, <4>1
    <3>4. A4[u] = {}
      <4>1. \A p : p \notin PT!Live(A3[u])
        BY <3>3, LiveFacts
      <4> QED BY <1>6, <4>1
    <3>6. PT!OwnedBy(u) = {}
      BY <2>1 DEF PT!OwnedBy, PT!NONE
    <3> QED BY <3>1, <3>2, <3>3, <3>4, <3>6
  <2>2. CASE pml4[u] # 0
    <3>1. A1[u] = {pml4[u]}
      BY <1>2, <2>2
    <3>2. PT!Levels(u) = <<A2[u], A3[u], A4[u]>>
      BY <1>4, <1>5, <1>6, <3>1 DEF PT!Levels
    <3>3. UNION {PT!Levels(u)[i] : i \in 1 .. 3} = A2[u] \cup A3[u] \cup A4[u]
      <4>1. {PT!Levels(u)[i] : i \in 1 .. 3} = {A2[u], A3[u], A4[u]}
        BY <3>2
      <4> QED BY <4>1
    <3> QED BY <2>2, <3>1, <3>3 DEF PT!OwnedBy, PT!NONE
  <2> QED BY <2>1, <2>2
<1>13. \A u \in Users : pml4[u] # 0 =>
         \A k \in 1 .. 3 : \A t \in PT!Levels(u)[k] : t \in Pool /\ lev[t] = k + 1
  <2> SUFFICES ASSUME NEW u \in Users, pml4[u] # 0, NEW k \in 1 .. 3, NEW t \in PT!Levels(u)[k]
               PROVE  t \in Pool /\ lev[t] = k + 1
    OBVIOUS
  <2>1. A1[u] = {pml4[u]}
    BY <1>2
  <2>2. PT!Levels(u) = <<A2[u], A3[u], A4[u]>>
    BY <1>4, <1>5, <1>6, <2>1 DEF PT!Levels
  <2>3. (k = 1 /\ t \in A2[u]) \/ (k = 2 /\ t \in A3[u]) \/ (k = 3 /\ t \in A4[u])
    BY <2>2
  <2> QED BY <1>8, <1>9, <1>10, <2>3 DEF Splits
<1>14. \A u \in Users : \A p \in PT!OwnedBy(u) : p \in Pool /\ lev[p] \in 1 .. 4 /\ (lev[p] = 1 => p = pml4[u])
  <2> SUFFICES ASSUME NEW u \in Users, NEW p \in PT!OwnedBy(u)
               PROVE  p \in Pool /\ lev[p] \in 1 .. 4 /\ (lev[p] = 1 => p = pml4[u])
    OBVIOUS
  <2>1. p \in A1[u] \/ p \in A2[u] \/ p \in A3[u] \/ p \in A4[u]
    BY <1>12
  <2>2. p \in A1[u] => p = pml4[u]
    BY <1>2
  <2> QED BY <1>3, <1>8, <1>9, <1>10, <2>1, <2>2 DEF Splits
<1>15. \A u \in Users : pml4[u] # 0 => pml4[u] \in PT!OwnedBy(u)
  BY <1>2, <1>12
<1>16. \A p \in Pool : lev[p] \in 1 .. 4 => \E u \in Users : p \in PT!OwnedBy(u)
  <2> SUFFICES ASSUME NEW p \in Pool, lev[p] \in 1 .. 4 PROVE \E u \in Users : p \in PT!OwnedBy(u)
    OBVIOUS
  <2>1. PICK u \in Users : p \in A1[u] \/ p \in A2[u] \/ p \in A3[u] \/ p \in A4[u]
    BY <1>3, <1>8, <1>9, <1>10 DEF Splits
  <2> QED BY <1>12, <2>1
<1>17. \A u, v \in Users : u # v => PT!OwnedBy(u) \cap PT!OwnedBy(v) = {}
  <2> SUFFICES ASSUME NEW u \in Users, NEW v \in Users, u # v, NEW p \in PT!OwnedBy(u), p \in PT!OwnedBy(v)
               PROVE  FALSE
    OBVIOUS
  <2>1. p \in A1[u] \/ p \in A2[u] \/ p \in A3[u] \/ p \in A4[u]
    BY <1>12
  <2>2. p \in A1[v] \/ p \in A2[v] \/ p \in A3[v] \/ p \in A4[v]
    BY <1>12
  <2> QED BY <1>3, <1>8, <1>9, <1>10, <2>1, <2>2 DEF Splits
<1>18. ASSUME NEW u \in Users, NEW t \in Pool, NEW i \in Indices, lev[t] \in 1 .. 3, table[t][i].present,
              t \in PT!OwnedBy(u)
       PROVE  table[t][i].page \in PT!OwnedBy(u)
  <2>1. t \in A1[u] \/ t \in A2[u] \/ t \in A3[u]
    <3>1. t \notin A4[u]
      BY <1>10, <1>18 DEF Splits
    <3> QED BY <1>12, <1>18, <3>1
  <2>2. PICK p : p = table[t][i].page
    OBVIOUS
  <2>3. p \in PT!Live(A1[u]) \/ p \in PT!Live(A2[u]) \/ p \in PT!Live(A3[u])
    BY <1>18, <2>1, <2>2, LiveFacts
  <2>4. p \in A2[u] \/ p \in A3[u] \/ p \in A4[u]
    BY <1>4, <1>5, <1>6, <2>3
  <2> QED BY <1>12, <2>2, <2>4
<1>19. ASSUME NEW u \in Users, NEW t \in Pool, NEW i \in Indices, lev[t] \in 1 .. 3, table[t][i].present,
              table[t][i].page \in PT!OwnedBy(u)
       PROVE  t \in PT!OwnedBy(u)
  <2>1. lev[t] \in 1 .. 4
    BY <1>19
  <2>2. PICK v \in Users : t \in PT!OwnedBy(v)
    BY <1>16, <2>1
  <2>3. table[t][i].page \in PT!OwnedBy(v)
    BY <1>18, <1>19, <2>2
  <2>4. u = v
    BY <1>17, <1>19, <2>3
  <2> QED BY <2>2, <2>4
<1>20. \A u \in Users, t \in Pool, i \in Indices :
         lev[t] \in 1 .. 3 /\ table[t][i].present => (t \in PT!OwnedBy(u) <=> table[t][i].page \in PT!OwnedBy(u))
  BY <1>18, <1>19
<1>21. \A u \in Users : pml4[u] # 0 =>
         \A t \in PT!OwnedBy(u) \ PT!Levels(u)[3] : t \in Pool /\ lev[t] \in 1 .. 3
  <2> SUFFICES ASSUME NEW u \in Users, pml4[u] # 0, NEW t \in PT!OwnedBy(u), t \notin PT!Levels(u)[3]
               PROVE  t \in Pool /\ lev[t] \in 1 .. 3
    OBVIOUS
  <2>1. A1[u] = {pml4[u]}
    BY <1>2
  <2>2. PT!Levels(u) = <<A2[u], A3[u], A4[u]>>
    BY <1>4, <1>5, <1>6, <2>1 DEF PT!Levels
  <2>3. t \in A1[u] \/ t \in A2[u] \/ t \in A3[u]
    BY <1>12, <2>2
  <2> QED BY <1>3, <1>8, <1>9, <2>3 DEF Splits
<1> QED BY <1>13, <1>14, <1>15, <1>16, <1>17, <1>20, <1>21 DEF Owning

\* pml4_destroy frees one tree and touches no other.
LEMMA TablesDestroy ==
  ASSUME TablesInv, NEW u \in Users, PT!pml4_destroy(u) PROVE TablesInv'
<1>1. PICK lev : TablesOf(lev, used_pages, table, pml4)
  BY DEF TablesInv
<1>2. Tree(lev, table, {}) /\ Roots(lev, pml4) /\ used_pages = UsedOf(lev)
  BY <1>1 DEF TablesOf
<1>3. Owning(lev)
  BY <1>1, OwningFacts
<1>4. PICK S : S = PT!OwnedBy(u)
  OBVIOUS
<1>5. pml4[u] # 0 /\ PT!released(S) /\ pml4' = [pml4 EXCEPT ![u] = 0]
  <2>1. pml4[u] # 0 /\ pml4' = [pml4 EXCEPT ![u] = 0]
    BY DEF PT!pml4_destroy, PT!NONE
  <2>2. PICK a, b, c : a = PT!Live({pml4[u]}) /\ b = PT!Live(a) /\ c = PT!Live(b)
    OBVIOUS
  <2>3. PT!released({pml4[u]} \cup a \cup b \cup c)
    BY <2>2 DEF PT!pml4_destroy
  <2>4. PT!Levels(u) = <<a, b, c>>
    BY <2>2 DEF PT!Levels
  <2>5. {PT!Levels(u)[i] : i \in 1 .. 3} = {a, b, c}
    BY <2>4
  <2>6. UNION {PT!Levels(u)[i] : i \in 1 .. 3} = a \cup b \cup c
    BY <2>5
  <2>7. S = {pml4[u]} \cup a \cup b \cup c
    BY <1>4, <2>1, <2>6 DEF PT!OwnedBy, PT!NONE
  <2> QED BY <2>1, <2>3, <2>7
<1>6. lev \in [Pool -> 0 .. 4] /\ table \in [Pool -> TableRec]
  BY <1>2 DEF Tree
<1>7. /\ used_pages' = used_pages \ S /\ table' \in [Pool -> TableRec]
      /\ \A p \in Pool : table'[p] = IF p \in S THEN PT!Zeroed ELSE table[p]
  BY <1>5, <1>6, EntryFacts DEF PT!released
<1>8. /\ \A p \in S : p \in Pool /\ lev[p] \in 1 .. 4 /\ (lev[p] = 1 => p = pml4[u])
      /\ pml4[u] \in S
      /\ \A t \in Pool, i \in Indices :
           lev[t] \in 1 .. 3 /\ table[t][i].present => (t \in S <=> table[t][i].page \in S)
  BY <1>3, <1>4, <1>5 DEF Owning
<1>9. PICK l \in [Pool -> 0 .. 4] : \A p \in Pool : l[p] = IF p \in S THEN 0 ELSE lev[p]
  <2>1. PICK l : l = [p \in Pool |-> IF p \in S THEN 0 ELSE lev[p]]
    OBVIOUS
  <2>2. l \in [Pool -> 0 .. 4]
    BY <1>6, <2>1
  <2>3. \A p \in Pool : l[p] = IF p \in S THEN 0 ELSE lev[p]
    BY <2>1
  <2> QED BY <2>2, <2>3
<1>10. \A x \in Pool, j \in Indices : l[x] \in 1 .. 3 /\ table'[x][j].present =>
         /\ x \notin S /\ lev[x] \in 1 .. 3 /\ l[x] = lev[x] /\ table'[x][j] = table[x][j]
         /\ table[x][j].page \notin S
  <2> SUFFICES ASSUME NEW x \in Pool, NEW j \in Indices, l[x] \in 1 .. 3, table'[x][j].present
               PROVE  /\ x \notin S /\ lev[x] \in 1 .. 3 /\ l[x] = lev[x] /\ table'[x][j] = table[x][j]
                      /\ table[x][j].page \notin S
    OBVIOUS
  <2>1. x \notin S
    BY <1>9
  <2>2. lev[x] \in 1 .. 3 /\ l[x] = lev[x] /\ table'[x][j] = table[x][j]
    BY <1>7, <1>9, <2>1
  <2> QED BY <1>8, <2>1, <2>2
<1>11. Links(l, table')
  <2>1. ASSUME NEW x \in Pool, NEW j \in Indices, l[x] \in 1 .. 3, table'[x][j].present
        PROVE  table'[x][j].page \in Pool /\ l[table'[x][j].page] = l[x] + 1
    <3>1. lev[x] \in 1 .. 3 /\ l[x] = lev[x] /\ table'[x][j] = table[x][j] /\ table[x][j].page \notin S
      BY <1>10, <2>1
    <3>2. table[x][j].page \in Pool /\ lev[table[x][j].page] = lev[x] + 1
      BY <1>2, <2>1, <3>1 DEF Tree, Links
    <3> QED BY <1>9, <3>1, <3>2
  <2>2. ASSUME NEW p \in Pool, l[p] \in 2 .. 4
        PROVE  \E x \in Pool, j \in Indices : l[x] \in 1 .. 3 /\ table'[x][j].present /\ table'[x][j].page = p
    <3>1. p \notin S /\ lev[p] \in 2 .. 4
      BY <1>9, <2>2
    <3>2. PICK x \in Pool, j \in Indices : lev[x] \in 1 .. 3 /\ table[x][j].present /\ table[x][j].page = p
      BY <1>2, <3>1 DEF Tree, Links
    <3>3. x \notin S
      BY <1>8, <3>1, <3>2
    <3>4. l[x] = lev[x] /\ table'[x] = table[x]
      BY <1>7, <1>9, <3>3
    <3> QED BY <3>2, <3>4
  <2>3. \A x, y \in Pool, j, k \in Indices :
          (/\ l[x] \in 1 .. 3 /\ l[y] \in 1 .. 3
           /\ table'[x][j].present /\ table'[y][k].present /\ table'[x][j].page = table'[y][k].page)
             => x = y /\ j = k
    BY <1>2, <1>10 DEF Tree, Links
  <2> QED BY <2>1, <2>2, <2>3, Zenon DEF Links
<1>12. Filled(l, table', {})
  BY <1>2, <1>7, <1>9 DEF Tree, Filled
<1>13. Blank(l, table')
  <2>1. ASSUME NEW x \in Pool, NEW j \in Indices, l[x] \in 1 .. 3, ~table'[x][j].present
        PROVE  table'[x][j] = PT!Absent
    <3>1. x \notin S /\ lev[x] \in 1 .. 3
      BY <1>9, <2>1
    <3> QED BY <1>2, <1>7, <2>1, <3>1 DEF Tree, Blank
  <2>2. ASSUME NEW x \in Pool, l[x] \notin 1 .. 4 PROVE table'[x] = PT!Zeroed
    <3>1. CASE x \in S
      BY <1>7, <3>1
    <3>2. CASE x \notin S
      BY <1>2, <1>7, <1>9, <2>2, <3>2 DEF Tree, Blank
    <3> QED BY <3>1, <3>2
  <2>3. \A x \in Pool, j \in Indices : table'[x][j].present => table'[x][j].page # 0
    BY <1>2, <1>7, EntryFacts DEF Tree, Blank
  <2> QED BY <2>1, <2>2, <2>3 DEF Blank
<1>14. Tree(l, table', {})
  BY <1>7, <1>11, <1>12, <1>13 DEF Tree
<1>15. used_pages' = UsedOf(l)
  BY <1>2, <1>7, <1>9 DEF UsedOf
<1>16. Roots(l, pml4')
  <2>1. pml4' \in [Users -> Pool \cup {0}] /\ pml4'[u] = 0 /\ \A v \in Users \ {u} : pml4'[v] = pml4[v]
    BY <1>2, <1>5 DEF Roots
  <2>2. \A v \in Users \ {u} : pml4[v] # 0 => pml4[v] \in Pool /\ pml4[v] \notin S /\ lev[pml4[v]] = 1
    BY <1>2, <1>8 DEF Roots
  <2>3. \A v \in Users : pml4'[v] # 0 => l[pml4'[v]] = 1
    <3> SUFFICES ASSUME NEW v \in Users, pml4'[v] # 0 PROVE l[pml4'[v]] = 1
      OBVIOUS
    <3>1. v # u /\ pml4'[v] = pml4[v]
      BY <2>1
    <3> QED BY <1>9, <2>2, <3>1
  <2>4. \A v, w \in Users : pml4'[v] # 0 /\ pml4'[v] = pml4'[w] => v = w
    BY <1>2, <2>1 DEF Roots
  <2>5. ASSUME NEW p \in Pool, l[p] = 1 PROVE \E v \in Users : pml4'[v] = p
    <3>1. lev[p] = 1 /\ p \notin S
      BY <1>9, <2>5
    <3>2. PICK v \in Users : pml4[v] = p
      BY <1>2, <3>1 DEF Roots
    <3>3. v # u
      BY <1>8, <3>1, <3>2
    <3> QED BY <2>1, <3>2, <3>3
  <2> QED BY <2>1, <2>3, <2>4, <2>5 DEF Roots
<1> QED BY <1>14, <1>15, <1>16 DEF TablesInv, TablesOf

\* The trees are what PagesOwned asks for.
LEMMA OwnedHolds == TablesInv => PagesOwned
<1> SUFFICES ASSUME TablesInv PROVE PagesOwned
  OBVIOUS
<1>1. PICK lev : TablesOf(lev, used_pages, table, pml4)
  BY DEF TablesInv
<1>2. Tree(lev, table, {}) /\ Roots(lev, pml4) /\ used_pages = UsedOf(lev)
  BY <1>1 DEF TablesOf
<1>3. Owning(lev)
  BY <1>1, OwningFacts
<1>4. lev \in [Pool -> 0 .. 4] /\ 0 \notin Pool
  BY <1>2, PoolFacts DEF Tree
<1>6. \A u \in Users : \A p \in PT!OwnedBy(u) : p \in Pool /\ lev[p] \in 1 .. 4
  BY <1>3 DEF Owning
<1>7. used_pages = UNION {PT!OwnedBy(u) : u \in Users}
  <2>1. ASSUME NEW p, p \in used_pages PROVE \E u \in Users : p \in PT!OwnedBy(u)
    <3>1. p \in Pool /\ lev[p] \in 1 .. 4
      BY <1>2, <1>4, <2>1 DEF UsedOf
    <3> QED BY <1>3, <3>1 DEF Owning
  <2>2. ASSUME NEW u \in Users, NEW p \in PT!OwnedBy(u) PROVE p \in used_pages
    BY <1>2, <1>6, <2>2 DEF UsedOf
  <2> QED BY <2>1, <2>2
<1>8. \A u, v \in Users : u # v => PT!OwnedBy(u) \cap PT!OwnedBy(v) = {}
  BY <1>3 DEF Owning
<1>10. \A u \in Users : pml4[u] # 0 =>
          \A i \in 1..3 : \A t \in PT!Levels(u)[i] : table[t] # PT!Zeroed
  <2> SUFFICES ASSUME NEW u \in Users, pml4[u] # 0, NEW k \in 1 .. 3, NEW t \in PT!Levels(u)[k]
               PROVE  table[t] # PT!Zeroed
    OBVIOUS
  <2>1. t \in Pool /\ lev[t] = k + 1
    BY <1>3 DEF Owning
  <2>2. lev[t] \in 2 .. 4
    BY <2>1
  <2>3. PICK i \in Indices : table[t][i] # PT!Absent
    BY <1>2, <2>1, <2>2 DEF Tree, Filled
  <2> QED BY <2>3, EntryFacts
<1>11. \A u \in Users : pml4[u] # 0 =>
         \A t, s \in PT!OwnedBy(u) \ PT!Levels(u)[3], i, j \in Indices :
            /\ table[t][i].present /\ table[s][j].present
            /\ table[t][i].page = table[s][j].page
            => t = s /\ i = j
  <2> SUFFICES ASSUME NEW u \in Users, pml4[u] # 0,
                      NEW t \in PT!OwnedBy(u) \ PT!Levels(u)[3], NEW s \in PT!OwnedBy(u) \ PT!Levels(u)[3],
                      NEW i \in Indices, NEW j \in Indices,
                      table[t][i].present, table[s][j].present, table[t][i].page = table[s][j].page
               PROVE  t = s /\ i = j
    OBVIOUS
  <2>1. t \in Pool /\ lev[t] \in 1 .. 3 /\ s \in Pool /\ lev[s] \in 1 .. 3
    BY <1>3 DEF Owning
  <2> QED BY <1>2, <2>1 DEF Tree, Links
<1> QED BY <1>7, <1>8, <1>10, <1>11, Zenon DEF PagesOwned, PT!PagesOwned, PT!NONE

\* No page is in use at the start.
LEMMA TablesInitial == PT!PTInit => TablesInv
<1> SUFFICES ASSUME PT!PTInit PROVE TablesInv
  OBVIOUS
<1>1. /\ used_pages = {} /\ table = [p \in Pool |-> PT!Zeroed]
      /\ pml4 = [u \in Users |-> 0]
  BY DEF PT!PTInit, PT!NONE
<1>2. PICK lev \in [Pool -> 0 .. 4] : \A p \in Pool : lev[p] = 0
  <2>1. [p \in Pool |-> 0] \in [Pool -> 0 .. 4] /\ \A p \in Pool : [q \in Pool |-> 0][p] = 0
    OBVIOUS
  <2> QED BY <2>1
<1>3. Tree(lev, table, {})
  <2>1. table \in [Pool -> TableRec]
    BY <1>1, EntryFacts
  <2>2. Links(lev, table) /\ Filled(lev, table, {}) /\ Blank(lev, table)
    BY <1>1, <1>2, EntryFacts DEF Links, Filled, Blank
  <2> QED BY <2>1, <2>2 DEF Tree
<1>4. Roots(lev, pml4)
  BY <1>1, <1>2 DEF Roots
<1>5. used_pages = UsedOf(lev)
  BY <1>1, <1>2 DEF UsedOf
<1> QED BY <1>3, <1>4, <1>5 DEF TablesInv, TablesOf

\* Every step of the page tables keeps the trees.
LEMMA TablesNext == ASSUME TablesInv, PT!PTNext PROVE TablesInv'
<1>1. PICK u \in Users : \/ PT!pml4_create(u) \/ PT!pml4_destroy(u)
                         \/ \E va \in Vas : \/ PT!pml4_clear_page(u, va)
                                             \/ \E f \in UserFrames : PT!pml4_set_page(u, va, f)
  BY DEF PT!PTNext
<1>2. CASE PT!pml4_create(u)
  BY <1>2, TablesCreate
<1>3. CASE PT!pml4_destroy(u)
  BY <1>3, TablesDestroy
<1>4. CASE \E va \in Vas : PT!pml4_clear_page(u, va) \/ \E f \in UserFrames : PT!pml4_set_page(u, va, f)
  BY <1>4, TablesSet, TablesClear
<1> QED BY <1>1, <1>2, <1>3, <1>4

\* Every page of a page table belongs to one process and one entry names it,
\* whatever frames the processes share: a walk of pml4e_walk that runs out of
\* pages at any level leaves no table behind, and pml4_destroy frees each table
\* once and none of another process.
THEOREM OnePageOneOwner == KSpec => []PagesOwned
<1>1. KInit => TablesInv
  BY TablesInitial DEF KInit
<1>2. TablesInv /\ [KNext]_allVars => TablesInv'
  <2> SUFFICES ASSUME TablesInv, [KNext]_allVars PROVE TablesInv'
    OBVIOUS
  <2>1. PT!PTNext \/ UNCHANGED ptVars
    BY DEF KNext, allVars
  <2>2. CASE UNCHANGED ptVars
    BY <2>2 DEF ptVars, TablesInv
  <2> QED BY <2>1, <2>2, TablesNext
<1> QED BY <1>1, <1>2, OwnedHolds, PTL DEF KSpec

-----------------------------------------------------------------------------
(* The hash table: loops.                                                  *)

\* What holds before a loop and is kept by each of its steps holds at its end.
LEMMA Climb ==
  ASSUME NEW n \in Nat, NEW U, 0 \in U, \A i \in 1 .. n : i - 1 \in U => i \in U
  PROVE  \A i \in 0 .. n : i \in U
<1> DEFINE T == {i \in 0 .. n : i \notin U}
<1>1. T \in SUBSET Nat
  OBVIOUS
<1>2. \A i : i \in T <=> i \in 0 .. n /\ i \notin U
  OBVIOUS
<1> HIDE DEF T
<1>3. ASSUME T # {} PROVE FALSE
  <2>1. PICK m \in T : \A y \in T : m <= y
    BY <1>1, <1>3, LeastNat
  <2>2. m \in 0 .. n /\ m \notin U /\ m # 0
    BY <1>2
  <2>3. m - 1 \in 0 .. n /\ m - 1 \notin T
    BY <2>1, <2>2
  <2>4. m - 1 \in U
    BY <1>2, <2>3
  <2> QED BY <2>2, <2>4
<1> QED BY <1>2, <1>3

\* f holds the values of a loop that starts with z and takes the steps of S.
Loop(f, n, X, z, S) == f \in [0 .. n -> X] /\ f[0] = z /\ \A i \in 1 .. n : f[i] = S[<<f[i - 1], i>>]

\* Every loop of a bounded number of steps has such values.
LEMMA LoopExists ==
  ASSUME NEW n \in Nat, NEW X, NEW z \in X, NEW S \in [X \X (1 .. n) -> X]
  PROVE  \E f : Loop(f, n, X, z, S)
<1> DEFINE U == {m \in 0 .. n : \E f : Loop(f, m, X, z, S)}
<1>1. \A m : m \in U <=> m \in 0 .. n /\ \E f : Loop(f, m, X, z, S)
  OBVIOUS
<1> HIDE DEF U
<1>2. 0 \in U
  <2>1. Loop([i \in 0 .. 0 |-> z], 0, X, z, S)
    BY DEF Loop
  <2> QED BY <1>1, <2>1
<1>3. ASSUME NEW m \in 1 .. n, m - 1 \in U PROVE m \in U
  <2>1. PICK f : Loop(f, m - 1, X, z, S)
    BY <1>1, <1>3
  <2>2. f \in [0 .. m - 1 -> X] /\ f[0] = z /\ \A i \in 1 .. m - 1 : f[i] = S[<<f[i - 1], i>>]
    BY <2>1 DEF Loop
  <2>3. PICK y \in X : y = S[<<f[m - 1], m>>]
    <3>1. f[m - 1] \in X
      BY <2>2
    <3>2. <<f[m - 1], m>> \in X \X (1 .. n)
      BY <3>1
    <3> QED BY <3>2
  <2>4. PICK g : g = [i \in 0 .. m |-> IF i = m THEN y ELSE f[i]]
    OBVIOUS
  <2>5. g \in [0 .. m -> X] /\ g[m] = y /\ \A i \in 0 .. m - 1 : g[i] = f[i]
    BY <2>2, <2>4
  <2>6. g[0] = z
    BY <2>2, <2>5
  <2>7. \A i \in 1 .. m : g[i] = S[<<g[i - 1], i>>]
    <3> SUFFICES ASSUME NEW i \in 1 .. m PROVE g[i] = S[<<g[i - 1], i>>]
      OBVIOUS
    <3>1. g[i - 1] = f[i - 1]
      BY <2>5
    <3>2. CASE i = m
      BY <2>3, <2>5, <3>1, <3>2
    <3>3. CASE i # m
      BY <2>2, <2>5, <3>1, <3>3
    <3> QED BY <3>2, <3>3
  <2>8. Loop(g, m, X, z, S)
    BY <2>5, <2>6, <2>7 DEF Loop
  <2> QED BY <1>1, <2>8
<1>4. n \in U
  BY <1>2, <1>3, Climb
<1> QED BY <1>1, <1>4

-----------------------------------------------------------------------------
(* The hash table: lists.                                                  *)

\* r is q with x put before it.
Prepended(X, q, x, r) ==
  /\ r \in Seq(X) /\ \A y : y \in Range(r) <=> y = x \/ y \in Range(q)
  /\ Once(q) /\ x \notin Range(q) => Once(r)

\* What list_push_front does to the elements of a list.
LEMMA PrependFacts ==
  ASSUME NEW X, NEW q, NEW x, q \in Seq(X) /\ x \in X PROVE Prepended(X, q, x, <<x>> \o q)
<1>0. PICK r : r = <<x>> \o q
  OBVIOUS
<1>1. /\ r \in Seq(X) /\ Len(q) \in Nat /\ DOMAIN q = 1 .. Len(q) /\ DOMAIN r = 1 .. Len(q) + 1
      /\ \A i \in 1 .. Len(q) + 1 : r[i] = IF i = 1 THEN x ELSE q[i - 1]
  BY <1>0
<1>2. \A y : y \in Range(r) <=> y = x \/ y \in Range(q)
  <2>1. \A y \in Range(r) : y = x \/ y \in Range(q)
    BY <1>1 DEF Range
  <2>2. x \in Range(r)
    BY <1>1 DEF Range
  <2>3. \A i \in 1 .. Len(q) : r[i + 1] = q[i] /\ i + 1 \in DOMAIN r
    BY <1>1
  <2>4. ASSUME NEW y \in Range(q) PROVE y \in Range(r)
    <3>1. PICK i \in 1 .. Len(q) : y = q[i]
      BY <1>1 DEF Range
    <3> QED BY <2>3, <3>1 DEF Range
  <2> QED BY <2>1, <2>2, <2>4
<1>3. ASSUME Once(q), x \notin Range(q) PROVE Once(r)
  <2> SUFFICES ASSUME NEW i \in DOMAIN r, NEW j \in DOMAIN r, r[i] = r[j] PROVE i = j
    BY DEF Once
  <2>1. \A k \in 1 .. Len(q) : q[k] # x
    BY <1>1, <1>3 DEF Range
  <2>2. (i = 1 <=> j = 1)
    BY <1>1, <2>1
  <2>3. CASE i # 1
    <3>1. i - 1 \in DOMAIN q /\ j - 1 \in DOMAIN q /\ q[i - 1] = q[j - 1]
      BY <1>1, <2>2, <2>3
    <3>2. i - 1 = j - 1
      BY <1>3, <3>1 DEF Once
    <3> QED BY <1>1, <3>2
  <2> QED BY <2>2, <2>3
<1> QED BY <1>0, <1>1, <1>2, <1>3 DEF Prepended

\* r is q followed by s.
Joined(X, q, s, r) ==
  /\ r \in Seq(X) /\ Len(q) \in Nat /\ Len(s) \in Nat /\ Len(r) = Len(q) + Len(s)
  /\ \A i \in 1 .. Len(q) : r[i] = q[i]
  /\ \A i \in 1 .. Len(s) : r[i + Len(q)] = s[i]

\* Where the elements of two lists are when one follows the other.
LEMMA JoinAt ==
  ASSUME NEW X, NEW q, NEW s, q \in Seq(X) /\ s \in Seq(X) PROVE Joined(X, q, s, q \o s)
<1>1. PICK r : r = q \o s
  OBVIOUS
<1>2. /\ r \in Seq(X) /\ Len(q) \in Nat /\ Len(s) \in Nat /\ Len(r) = Len(q) + Len(s)
      /\ \A i \in 1 .. Len(q) : r[i] = q[i]
      /\ \A i \in 1 .. Len(s) : r[i + Len(q)] = s[i]
  BY <1>1
<1> QED BY <1>1, <1>2 DEF Joined

\* r has the elements of q and of s.
Concat(X, q, s, r) ==
  /\ r \in Seq(X) /\ \A y : y \in Range(r) <=> y \in Range(q) \/ y \in Range(s)
  /\ Once(q) /\ Once(s) /\ Range(q) \cap Range(s) = {} => Once(r)

\* A walk of two lists meets the elements of both, each once when none is in both.
LEMMA JoinFacts ==
  ASSUME NEW X, NEW q, NEW s, q \in Seq(X) /\ s \in Seq(X) PROVE Concat(X, q, s, q \o s)
<1>0. PICK r : r = q \o s
  OBVIOUS
<1>1. /\ r \in Seq(X) /\ Len(q) \in Nat /\ DOMAIN q = 1 .. Len(q) /\ Len(s) \in Nat /\ DOMAIN s = 1 .. Len(s)
      /\ DOMAIN r = 1 .. Len(q) + Len(s)
      /\ \A i \in 1 .. Len(q) + Len(s) : r[i] = IF i <= Len(q) THEN q[i] ELSE s[i - Len(q)]
  BY <1>0
<1>2. \A y : y \in Range(r) <=> y \in Range(q) \/ y \in Range(s)
  <2>1. ASSUME NEW y \in Range(r) PROVE y \in Range(q) \/ y \in Range(s)
    <3>1. PICK i \in 1 .. Len(q) + Len(s) : y = r[i]
      BY <1>1 DEF Range
    <3>2. CASE i <= Len(q)
      BY <1>1, <3>1, <3>2 DEF Range
    <3>3. CASE ~(i <= Len(q))
      <4>1. i - Len(q) \in DOMAIN s /\ y = s[i - Len(q)]
        BY <1>1, <3>1, <3>3
      <4> QED BY <4>1 DEF Range
    <3> QED BY <3>2, <3>3
  <2>2. \A i \in 1 .. Len(q) : r[i] = q[i] /\ i \in DOMAIN r
    BY <1>1
  <2>3. \A i \in 1 .. Len(s) : r[i + Len(q)] = s[i] /\ i + Len(q) \in DOMAIN r
    <3>1. Joined(X, q, s, r)
      BY <1>0, JoinAt
    <3> QED BY <1>1, <3>1 DEF Joined
  <2>4. \A y \in Range(q) : y \in Range(r)
    BY <1>1, <2>2 DEF Range
  <2>5. \A y \in Range(s) : y \in Range(r)
    BY <1>1, <2>3 DEF Range
  <2> QED BY <2>1, <2>4, <2>5
<1>3. ASSUME Once(q), Once(s), Range(q) \cap Range(s) = {} PROVE Once(r)
  <2> SUFFICES ASSUME NEW i \in DOMAIN r, NEW j \in DOMAIN r, r[i] = r[j] PROVE i = j
    BY DEF Once
  <2>1. \A k \in 1 .. Len(q), l \in 1 .. Len(s) : q[k] # s[l]
    BY <1>1, <1>3 DEF Range
  <2>2. i <= Len(q) <=> j <= Len(q)
    BY <1>1, <2>1
  <2>3. CASE i <= Len(q)
    BY <1>1, <1>3, <2>2, <2>3 DEF Once
  <2>4. CASE ~(i <= Len(q))
    <3>1. i - Len(q) \in DOMAIN s /\ j - Len(q) \in DOMAIN s /\ s[i - Len(q)] = s[j - Len(q)]
      BY <1>1, <2>2, <2>4
    <3>2. i - Len(q) = j - Len(q)
      BY <1>3, <3>1 DEF Once
    <3> QED BY <1>1, <3>2
  <2> QED BY <2>3, <2>4
<1> QED BY <1>0, <1>1, <1>2, <1>3 DEF Concat

\* The parts of a list before and after a place.
Halves(X, q, k, a, b) ==
  /\ a \in Seq(X) /\ Len(a) = k - 1 /\ \A i \in 1 .. k - 1 : a[i] = q[i]
  /\ b \in Seq(X) /\ Len(b) = Len(q) - k /\ \A i \in 1 .. Len(q) - k : b[i] = q[i + k]

\* SubSeq gives those parts.
LEMMA PartFacts ==
  ASSUME NEW X, NEW q, NEW k, q \in Seq(X) /\ k \in 1 .. Len(q)
  PROVE  Halves(X, q, k, SubSeq(q, 1, k - 1), SubSeq(q, k + 1, Len(q)))
<1>1. PICK a, b : a = SubSeq(q, 1, k - 1) /\ b = SubSeq(q, k + 1, Len(q))
  OBVIOUS
<1>2. a \in Seq(X) /\ Len(a) = k - 1 /\ \A i \in 1 .. k - 1 : a[i] = q[i]
  BY <1>1
<1>3. b \in Seq(X) /\ Len(b) = Len(q) - k /\ \A i \in 1 .. Len(q) - k : b[i] = q[i + k]
  BY <1>1
<1> QED BY <1>1, <1>2, <1>3 DEF Halves

\* list_remove takes out one element and leaves the others.
LEMMA RemoveFacts ==
  ASSUME NEW X, NEW q \in Seq(X), Once(q), NEW k \in DOMAIN q, NEW r, r = H!RemoveAt(q, k)
  PROVE  r \in Seq(X) /\ Once(r) /\ \A y : y \in Range(r) <=> y \in Range(q) /\ y # q[k]
<1>1. Len(q) \in Nat /\ DOMAIN q = 1 .. Len(q) /\ k \in 1 .. Len(q)
  OBVIOUS
<1>2. PICK a, b : a = SubSeq(q, 1, k - 1) /\ b = SubSeq(q, k + 1, Len(q))
  OBVIOUS
<1>3. /\ a \in Seq(X) /\ Len(a) = k - 1 /\ \A i \in 1 .. k - 1 : a[i] = q[i]
      /\ b \in Seq(X) /\ Len(b) = Len(q) - k /\ \A i \in 1 .. Len(q) - k : b[i] = q[i + k]
  <2>1. Halves(X, q, k, SubSeq(q, 1, k - 1), SubSeq(q, k + 1, Len(q)))
    BY <1>1, PartFacts
  <2>2. Halves(X, q, k, a, b)
    BY <1>2, <2>1
  <2> QED BY <2>2 DEF Halves
<1>4. r = a \o b
  BY <1>2 DEF H!RemoveAt
<1>5. /\ r \in Seq(X) /\ DOMAIN r = 1 .. Len(q) - 1
      /\ \A i \in 1 .. Len(q) - 1 : r[i] = IF i < k THEN q[i] ELSE q[i + 1]
  <2>1. /\ r \in Seq(X) /\ Len(r) = Len(a) + Len(b)
        /\ \A i \in 1 .. Len(a) : r[i] = a[i]
        /\ \A i \in 1 .. Len(b) : r[i + Len(a)] = b[i]
    <3>1. a \in Seq(X) /\ b \in Seq(X)
      BY <1>3
    <3>2. Joined(X, a, b, a \o b)
      BY <3>1, JoinAt, Zenon
    <3> QED BY <1>4, <3>2 DEF Joined
  <2>2. Len(r) = Len(q) - 1
    BY <1>1, <1>3, <2>1
  <2>3. ASSUME NEW i \in 1 .. Len(q) - 1 PROVE r[i] = IF i < k THEN q[i] ELSE q[i + 1]
    <3>1. CASE i < k
      BY <1>1, <1>3, <2>1, <3>1
    <3>2. CASE ~(i < k)
      <4>1. PICK j \in 1 .. Len(q) - k : j + (k - 1) = i
        <5>1. i - (k - 1) \in 1 .. Len(q) - k /\ i - (k - 1) + (k - 1) = i
          BY <1>1, <3>2
        <5> QED BY <5>1
      <4>2. r[i] = b[j]
        BY <1>3, <2>1, <4>1
      <4>3. b[j] = q[j + k] /\ j + k = i + 1
        BY <1>1, <1>3, <4>1
      <4> QED BY <3>2, <4>2, <4>3
    <3> QED BY <3>1, <3>2
  <2>4. DOMAIN r = 1 .. Len(q) - 1
    BY <2>1, <2>2
  <2>5. r \in Seq(X)
    BY <2>1
  <2> QED BY <2>3, <2>4, <2>5, Zenon
<1>6. Once(r)
  <2> SUFFICES ASSUME NEW i \in DOMAIN r, NEW j \in DOMAIN r, r[i] = r[j] PROVE i = j
    BY DEF Once
  <2>1. PICK x \in 1 .. Len(q) : r[i] = q[x] /\ x = IF i < k THEN i ELSE i + 1
    BY <1>1, <1>5
  <2>2. PICK y \in 1 .. Len(q) : r[j] = q[y] /\ y = IF j < k THEN j ELSE j + 1
    BY <1>1, <1>5
  <2>3. x = y
    BY <1>1, <2>1, <2>2 DEF Once
  <2> QED BY <1>1, <1>5, <2>1, <2>2, <2>3
<1>7. ASSUME NEW y \in Range(r) PROVE y \in Range(q) /\ y # q[k]
  <2>1. PICK i \in 1 .. Len(q) - 1 : y = r[i]
    BY <1>5 DEF Range
  <2>2. PICK x \in 1 .. Len(q) : y = q[x] /\ x # k
    BY <1>1, <1>5, <2>1
  <2> QED BY <1>1, <2>2 DEF Once, Range
<1>8. ASSUME NEW y \in Range(q), y # q[k] PROVE y \in Range(r)
  <2>1. PICK i \in 1 .. Len(q) : y = q[i] /\ i # k
    BY <1>1, <1>8 DEF Range
  <2>2. PICK j \in 1 .. Len(q) - 1 : r[j] = y
    <3>1. CASE i < k
      BY <1>1, <1>5, <2>1, <3>1
    <3>2. CASE ~(i < k)
      <4>1. i - 1 \in 1 .. Len(q) - 1 /\ ~(i - 1 < k) /\ i - 1 + 1 = i
        BY <1>1, <2>1, <3>2
      <4> QED BY <1>5, <2>1, <4>1
    <3> QED BY <3>1, <3>2
  <2> QED BY <1>5, <2>2 DEF Range
<1> QED BY <1>5, <1>6, <1>7, <1>8

-----------------------------------------------------------------------------
(* The hash table: what the operations do to the buckets.                  *)

\* h has n buckets, which hold the elements of T, each once and in its bucket.
Table(h, n, T) ==
  /\ n \in Nat \ {0} /\ h \in [0 .. n - 1 -> Seq(H!Elems)] /\ T \subseteq H!Elems
  /\ \A i \in 0 .. n - 1 : Once(h[i]) /\ \A x \in Range(h[i]) : x[1] % n = i
  /\ \A x : x \in T <=> \E i \in 0 .. n - 1 : x \in Range(h[i])

\* An element has a key and is no null pointer.
LEMMA ElemFacts ==
  \A e \in H!Elems : e[1] \in Nat /\ e[1] \in Keys /\ e # H!NULL /\ e = <<e[1], e[2]>> /\ e[2] \in Copies
<1> SUFFICES ASSUME NEW e \in H!Elems
             PROVE  e[1] \in Nat /\ e[1] \in Keys /\ e # H!NULL /\ e = <<e[1], e[2]>> /\ e[2] \in Copies
  OBVIOUS
<1>1. e[1] \in Keys /\ e = <<e[1], e[2]>> /\ e[2] \in Copies
  BY DEF H!Elems
<1>2. e[1] \in Nat
  BY <1>1, HashAssumption
<1>3. e # H!NULL
  <2>1. PICK a, b : e = <<a, b>>
    BY <1>1
  <2>2. Len(<<a, b>>) = 2 /\ Len(<<>>) = 0
    OBVIOUS
  <2>3. <<a, b>> # <<>>
    BY <2>2
  <2> QED BY <2>1, <2>3 DEF H!NULL
<1> QED BY <1>1, <1>2, <1>3

\* The instance of the hash table counts as this module does.
LEMMA HashCount ==
  ASSUME NEW S
  PROVE  H!Cardinality(S) = Cardinality(S)
  BY Zenon DEF H!Cardinality, Cardinality

\* The bucket of an element is one of the table's.
LEMMA BucketFacts ==
  ASSUME NEW h, NEW n, NEW T, Table(h, n, T)
  PROVE  /\ H!bucket_cnt(h) = n
         /\ \A e \in H!Elems : H!find_bucket(h, e) = e[1] % n /\ e[1] % n \in 0 .. n - 1
<1>1. n \in Nat /\ n > 0 /\ DOMAIN h = 0 .. n - 1
  BY DEF Table
<1>2. H!bucket_cnt(h) = n
  <2>1. Cardinality(0 .. n - 1) = n
    BY <1>1, FS_Interval
  <2> QED BY <1>1, <2>1, HashCount DEF H!bucket_cnt
<1>3. \A k \in Nat : k % n \in 0 .. n - 1
  BY <1>1
<1> QED BY <1>2, <1>3, ElemFacts DEF H!find_bucket

\* insert_elem adds one element to the table.
LEMMA TableInsert ==
  ASSUME NEW h, NEW n, NEW T, Table(h, n, T), NEW e, e \in H!Elems /\ e \notin T
  PROVE  Table(H!insert_elem(h, e), n, T \cup {e})
<1>1. PICK b : b = e[1] % n
  OBVIOUS
<1>2. b \in 0 .. n - 1 /\ H!find_bucket(h, e) = b
  BY <1>1, BucketFacts
<1>3. n \in Nat \ {0} /\ h \in [0 .. n - 1 -> Seq(H!Elems)] /\ T \subseteq H!Elems
  BY DEF Table
<1>4. PICK r : r = <<e>> \o h[b]
  OBVIOUS
<1>5. PICK g : g = [h EXCEPT ![b] = r]
  OBVIOUS
<1>6. H!insert_elem(h, e) = g
  BY <1>2, <1>3, <1>4, <1>5 DEF H!insert_elem
<1>7. h[b] \in Seq(H!Elems) /\ Once(h[b]) /\ e \notin Range(h[b]) /\ \A x \in Range(h[b]) : x[1] % n = b
  BY <1>2 DEF Table
<1>8. r \in Seq(H!Elems) /\ Once(r) /\ \A y : y \in Range(r) <=> y = e \/ y \in Range(h[b])
  <2>1. Prepended(H!Elems, h[b], e, <<e>> \o h[b])
    BY <1>7, PrependFacts
  <2> QED BY <1>4, <1>7, <2>1 DEF Prepended
<1>9. g \in [0 .. n - 1 -> Seq(H!Elems)] /\ g[b] = r /\ \A i \in (0 .. n - 1) \ {b} : g[i] = h[i]
  BY <1>2, <1>3, <1>5, <1>8
<1>10. \A i \in 0 .. n - 1 : Once(g[i]) /\ \A x \in Range(g[i]) : x[1] % n = i
  <2> SUFFICES ASSUME NEW i \in 0 .. n - 1 PROVE Once(g[i]) /\ \A x \in Range(g[i]) : x[1] % n = i
    OBVIOUS
  <2>1. CASE i = b
    BY <1>1, <1>7, <1>8, <1>9, <2>1
  <2>2. CASE i # b
    BY <1>9, <2>2 DEF Table
  <2> QED BY <2>1, <2>2
<1>11. \A x : x \in T \cup {e} <=> \E i \in 0 .. n - 1 : x \in Range(g[i])
  <2>1. ASSUME NEW x, x \in T \cup {e} PROVE \E i \in 0 .. n - 1 : x \in Range(g[i])
    <3>1. CASE x = e
      BY <1>2, <1>8, <1>9, <3>1
    <3>2. CASE x # e
      <4>1. PICK i \in 0 .. n - 1 : x \in Range(h[i])
        BY <2>1, <3>2 DEF Table
      <4>2. x \in Range(g[i])
        BY <1>8, <1>9, <4>1
      <4> QED BY <4>2
    <3> QED BY <3>1, <3>2
  <2>2. ASSUME NEW x, NEW i \in 0 .. n - 1, x \in Range(g[i]) PROVE x \in T \cup {e}
    <3>1. CASE i = b
      BY <1>2, <1>8, <1>9, <2>2, <3>1 DEF Table
    <3>2. CASE i # b
      BY <1>9, <2>2, <3>2 DEF Table
    <3> QED BY <3>1, <3>2
  <2> QED BY <2>1, <2>2
<1>12. T \cup {e} \subseteq H!Elems
  BY <1>3
<1>13. Table(g, n, T \cup {e})
  BY <1>3, <1>9, <1>10, <1>11, <1>12, Zenon DEF Table
<1> QED BY <1>6, <1>13

\* remove_elem takes one element out of the table.
LEMMA TableRemove ==
  ASSUME NEW h, NEW n, NEW T, Table(h, n, T), NEW e, e \in T
  PROVE  Table(H!remove_elem(h, e), n, T \ {e})
<1>1. PICK b : b = e[1] % n
  OBVIOUS
<1>2. e \in H!Elems /\ b \in 0 .. n - 1 /\ H!find_bucket(h, e) = b
  <2>1. e \in H!Elems
    BY DEF Table
  <2> QED BY <1>1, <2>1, BucketFacts
<1>3. n \in Nat \ {0} /\ h \in [0 .. n - 1 -> Seq(H!Elems)] /\ T \subseteq H!Elems
  BY DEF Table
<1>4. PICK q : q = h[b]
  OBVIOUS
<1>5. q \in Seq(H!Elems) /\ Once(q) /\ e \in Range(q) /\ \A x \in Range(q) : x[1] % n = b
  <2>1. q \in Seq(H!Elems) /\ Once(q) /\ \A x \in Range(q) : x[1] % n = b
    BY <1>2, <1>4 DEF Table
  <2>2. PICK i \in 0 .. n - 1 : e \in Range(h[i])
    BY DEF Table
  <2>3. i = b
    BY <1>1, <2>2 DEF Table
  <2> QED BY <1>4, <2>1, <2>2, <2>3
<1>6. PICK k : k = CHOOSE j \in DOMAIN q : q[j] = e
  OBVIOUS
<1>7. k \in DOMAIN q /\ q[k] = e
  <2>1. \E j \in DOMAIN q : q[j] = e
    BY <1>5 DEF Range
  <2> QED BY <1>6, <2>1
<1>8. PICK r : r = H!RemoveAt(q, k)
  OBVIOUS
<1>9. PICK g : g = [h EXCEPT ![b] = r]
  OBVIOUS
<1>10. H!remove_elem(h, e) = g
  BY <1>2, <1>3, <1>4, <1>6, <1>8, <1>9 DEF H!remove_elem
<1>11. r \in Seq(H!Elems) /\ Once(r) /\ \A y : y \in Range(r) <=> y \in Range(q) /\ y # e
  <2>1. r \in Seq(H!Elems) /\ Once(r) /\ \A y : y \in Range(r) <=> y \in Range(q) /\ y # q[k]
    BY <1>5, <1>7, <1>8, RemoveFacts
  <2> QED BY <1>7, <2>1
<1>12. g \in [0 .. n - 1 -> Seq(H!Elems)] /\ g[b] = r /\ \A i \in (0 .. n - 1) \ {b} : g[i] = h[i]
  BY <1>2, <1>3, <1>9, <1>11
<1>13. \A i \in 0 .. n - 1 : Once(g[i]) /\ \A x \in Range(g[i]) : x[1] % n = i
  <2> SUFFICES ASSUME NEW i \in 0 .. n - 1 PROVE Once(g[i]) /\ \A x \in Range(g[i]) : x[1] % n = i
    OBVIOUS
  <2>1. CASE i = b
    BY <1>5, <1>11, <1>12, <2>1
  <2>2. CASE i # b
    BY <1>12, <2>2 DEF Table
  <2> QED BY <2>1, <2>2
<1>14. \A x : x \in T \ {e} <=> \E i \in 0 .. n - 1 : x \in Range(g[i])
  <2>1. ASSUME NEW x, x \in T \ {e} PROVE \E i \in 0 .. n - 1 : x \in Range(g[i])
    <3>1. PICK i \in 0 .. n - 1 : x \in Range(h[i])
      BY <2>1 DEF Table
    <3>2. x \in Range(g[i])
      BY <1>4, <1>11, <1>12, <2>1, <3>1
    <3> QED BY <3>2
  <2>2. ASSUME NEW x, NEW i \in 0 .. n - 1, x \in Range(g[i]) PROVE x \in T \ {e}
    <3>1. CASE i = b
      BY <1>2, <1>4, <1>11, <1>12, <2>2, <3>1 DEF Table
    <3>2. CASE i # b
      <4>1. x \in Range(h[i]) /\ x[1] % n = i
        BY <1>12, <2>2, <3>2 DEF Table
      <4>2. x # e
        BY <1>1, <3>2, <4>1
      <4>3. x \in T
        BY <4>1 DEF Table
      <4> QED BY <4>2, <4>3
    <3> QED BY <3>1, <3>2
  <2> QED BY <2>1, <2>2
<1>15. T \ {e} \subseteq H!Elems
  BY <1>3
<1>16. Table(g, n, T \ {e})
  BY <1>3, <1>12, <1>13, <1>14, <1>15, Zenon DEF Table
<1> QED BY <1>10, <1>16

\* find_elem finds an element with the key where the table has one.
LEMMA TableFind ==
  ASSUME NEW h, NEW n, NEW T, Table(h, n, T), NEW e, e \in H!Elems
  PROVE  \/ H!find_elem(h, e) = H!NULL /\ \A x \in T : x[1] # e[1]
         \/ H!find_elem(h, e) \in T /\ H!find_elem(h, e)[1] = e[1]
<1>1. PICK b : b = e[1] % n
  OBVIOUS
<1>2. b \in 0 .. n - 1 /\ H!find_bucket(h, e) = b
  BY <1>1, BucketFacts
<1>3. PICK q : q = h[b]
  OBVIOUS
<1>4. q \in Seq(H!Elems)
  BY <1>2, <1>3 DEF Table
<1>5. PICK P : P = {j \in DOMAIN q : q[j][1] = e[1]}
  OBVIOUS
<1>6. H!equal(h, e) = P
  BY <1>2, <1>3, <1>5 DEF H!equal
<1>7. P \in SUBSET Nat
  BY <1>4, <1>5
<1>8. CASE P = {}
  <2>1. H!find_elem(h, e) = H!NULL
    BY <1>6, <1>8 DEF H!find_elem
  <2>2. ASSUME NEW x \in T, x[1] = e[1] PROVE FALSE
    <3>1. PICK i \in 0 .. n - 1 : x \in Range(h[i]) /\ x[1] % n = i
      BY DEF Table
    <3>2. i = b
      BY <1>1, <2>2, <3>1
    <3>3. PICK j \in DOMAIN q : q[j] = x
      BY <1>3, <3>1, <3>2 DEF Range
    <3> QED BY <1>5, <1>8, <2>2, <3>3
  <2> QED BY <2>1, <2>2
<1>9. CASE P # {}
  <2>1. PICK j : j = H!Min(P)
    OBVIOUS
  <2>2. j \in P
    BY <1>7, <1>9, <2>1, LeastNat DEF H!Min
  <2>3. H!find_elem(h, e) = q[j]
    BY <1>2, <1>3, <1>6, <1>9, <2>1 DEF H!find_elem
  <2>4. q[j][1] = e[1] /\ q[j] \in Range(q)
    BY <1>5, <2>2 DEF Range
  <2>5. q[j] \in T
    BY <1>2, <1>3, <2>4 DEF Table
  <2> QED BY <2>3, <2>4, <2>5
<1> QED BY <1>8, <1>9

\* w goes through the elements of T, each once.
Walk(w, T) == w \in Seq(H!Elems) /\ Once(w) /\ \A x : x \in Range(w) <=> x \in T

\* hash_apply meets every element of the table once.
LEMMA ApplyFacts ==
  ASSUME NEW h, NEW n, NEW T, Table(h, n, T) PROVE Walk(H!hash_apply(h), T)
<1> DEFINE X == Seq(H!Elems)
           S == [x \in X \X (1 .. n) |-> x[1] \o h[x[2] - 1]]
           f == CHOOSE g : g = [i \in 0 .. n |-> IF i = 0 THEN <<>> ELSE g[i - 1] \o h[i - 1]]
           Of(w, k) == /\ w \in X /\ Once(w)
                       /\ \A x : x \in Range(w) <=> \E i \in 0 .. k - 1 : x \in Range(h[i])
<1>1. n \in Nat /\ h \in [0 .. n - 1 -> X] /\ \A i \in 1 .. n : h[i - 1] \in X
  BY DEF Table
<1>2. H!hash_apply(h) = f[n]
  <2>1. H!bucket_cnt(h) = n
    BY BucketFacts
  <2> QED BY <2>1 DEF H!hash_apply
<1>3. f = [i \in 0 .. n |-> IF i = 0 THEN <<>> ELSE f[i - 1] \o h[i - 1]]
  <2>1. S \in [X \X (1 .. n) -> X]
    BY <1>1
  <2>2. \A w \in X, i \in 1 .. n : S[<<w, i>>] = w \o h[i - 1]
    OBVIOUS
  <2>3. <<>> \in X
    OBVIOUS
  <2> HIDE DEF S, X
  <2>4. PICK g : Loop(g, n, X, <<>>, S)
    BY <1>1, <2>1, <2>3, LoopExists
  <2>5. g \in [0 .. n -> X] /\ g[0] = <<>> /\ \A i \in 1 .. n : g[i] = g[i - 1] \o h[i - 1]
    <3>1. g \in [0 .. n -> X] /\ g[0] = <<>> /\ \A i \in 1 .. n : g[i] = S[<<g[i - 1], i>>]
      BY <2>4 DEF Loop
    <3>2. \A i \in 1 .. n : g[i - 1] \in X
      BY <1>1, <3>1
    <3> QED BY <2>2, <3>1, <3>2
  <2>6. g = [i \in 0 .. n |-> IF i = 0 THEN <<>> ELSE g[i - 1] \o h[i - 1]]
    <3>1. \A i \in 0 .. n : g[i] = IF i = 0 THEN <<>> ELSE g[i - 1] \o h[i - 1]
      BY <1>1, <2>5
    <3>2. g = [i \in 0 .. n |-> g[i]]
      BY <2>5
    <3> QED BY <3>1, <3>2
  <2> QED BY <2>6, Zenon
<1>4. f[0] = <<>> /\ \A i \in 1 .. n : f[i] = f[i - 1] \o h[i - 1]
  <2> HIDE DEF f
  <2>1. \A i \in 0 .. n : f[i] = IF i = 0 THEN <<>> ELSE f[i - 1] \o h[i - 1]
    BY <1>3, Zenon
  <2>2. 0 \in 0 .. n /\ \A i \in 1 .. n : i \in 0 .. n /\ i # 0
    BY <1>1
  <2> QED BY <2>1, <2>2, Zenon
<1> HIDE DEF f, S
<1>5. Of(<<>>, 0)
  BY DEF Once, Range
<1>6. ASSUME NEW w, NEW k \in 1 .. n, Of(w, k - 1) PROVE Of(w \o h[k - 1], k)
  <2>1. k - 1 \in 0 .. n - 1 /\ h[k - 1] \in X /\ Once(h[k - 1])
    BY <1>1 DEF Table
  <2>2. Range(w) \cap Range(h[k - 1]) = {}
    <3> SUFFICES ASSUME NEW x, x \in Range(w), x \in Range(h[k - 1]) PROVE FALSE
      OBVIOUS
    <3>1. PICK i \in 0 .. k - 1 - 1 : x \in Range(h[i])
      BY <1>6
    <3>2. i \in 0 .. n - 1
      BY <1>1
    <3>3. x[1] % n = i /\ x[1] % n = k - 1
      BY <2>1, <3>1, <3>2 DEF Table
    <3> QED BY <3>3
  <2>3. PICK r : r = w \o h[k - 1]
    OBVIOUS
  <2>4. r \in X /\ Once(r) /\ \A y : y \in Range(r) <=> y \in Range(w) \/ y \in Range(h[k - 1])
    <3>1. Once(w) /\ w \in X
      BY <1>6
    <3>2. Concat(H!Elems, w, h[k - 1], w \o h[k - 1])
      BY <2>1, <3>1, JoinFacts
    <3> QED BY <2>1, <2>2, <2>3, <3>1, <3>2 DEF Concat
  <2>5. \A x : (\E i \in 0 .. k - 1 : x \in Range(h[i])) <=>
               (\E i \in 0 .. k - 1 - 1 : x \in Range(h[i])) \/ x \in Range(h[k - 1])
    BY <1>1
  <2>6. \A x : x \in Range(r) <=> \E i \in 0 .. k - 1 : x \in Range(h[i])
    BY <1>6, <2>4, <2>5
  <2> QED BY <2>3, <2>4, <2>6
<1> HIDE DEF Of
<1> DEFINE U == {i \in 0 .. n : Of(f[i], i)}
<1>7. 0 \in U
  BY <1>1, <1>4, <1>5
<1>8. ASSUME NEW i \in 1 .. n, i - 1 \in U PROVE i \in U
  <2>1. Of(f[i - 1], i - 1) /\ i \in 0 .. n
    BY <1>1, <1>8
  <2>2. Of(f[i - 1] \o h[i - 1], i)
    BY <1>6, <2>1
  <2>3. Of(f[i], i)
    BY <1>4, <2>2
  <2> QED BY <2>1, <2>3
<1>9. Of(f[n], n)
  <2>1. \A i \in U : Of(f[i], i)
    OBVIOUS
  <2> HIDE DEF U
  <2>2. n \in Nat /\ n \in 0 .. n
    BY <1>1
  <2>3. n \in U
    BY <1>7, <1>8, <2>2, Climb
  <2> QED BY <2>1, <2>3
<1>10. \A x : x \in T <=> \E i \in 0 .. n - 1 : x \in Range(h[i])
  BY DEF Table
<1> QED BY <1>2, <1>9, <1>10 DEF Of, Walk

\* A table without elements.
LEMMA EmptiedFacts ==
  ASSUME NEW n, n \in Nat \ {0} PROVE Table(H!Emptied(n), n, {})
<1>1. PICK h : h = H!Emptied(n)
  OBVIOUS
<1>2. h \in [0 .. n - 1 -> Seq(H!Elems)] /\ \A i \in 0 .. n - 1 : h[i] = <<>>
  BY <1>1 DEF H!Emptied
<1>3. Once(<<>>) /\ \A x : x \notin Range(<<>>)
  BY DEF Once, Range
<1> QED BY <1>1, <1>2, <1>3 DEF Table

\* The loop of rehash moves every element.
LEMMA MovedFacts ==
  ASSUME NEW h, NEW n, NEW T, Table(h, n, T), NEW m, m \in Nat \ {0} PROVE Table(H!moved(h, m), m, T)
<1>1. PICK w : w = H!hash_apply(h)
  OBVIOUS
<1>2. w \in Seq(H!Elems) /\ Once(w) /\ \A x : x \in Range(w) <=> x \in T
  BY <1>1, ApplyFacts DEF Walk
<1>3. PICK l \in Nat : l = Len(w) /\ \A k \in 1 .. l : w[k] \in H!Elems
  BY <1>2
<1> DEFINE X == [0 .. m - 1 -> Seq(H!Elems)]
           S == [x \in X \X (1 .. l) |-> H!insert_elem(x[1], w[x[2]])]
           f == CHOOSE g : g = [k \in 0 .. l |-> IF k = 0 THEN H!Emptied(m) ELSE H!insert_elem(g[k - 1], w[k])]
           Seen(k) == {w[i] : i \in 1 .. k}
<1>4. H!moved(h, m) = f[l]
  BY <1>1, <1>3 DEF H!moved
<1>5. f = [k \in 0 .. l |-> IF k = 0 THEN H!Emptied(m) ELSE H!insert_elem(f[k - 1], w[k])]
  <2>1. \A t \in X, e \in H!Elems : H!insert_elem(t, e) \in X
    <3> SUFFICES ASSUME NEW t \in X, NEW e \in H!Elems PROVE H!insert_elem(t, e) \in X
      OBVIOUS
    <3>1. PICK b : b = H!find_bucket(t, e)
      OBVIOUS
    <3>2. b \in 0 .. m - 1
      <4>1. Cardinality(0 .. m - 1) = m
        BY FS_Interval
      <4>2. DOMAIN t = 0 .. m - 1
        OBVIOUS
      <4>3. H!bucket_cnt(t) = m
        BY <4>1, <4>2, HashCount DEF H!bucket_cnt
      <4>4. e[1] \in Nat
        BY ElemFacts
      <4>5. e[1] % m \in 0 .. m - 1
        BY <4>4
      <4> QED BY <3>1, <4>3, <4>5 DEF H!find_bucket
    <3>3. t[b] \in Seq(H!Elems)
      BY <3>2
    <3>4. PICK r : r = <<e>> \o t[b]
      OBVIOUS
    <3>5. r \in Seq(H!Elems)
      BY <3>3, <3>4
    <3>6. H!insert_elem(t, e) = [t EXCEPT ![b] = r]
      BY <3>1, <3>2, <3>4 DEF H!insert_elem
    <3> QED BY <3>2, <3>5, <3>6
  <2>2. S \in [X \X (1 .. l) -> X]
    BY <1>3, <2>1
  <2>3. \A t \in X, i \in 1 .. l : S[<<t, i>>] = H!insert_elem(t, w[i])
    OBVIOUS
  <2>4. H!Emptied(m) \in X
    BY DEF H!Emptied
  <2> HIDE DEF S, X
  <2>5. PICK g : Loop(g, l, X, H!Emptied(m), S)
    BY <2>2, <2>4, LoopExists
  <2>6. g \in [0 .. l -> X] /\ g[0] = H!Emptied(m) /\ \A i \in 1 .. l : g[i] = H!insert_elem(g[i - 1], w[i])
    <3>1. g \in [0 .. l -> X] /\ g[0] = H!Emptied(m) /\ \A i \in 1 .. l : g[i] = S[<<g[i - 1], i>>]
      BY <2>5 DEF Loop
    <3>2. \A i \in 1 .. l : g[i - 1] \in X
      BY <3>1
    <3> QED BY <2>3, <3>1, <3>2
  <2>7. g = [k \in 0 .. l |-> IF k = 0 THEN H!Emptied(m) ELSE H!insert_elem(g[k - 1], w[k])]
    <3>1. \A i \in 0 .. l : g[i] = IF i = 0 THEN H!Emptied(m) ELSE H!insert_elem(g[i - 1], w[i])
      BY <2>6
    <3>2. g = [i \in 0 .. l |-> g[i]]
      BY <2>6
    <3> QED BY <3>1, <3>2
  <2> QED BY <2>7
<1>6. f[0] = H!Emptied(m) /\ \A i \in 1 .. l : f[i] = H!insert_elem(f[i - 1], w[i])
  <2> HIDE DEF f
  <2> QED BY <1>5
<1> HIDE DEF f, S
<1> DEFINE U == {i \in 0 .. l : Table(f[i], m, Seen(i))}
<1>7. 0 \in U
  <2>1. Seen(0) = {}
    OBVIOUS
  <2> QED BY <1>6, <2>1, EmptiedFacts
<1>8. ASSUME NEW i \in 1 .. l, i - 1 \in U PROVE i \in U
  <2>1. Table(f[i - 1], m, Seen(i - 1))
    BY <1>8
  <2>2. w[i] \in H!Elems /\ w[i] \notin Seen(i - 1)
    BY <1>2, <1>3 DEF Once
  <2>3. Table(H!insert_elem(f[i - 1], w[i]), m, Seen(i - 1) \cup {w[i]})
    BY <2>1, <2>2, TableInsert
  <2>4. Seen(i - 1) \cup {w[i]} = Seen(i)
    OBVIOUS
  <2> QED BY <1>6, <2>3, <2>4
<1>9. Table(f[l], m, Seen(l))
  <2>1. \A i \in U : Table(f[i], m, Seen(i))
    OBVIOUS
  <2> HIDE DEF U
  <2>2. l \in U
    BY <1>7, <1>8, Climb
  <2> QED BY <2>1, <2>2
<1>10. Seen(l) = T
  BY <1>2, <1>3 DEF Range
<1> QED BY <1>4, <1>9, <1>10

-----------------------------------------------------------------------------
(* The hash table: the number of buckets.                                  *)

\* Twice a power of two is one: an odd number that divides 2p divides p.
LEMMA DoublePower ==
  ASSUME NEW p \in Nat \ {0}, H!is_power_of_2(p) PROVE H!is_power_of_2(2 * p)
<1> SUFFICES ASSUME NEW d \in 1 .. 2 * p, NEW q \in 1 .. 2 * p, d * q = 2 * p, d % 2 = 1 PROVE d = 1
  BY DEF H!is_power_of_2
<1>1. PICK a \in Nat : d = 2 * a + 1
  <2>1. d \div 2 \in Nat /\ d = 2 * (d \div 2) + 1
    OBVIOUS
  <2> QED BY <2>1
<1>2. PICK c \in Nat : c = a * q
  OBVIOUS
<1>3. d * q = 2 * c + q
  BY <1>1, <1>2
<1>4. PICK b \in Nat : b = p - c /\ q = 2 * b
  <2>1. q = 2 * (p - c) /\ p - c \in Int
    BY <1>3
  <2>2. p - c \in Nat
    BY <2>1
  <2> QED BY <2>1, <2>2
<1>5. PICK e \in Nat : e = d * b
  OBVIOUS
<1>6. d * q = 2 * e
  BY <1>4, <1>5
<1>7. d * b = p
  BY <1>5, <1>6
<1>8. d \in 1 .. p /\ b \in 1 .. p
  <2>1. b >= 1 /\ d >= 1
    BY <1>4
  <2>2. d * b >= d /\ d * b >= b
    BY <2>1
  <2> QED BY <1>7, <2>1, <2>2
<1> QED BY <1>7, <1>8 DEF H!is_power_of_2

\* There is a power of two to choose, so rehash ends with one.
LEMMA CountFacts ==
  ASSUME NEW cnt \in Nat PROVE H!new_bucket_cnt(cnt) \in Nat \ {0} /\ H!is_power_of_2(H!new_bucket_cnt(cnt))
<1>1. PICK least \in Nat \ {0} : least = IF cnt \div BEST_ELEMS_PER_BUCKET < MIN_BUCKETS THEN MIN_BUCKETS
                                         ELSE cnt \div BEST_ELEMS_PER_BUCKET
  <2>1. MIN_BUCKETS \in Nat /\ MIN_BUCKETS # 0
    BY HashAssumption DEF H!is_power_of_2
  <2>2. cnt \div BEST_ELEMS_PER_BUCKET \in Nat
    BY HashAssumption
  <2> QED BY <2>1, <2>2
<1> DEFINE T == {x \in 0 .. least : least - x \in 1 .. least /\ H!is_power_of_2(least - x)}
<1>2. /\ T \in SUBSET Nat
      /\ \A x : x \in T <=> x \in 0 .. least /\ least - x \in 1 .. least /\ H!is_power_of_2(least - x)
  OBVIOUS
<1> HIDE DEF T
<1>3. H!is_power_of_2(1)
  BY DEF H!is_power_of_2
<1>4. T # {}
  <2>1. PICK x \in 0 .. least : least - x = 1 /\ 1 \in 1 .. least
    <3>1. least - 1 \in 0 .. least /\ least - (least - 1) = 1 /\ 1 \in 1 .. least
      OBVIOUS
    <3> QED BY <3>1
  <2>2. x \in T
    BY <1>2, <1>3, <2>1
  <2> QED BY <2>2
<1>5. PICK x \in T : \A y \in T : x <= y
  BY <1>2, <1>4, LeastNat
<1>6. PICK p \in 1 .. least : p = least - x /\ H!is_power_of_2(p)
  BY <1>2, <1>5
<1>7. 2 * p > least
  <2> SUFFICES ASSUME 2 * p <= least PROVE FALSE
    OBVIOUS
  <2>1. H!is_power_of_2(2 * p)
    BY <1>6, DoublePower
  <2>2. least - 2 * p \in 0 .. least /\ least - (least - 2 * p) = 2 * p /\ 2 * p \in 1 .. least
    OBVIOUS
  <2>3. least - 2 * p \in T
    BY <1>2, <2>1, <2>2
  <2> QED BY <1>2, <1>5, <1>6, <2>3
<1>8. H!new_bucket_cnt(cnt) = CHOOSE z \in 1 .. least : H!is_power_of_2(z) /\ 2 * z > least
  BY <1>1 DEF H!new_bucket_cnt
<1>9. H!new_bucket_cnt(cnt) \in 1 .. least /\ H!is_power_of_2(H!new_bucket_cnt(cnt))
  BY <1>6, <1>7, <1>8
<1> QED BY <1>9

-----------------------------------------------------------------------------
(* The hash table and what its callers were told.                          *)

\* A key maps to nothing or to an element with that key.
MapType(mp) ==
  /\ mp \in [Keys -> H!Elems \cup {H!NULL}]
  /\ \A k \in Keys : mp[k] # H!NULL => mp[k] \in H!Elems /\ mp[k][1] = k

\* The elements that callers were told are in the table, and their keys.
InMap(mp) == {e \in H!Elems : mp[e[1]] = e}
UsedKeys(mp) == {k \in Keys : mp[k] # H!NULL}

\* The invariant: the buckets hold what the map says, in a power of two of them.
HashInv ==
  /\ MapType(map) /\ elem_cnt = Cardinality(UsedKeys(map))
  /\ \E n : H!is_power_of_2(n) /\ Table(buckets, n, InMap(map))

\* What is left to show after the buckets were changed and rehashed.
HashStep(n, T, c, mp) ==
  /\ c \in Nat /\ MapType(mp) /\ c = Cardinality(UsedKeys(mp)) /\ T = InMap(mp)
  /\ H!is_power_of_2(n)

\* rehash keeps the elements, whether malloc fails or not.
LEMMA RehashFacts ==
  ASSUME NEW h, NEW n, NEW T, Table(h, n, T), NEW c, NEW mp, HashStep(n, T, c, mp), H!rehash(h, c),
         elem_cnt' = c, map' = mp
  PROVE  HashInv'
<1>1. c \in Nat /\ MapType(mp) /\ c = Cardinality(UsedKeys(mp)) /\ T = InMap(mp) /\ H!is_power_of_2(n)
  BY DEF HashStep
<1>2. PICK m : m = H!new_bucket_cnt(c)
  OBVIOUS
<1>3. m \in Nat \ {0} /\ H!is_power_of_2(m)
  BY <1>1, <1>2, CountFacts
<1>4. buckets' = h \/ buckets' = H!moved(h, m)
  BY <1>2 DEF H!rehash
<1>5. Table(H!moved(h, m), m, T)
  BY <1>3, MovedFacts
<1>6. \E k : H!is_power_of_2(k) /\ Table(buckets', k, T)
  BY <1>1, <1>3, <1>4, <1>5
<1> QED BY <1>1, <1>6 DEF HashInv

\* One key changes.
Assigning(mp, k, v, mq) ==
  /\ MapType(mp) /\ k \in Keys /\ mq = [mp EXCEPT ![k] = v]
  /\ v = H!NULL \/ (v \in H!Elems /\ v[1] = k)
Assigned(mp, k, v, mq) ==
  /\ MapType(mq)
  /\ \A x : x \in InMap(mq) <=> (x \in InMap(mp) /\ x[1] # k) \/ (x = v /\ v # H!NULL)
  /\ UsedKeys(mq) = IF v = H!NULL THEN UsedKeys(mp) \ {k} ELSE UsedKeys(mp) \cup {k}

\* One assignment changes what is in the map under its key, and nothing else.
LEMMA MapPut ==
  ASSUME NEW mp, NEW k, NEW v, NEW mq, Assigning(mp, k, v, mq) PROVE Assigned(mp, k, v, mq)
<1>1. /\ mp \in [Keys -> H!Elems \cup {H!NULL}] /\ k \in Keys /\ mq = [mp EXCEPT ![k] = v]
      /\ v = H!NULL \/ (v \in H!Elems /\ v[1] = k)
      /\ \A j \in Keys : mp[j] = H!NULL \/ mp[j][1] = j
  BY DEF MapType, Assigning
<1>2. mq \in [Keys -> H!Elems \cup {H!NULL}] /\ mq[k] = v /\ \A j \in Keys \ {k} : mq[j] = mp[j]
  BY <1>1
<1>3. MapType(mq)
  BY <1>1, <1>2 DEF MapType
<1>4. \A x \in H!Elems : x[1] \in Keys /\ x # H!NULL
  BY ElemFacts
<1>5. \A x : x \in InMap(mq) <=> (x \in InMap(mp) /\ x[1] # k) \/ (x = v /\ v # H!NULL)
  BY <1>1, <1>2, <1>4 DEF InMap
<1>6. UsedKeys(mq) = IF v = H!NULL THEN UsedKeys(mp) \ {k} ELSE UsedKeys(mp) \cup {k}
  BY <1>1, <1>2 DEF UsedKeys
<1> QED BY <1>3, <1>5, <1>6 DEF Assigned

\* The number of keys in use is a number.
LEMMA KeysFinite ==
  ASSUME NEW mp PROVE IsFiniteSet(UsedKeys(mp)) /\ Cardinality(UsedKeys(mp)) \in Nat
<1>1. UsedKeys(mp) \in SUBSET Keys /\ IsFiniteSet(Keys)
  BY HashAssumption DEF UsedKeys
<1>2. IsFiniteSet(UsedKeys(mp))
  BY <1>1, FS_Subset
<1> QED BY <1>2, FS_CardinalityType

\* An element of the table is what its key maps to.
LEMMA KeyFacts ==
  ASSUME NEW mp, MapType(mp)
  PROVE  /\ \A x \in InMap(mp) : x \in H!Elems /\ x[1] \in Keys /\ mp[x[1]] = x /\ x[1] \in UsedKeys(mp)
         /\ \A k \in UsedKeys(mp) : k \in Keys /\ mp[k] \in InMap(mp) /\ mp[k][1] = k
<1>1. \A x \in H!Elems : x[1] \in Keys /\ x # H!NULL
  BY ElemFacts
<1>2. \A x \in InMap(mp) : x \in H!Elems /\ x[1] \in Keys /\ mp[x[1]] = x /\ x[1] \in UsedKeys(mp)
  BY <1>1 DEF InMap, UsedKeys
<1>3. \A k \in UsedKeys(mp) : k \in Keys /\ mp[k] \in InMap(mp) /\ mp[k][1] = k
  BY DEF MapType, InMap, UsedKeys
<1> QED BY <1>2, <1>3

\* find_elem tells what the key maps to.
LEMMA FindFacts ==
  ASSUME NEW h, NEW n, NEW mp, MapType(mp), Table(h, n, InMap(mp)), NEW e, e \in H!Elems
  PROVE  H!find_elem(h, e) = mp[e[1]]
<1>1. PICK x : x = H!find_elem(h, e)
  OBVIOUS
<1>2. (x = H!NULL /\ \A y \in InMap(mp) : y[1] # e[1]) \/ (x \in InMap(mp) /\ x[1] = e[1])
  BY <1>1, TableFind
<1>3. e[1] \in Keys
  BY ElemFacts
<1>4. CASE x = H!NULL /\ \A y \in InMap(mp) : y[1] # e[1]
  <2>1. e[1] \notin UsedKeys(mp)
    BY <1>4, KeyFacts
  <2> QED BY <1>1, <1>3, <1>4, <2>1 DEF UsedKeys
<1>5. CASE x \in InMap(mp) /\ x[1] = e[1]
  BY <1>1, <1>5, KeyFacts
<1> QED BY <1>2, <1>4, <1>5

\* The table after an element was put under a key that had none.
LEMMA PutNew ==
  ASSUME NEW h, NEW n, NEW mp, MapType(mp), Table(h, n, InMap(mp)), H!is_power_of_2(n),
         NEW e, e \in H!Elems, mp[e[1]] = H!NULL, NEW mq, mq = [mp EXCEPT ![e[1]] = e],
         NEW c, c = Cardinality(UsedKeys(mp)) + 1
  PROVE  Table(H!insert_elem(h, e), n, InMap(mq)) /\ HashStep(n, InMap(mq), c, mq)
<1>1. e[1] \in Keys /\ e # H!NULL
  BY ElemFacts
<1>2. /\ MapType(mq) /\ UsedKeys(mq) = UsedKeys(mp) \cup {e[1]}
      /\ \A x : x \in InMap(mq) <=> (x \in InMap(mp) /\ x[1] # e[1]) \/ x = e
  <2>1. PICK k : k = e[1]
    OBVIOUS
  <2>2. Assigning(mp, k, e, mq)
    BY <1>1, <2>1 DEF Assigning
  <2>3. Assigned(mp, k, e, mq)
    BY <2>2, MapPut
  <2> QED BY <1>1, <2>1, <2>3 DEF Assigned
<1>3. \A x \in InMap(mp) : x[1] # e[1]
  BY <1>1, KeyFacts DEF UsedKeys
<1>4. InMap(mq) = InMap(mp) \cup {e} /\ e \notin InMap(mp)
  BY <1>2, <1>3
<1>5. Table(H!insert_elem(h, e), n, InMap(mp) \cup {e})
  BY <1>4, TableInsert
<1>6. e[1] \notin UsedKeys(mp)
  BY DEF UsedKeys
<1>7. Cardinality(UsedKeys(mp) \cup {e[1]}) = Cardinality(UsedKeys(mp)) + 1
  BY <1>6, KeysFinite, FS_AddElement
<1>8. c \in Nat /\ c = Cardinality(UsedKeys(mq))
  BY <1>2, <1>7, KeysFinite
<1> QED BY <1>2, <1>4, <1>5, <1>8 DEF HashStep

\* The table without the element of a key.
LEMMA TakeOld ==
  ASSUME NEW h, NEW n, NEW mp, MapType(mp), Table(h, n, InMap(mp)), H!is_power_of_2(n),
         NEW k \in Keys, mp[k] # H!NULL, NEW mq, mq = [mp EXCEPT ![k] = H!NULL],
         NEW c, c = Cardinality(UsedKeys(mp)) - 1
  PROVE  Table(H!remove_elem(h, mp[k]), n, InMap(mq)) /\ HashStep(n, InMap(mq), c, mq)
<1>1. k \in UsedKeys(mp)
  BY DEF UsedKeys
<1>2. mp[k] \in InMap(mp) /\ mp[k][1] = k
  BY <1>1, KeyFacts
<1>3. /\ MapType(mq) /\ UsedKeys(mq) = UsedKeys(mp) \ {k}
      /\ \A x : x \in InMap(mq) <=> x \in InMap(mp) /\ x[1] # k
  <2>1. PICK v : v = H!NULL
    OBVIOUS
  <2>2. Assigning(mp, k, v, mq)
    BY <2>1 DEF Assigning
  <2>3. Assigned(mp, k, v, mq)
    BY <2>2, MapPut
  <2> QED BY <2>1, <2>3 DEF Assigned
<1>4. \A x \in InMap(mp) : x[1] = k => x = mp[k]
  BY KeyFacts
<1>5. InMap(mq) = InMap(mp) \ {mp[k]}
  BY <1>2, <1>3, <1>4
<1>6. Table(H!remove_elem(h, mp[k]), n, InMap(mp) \ {mp[k]})
  BY <1>2, TableRemove
<1>7. Cardinality(UsedKeys(mp) \ {k}) = Cardinality(UsedKeys(mp)) - 1
  BY <1>1, KeysFinite, FS_RemoveElement
<1>8. c \in Nat /\ c = Cardinality(UsedKeys(mq))
  BY <1>3, <1>7, KeysFinite
<1> QED BY <1>3, <1>5, <1>6, <1>8 DEF HashStep

\* hash_insert keeps the invariant, whether the key was there and whether malloc failed.
LEMMA InsertStep ==
  ASSUME HashInv, NEW e \in H!Elems, H!hash_insert(e) PROVE HashInv'
<1>1. PICK n : H!is_power_of_2(n) /\ Table(buckets, n, InMap(map))
  BY DEF HashInv
<1>2. MapType(map) /\ elem_cnt = Cardinality(UsedKeys(map)) /\ elem_cnt \in Nat
  BY KeysFinite DEF HashInv
<1>3. H!find_elem(buckets, e) = map[e[1]]
  BY <1>1, <1>2, FindFacts
<1>4. CASE map[e[1]] = H!NULL
  <2>1. PICK mq, c, h : /\ mq = [map EXCEPT ![e[1]] = e] /\ c = elem_cnt + 1
                        /\ h = H!insert_elem(buckets, e)
    OBVIOUS
  <2>2. elem_cnt' = c /\ map' = mq /\ H!rehash(h, c)
    BY <1>3, <1>4, <2>1 DEF H!hash_insert
  <2>3. Table(h, n, InMap(mq)) /\ HashStep(n, InMap(mq), c, mq)
    BY <1>1, <1>2, <1>4, <2>1, PutNew
  <2> QED BY <2>2, <2>3, RehashFacts
<1>5. CASE map[e[1]] # H!NULL
  <2>1. elem_cnt' = elem_cnt /\ map' = map /\ H!rehash(buckets, elem_cnt)
    BY <1>3, <1>5 DEF H!hash_insert
  <2>2. HashStep(n, InMap(map), elem_cnt, map)
    BY <1>1, <1>2 DEF HashStep
  <2> QED BY <1>1, <2>1, <2>2, RehashFacts
<1> QED BY <1>4, <1>5

\* hash_replace keeps the invariant, also in between its removal and its insertion.
LEMMA ReplaceStep ==
  ASSUME HashInv, NEW e \in H!Elems, H!hash_replace(e) PROVE HashInv'
<1>1. PICK n : H!is_power_of_2(n) /\ Table(buckets, n, InMap(map))
  BY DEF HashInv
<1>2. MapType(map) /\ elem_cnt = Cardinality(UsedKeys(map)) /\ elem_cnt \in Nat
  BY KeysFinite DEF HashInv
<1>3. H!find_elem(buckets, e) = map[e[1]]
  BY <1>1, <1>2, FindFacts
<1>4. e[1] \in Keys /\ e # H!NULL
  BY ElemFacts
<1>5. CASE map[e[1]] = H!NULL
  <2>1. PICK mq, c, h : /\ mq = [map EXCEPT ![e[1]] = e] /\ c = elem_cnt + 1
                        /\ h = H!insert_elem(buckets, e)
    OBVIOUS
  <2>2. elem_cnt' = c /\ map' = mq /\ H!rehash(h, c)
    BY <1>3, <1>5, <2>1 DEF H!hash_replace
  <2>3. Table(h, n, InMap(mq)) /\ HashStep(n, InMap(mq), c, mq)
    BY <1>1, <1>2, <1>5, <2>1, PutNew
  <2> QED BY <2>2, <2>3, RehashFacts
<1>6. CASE map[e[1]] # H!NULL
  <2>1. PICK mz, d, g : /\ mz = [map EXCEPT ![e[1]] = H!NULL] /\ d = elem_cnt - 1
                        /\ g = H!remove_elem(buckets, map[e[1]])
    OBVIOUS
  <2>2. PICK mq, h : mq = [mz EXCEPT ![e[1]] = e] /\ h = H!insert_elem(g, e)
    OBVIOUS
  <2>3. mz[e[1]] = H!NULL /\ mq = [map EXCEPT ![e[1]] = e]
    BY <1>2, <1>4, <2>1, <2>2 DEF MapType
  <2>4. elem_cnt' = elem_cnt /\ map' = mq /\ H!rehash(h, elem_cnt)
    BY <1>3, <1>6, <2>1, <2>2, <2>3 DEF H!hash_replace
  <2>5. Table(g, n, InMap(mz)) /\ HashStep(n, InMap(mz), d, mz)
    BY <1>1, <1>2, <1>4, <1>6, <2>1, TakeOld
  <2>6. MapType(mz) /\ elem_cnt = Cardinality(UsedKeys(mz)) + 1
    BY <1>2, <2>1, <2>5 DEF HashStep
  <2>7. Table(h, n, InMap(mq)) /\ HashStep(n, InMap(mq), elem_cnt, mq)
    BY <1>1, <2>2, <2>3, <2>5, <2>6, PutNew
  <2> QED BY <2>4, <2>7, RehashFacts
<1> QED BY <1>5, <1>6

\* hash_delete keeps the invariant.
LEMMA DeleteStep ==
  ASSUME HashInv, NEW e \in H!Elems, H!hash_delete(e) PROVE HashInv'
<1>1. PICK n : H!is_power_of_2(n) /\ Table(buckets, n, InMap(map))
  BY DEF HashInv
<1>2. MapType(map) /\ elem_cnt = Cardinality(UsedKeys(map)) /\ elem_cnt \in Nat
  BY KeysFinite DEF HashInv
<1>3. H!find_elem(buckets, e) = map[e[1]] /\ e[1] \in Keys
  BY <1>1, <1>2, FindFacts, ElemFacts
<1>4. PICK mq, c, h : /\ mq = [map EXCEPT ![e[1]] = H!NULL] /\ c = elem_cnt - 1
                      /\ h = H!remove_elem(buckets, map[e[1]])
  OBVIOUS
<1>5. map[e[1]] # H!NULL /\ elem_cnt' = c /\ map' = mq /\ H!rehash(h, c)
  BY <1>3, <1>4 DEF H!hash_delete
<1>6. Table(h, n, InMap(mq)) /\ HashStep(n, InMap(mq), c, mq)
  BY <1>1, <1>2, <1>3, <1>4, <1>5, TakeOld
<1> QED BY <1>5, <1>6, RehashFacts

\* A map that is empty.
LEMMA NoElems ==
  ASSUME NEW mp, mp = [k \in Keys |-> H!NULL]
  PROVE  MapType(mp) /\ InMap(mp) = {} /\ Cardinality(UsedKeys(mp)) = 0
<1>1. \A k \in Keys : mp[k] = H!NULL
  OBVIOUS
<1>2. MapType(mp)
  BY <1>1 DEF MapType
<1>3. InMap(mp) = {}
  BY <1>1, ElemFacts DEF InMap
<1>4. UsedKeys(mp) = {}
  BY <1>1 DEF UsedKeys
<1> QED BY <1>2, <1>3, <1>4, FS_EmptySet

\* hash_clear keeps the invariant and the number of buckets.
LEMMA ClearStep ==
  ASSUME HashInv, H!hash_clear PROVE HashInv'
<1>1. PICK n : H!is_power_of_2(n) /\ Table(buckets, n, InMap(map))
  BY DEF HashInv
<1>2. n \in Nat \ {0} /\ H!bucket_cnt(buckets) = n
  BY <1>1, BucketFacts DEF Table
<1>3. buckets' = H!Emptied(n) /\ elem_cnt' = 0 /\ map' = [k \in Keys |-> H!NULL]
  BY <1>2 DEF H!hash_clear
<1>4. MapType(map') /\ InMap(map') = {} /\ Cardinality(UsedKeys(map')) = 0
  BY <1>3, NoElems
<1>5. Table(buckets', n, InMap(map'))
  BY <1>2, <1>3, <1>4, EmptiedFacts
<1> QED BY <1>1, <1>3, <1>4, <1>5 DEF HashInv

\* hash_init establishes the invariant.
LEMMA HashInitial == H!HashInit => HashInv
<1> SUFFICES ASSUME H!HashInit PROVE HashInv
  OBVIOUS
<1>1. buckets = H!Emptied(MIN_BUCKETS) /\ elem_cnt = 0 /\ map = [k \in Keys |-> H!NULL]
  BY DEF H!HashInit
<1>2. MIN_BUCKETS \in Nat \ {0} /\ H!is_power_of_2(MIN_BUCKETS)
  BY HashAssumption DEF H!is_power_of_2
<1>3. MapType(map) /\ InMap(map) = {} /\ Cardinality(UsedKeys(map)) = 0
  BY <1>1, NoElems
<1>4. Table(buckets, MIN_BUCKETS, InMap(map))
  BY <1>1, <1>2, <1>3, EmptiedFacts
<1> QED BY <1>1, <1>2, <1>3, <1>4 DEF HashInv

\* The invariant gives what TableIsMap asks for.
LEMMA MapHolds == HashInv => TableIsMap
<1> SUFFICES ASSUME HashInv PROVE TableIsMap
  OBVIOUS
<1>1. PICK n : H!is_power_of_2(n) /\ Table(buckets, n, InMap(map))
  BY DEF HashInv
<1>2. MapType(map) /\ elem_cnt = Cardinality(UsedKeys(map)) /\ elem_cnt \in Nat
  BY KeysFinite DEF HashInv
<1>3. ASSUME NEW k \in Keys, NEW c \in Copies PROVE H!find_elem(buckets, <<k, c>>) = map[k]
  <2>1. PICK e : e = <<k, c>>
    OBVIOUS
  <2>2. e \in H!Elems /\ e[1] = k
    BY <2>1 DEF H!Elems
  <2>3. H!find_elem(buckets, e) = map[e[1]]
    BY <1>1, <1>2, <2>2, FindFacts
  <2> QED BY <2>1, <2>2, <2>3
<1>4. elem_cnt = H!Cardinality({k \in Keys : map[k] # H!NULL})
  BY <1>2, HashCount DEF UsedKeys
<1>5. PICK w : w = H!hash_apply(buckets)
  OBVIOUS
<1>6. Len(w) = elem_cnt
  <2>1. w \in Seq(H!Elems) /\ Once(w) /\ \A x : x \in Range(w) <=> x \in InMap(map)
    BY <1>1, <1>5, ApplyFacts DEF Walk
  <2>2. PICK l \in Nat : l = Len(w) /\ DOMAIN w = 1 .. l
    BY <2>1
  <2>3. PICK f : f = [i \in 1 .. l |-> w[i][1]]
    OBVIOUS
  <2>4. \A i \in 1 .. l : w[i] \in InMap(map) /\ f[i] = w[i][1]
    BY <2>1, <2>2, <2>3 DEF Range
  <2>5. \A i \in 1 .. l : f[i] \in UsedKeys(map) /\ map[f[i]] = w[i]
    BY <1>2, <2>4, KeyFacts
  <2>6. f \in [1 .. l -> UsedKeys(map)]
    BY <2>3, <2>5
  <2>7. \A i, j \in 1 .. l : f[i] = f[j] => i = j
    BY <2>1, <2>2, <2>5 DEF Once
  <2>8. \A k \in UsedKeys(map) : \E i \in 1 .. l : f[i] = k
    <3> SUFFICES ASSUME NEW k \in UsedKeys(map) PROVE \E i \in 1 .. l : f[i] = k
      OBVIOUS
    <3>1. map[k] \in InMap(map) /\ map[k][1] = k
      BY <1>2, KeyFacts
    <3>2. PICK i \in 1 .. l : w[i] = map[k]
      BY <2>1, <2>2, <3>1 DEF Range
    <3> QED BY <2>4, <3>1, <3>2
  <2>9. f \in Bijection(1 .. l, UsedKeys(map))
    BY <2>6, <2>7, <2>8 DEF Bijection, Injection, Surjection, IsInjective
  <2>10. IsFiniteSet(1 .. l) /\ Cardinality(1 .. l) = l
    BY FS_Interval
  <2>11. Cardinality(UsedKeys(map)) = Cardinality(1 .. l)
    BY <2>9, <2>10, FS_Bijection DEF ExistsBijection
  <2> QED BY <1>2, <2>2, <2>10, <2>11
<1>7. H!is_power_of_2(H!bucket_cnt(buckets))
  BY <1>1, BucketFacts
<1> QED BY <1>3, <1>4, <1>5, <1>6, <1>7 DEF TableIsMap, H!TableIsMap

\* Whatever rehashes happened or failed, and whatever the hashes are: find_elem
\* returns exactly the element that hash_insert or hash_replace put under a key
\* and hash_delete has not removed, elem_cnt is the number of keys, hash_apply
\* meets every element once, and the number of buckets is a power of two.
THEOREM TableAlwaysMap == KSpec => []TableIsMap
<1>1. KInit => HashInv
  BY HashInitial DEF KInit
<1>2. HashInv /\ [KNext]_allVars => HashInv'
  <2> SUFFICES ASSUME HashInv, [KNext]_allVars PROVE HashInv'
    OBVIOUS
  <2>1. H!HashNext \/ UNCHANGED hashVars
    BY DEF KNext, allVars
  <2>2. CASE UNCHANGED hashVars
    BY <2>2 DEF hashVars, HashInv
  <2>3. CASE H!HashNext
    <3>1. (\E e \in H!Elems : H!hash_insert(e) \/ H!hash_replace(e) \/ H!hash_delete(e)) \/ H!hash_clear
      BY <2>3 DEF H!HashNext
    <3> QED BY <3>1, InsertStep, ReplaceStep, DeleteStep, ClearStep
  <2> QED BY <2>1, <2>2, <2>3
<1> QED BY <1>1, <1>2, MapHolds, PTL DEF KSpec
=============================================================================
