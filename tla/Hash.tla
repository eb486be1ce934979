-------------------------------- MODULE Hash --------------------------------
(***************************************************************************)
(* The hash table of lib/kernel/hash.c, which holds the supplemental page  *)
(* tables: buckets are lists, their number a power of two that follows the *)
(* number of elements and stays as it was when malloc fails.  map is what  *)
(* the callers were told is in the table.                                  *)
(***************************************************************************)
EXTENDS Naturals, FiniteSets, Sequences, SequencesExt

CONSTANTS Keys,           \* hash values; two elements with one key are equal
          Copies,         \* elements per key
          MIN_BUCKETS,    \* 4 in the code
          BEST_ELEMS_PER_BUCKET

VARIABLES buckets, elem_cnt, map

hashVars == <<buckets, elem_cnt, map>>

Elems == Keys \X Copies
NULL == <<>>
bucket_cnt(h) == Cardinality(DOMAIN h)
Emptied(n) == [i \in 0..n - 1 |-> <<>>]

find_bucket(h, e) == e[1] % bucket_cnt(h)

\* The first element of the bucket that is equal to e.
equal(h, e) == {j \in DOMAIN h[find_bucket(h, e)] : h[find_bucket(h, e)][j][1] = e[1]}
find_elem(h, e) == IF equal(h, e) = {} THEN NULL ELSE h[find_bucket(h, e)][Min(equal(h, e))]

insert_elem(h, e) == [h EXCEPT ![find_bucket(h, e)] = <<e>> \o @]
remove_elem(h, e) ==
    LET at == CHOOSE j \in DOMAIN h[find_bucket(h, e)] : h[find_bucket(h, e)][j] = e
    IN [h EXCEPT ![find_bucket(h, e)] = RemoveAt(@, at)]

\* hash_first, hash_next and hash_apply: bucket after bucket.
hash_apply(h) ==
    LET upto[n \in 0..bucket_cnt(h)] == IF n = 0 THEN <<>> ELSE upto[n - 1] \o h[n - 1]
    IN upto[bucket_cnt(h)]

-----------------------------------------------------------------------------
\* One bit is set: no odd number but 1 divides x.
is_power_of_2(x) == x # 0 /\ \A d, q \in 1..x : d * q = x /\ d % 2 = 1 => d = 1

\* Turning off the lowest bits leaves the highest one.
new_bucket_cnt(cnt) ==
    LET want == cnt \div BEST_ELEMS_PER_BUCKET
        least == IF want < MIN_BUCKETS THEN MIN_BUCKETS ELSE want
    IN CHOOSE p \in 1..least : is_power_of_2(p) /\ 2 * p > least

\* Every element in turn goes to the front of its bucket.
moved(h, n) ==
    LET walk == hash_apply(h)
        filled[k \in 0..Len(walk)] == IF k = 0 THEN Emptied(n) ELSE insert_elem(filled[k - 1], walk[k])
    IN filled[Len(walk)]

\* A wrong rehash: an element keeps the bucket it had under the old count.
rehash_Early(h, cnt) ==
    LET n == new_bucket_cnt(cnt)
    IN buckets' \in {h, [i \in 0..n - 1 |-> IF i \in DOMAIN h THEN h[i] ELSE <<>>]}

\* malloc may fail, and the old buckets stay.
rehash(h, cnt) ==
    LET n == new_bucket_cnt(cnt)
    IN buckets' \in IF n = bucket_cnt(h) THEN {h} ELSE {h, moved(h, n)}

-----------------------------------------------------------------------------
\* The table starts after a hash_init that succeeded.  Its malloc may fail and
\* leave a table without buckets (hash.c:34-40); supplemental_page_table_init
\* does not look at the answer (vm.c:424).  Such a table is not modelled.
HashInit == /\ buckets = Emptied(MIN_BUCKETS)
            /\ elem_cnt = 0
            /\ map = [k \in Keys |-> NULL]

hash_insert(e) ==
    LET old == find_elem(buckets, e)
    IN /\ \A i \in DOMAIN buckets : ~Contains(buckets[i], e)
       /\ elem_cnt' = IF old = NULL THEN elem_cnt + 1 ELSE elem_cnt
       /\ rehash(IF old = NULL THEN insert_elem(buckets, e) ELSE buckets, elem_cnt')
       /\ map' = IF old = NULL THEN [map EXCEPT ![e[1]] = e] ELSE map

hash_replace(e) ==
    LET old == find_elem(buckets, e)
    IN /\ \A i \in DOMAIN buckets : ~Contains(buckets[i], e)
       /\ elem_cnt' = IF old = NULL THEN elem_cnt + 1 ELSE elem_cnt
       /\ rehash(insert_elem(IF old = NULL THEN buckets ELSE remove_elem(buckets, old), e), elem_cnt')
       /\ map' = [map EXCEPT ![e[1]] = e]

hash_delete(e) ==
    LET found == find_elem(buckets, e)
    IN /\ found # NULL
       /\ elem_cnt' = elem_cnt - 1
       /\ rehash(remove_elem(buckets, found), elem_cnt')
       /\ map' = [map EXCEPT ![e[1]] = NULL]

\* The number of buckets stays.
hash_clear ==
    /\ buckets' = Emptied(bucket_cnt(buckets))
    /\ elem_cnt' = 0
    /\ map' = [k \in Keys |-> NULL]

HashNext == \/ \E e \in Elems : hash_insert(e) \/ hash_replace(e) \/ hash_delete(e)
            \/ hash_clear

-----------------------------------------------------------------------------
(* Properties *)

\* Whatever rehashes happened or failed, hash_find returns exactly the element
\* that was inserted under a key, the count is exact and a walk over the table
\* meets every element once.
TableIsMap ==
    /\ \A k \in Keys, c \in Copies : find_elem(buckets, <<k, c>>) = map[k]
    /\ elem_cnt = Cardinality({k \in Keys : map[k] # NULL})
    /\ Len(hash_apply(buckets)) = elem_cnt
    /\ is_power_of_2(bucket_cnt(buckets))
=============================================================================
