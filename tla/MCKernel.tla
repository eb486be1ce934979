------------------------------ MODULE MCKernel ------------------------------
(***************************************************************************)
(* The kernel's allocators, hash table, page tables and feedback scheduler *)
(* share no state: a run exercises one of them, chosen at the start.       *)
(***************************************************************************)
EXTENDS Memory, Integers

CONSTANTS Keys, Copies, MIN_BUCKETS, BEST_ELEMS_PER_BUCKET,
          Pool, UserFrames, Indices, Vas, Users,
          MThreads, F, TIMER_FREQ, Nices, MaxTicks, MaxCalls

ASSUME MlfqsAssumption ==
    /\ IsFiniteSet(MThreads)
    /\ F \in Nat \ {0} /\ TIMER_FREQ \in Nat \ {0}
    /\ Nices \subseteq Int

\* An index of the user's part of a pml4 is 0; a page is named by a number.
ASSUME PageTablesAssumption ==
    /\ Pool \subseteq Nat \ {0} /\ UserFrames \subseteq Nat \ {0}
    /\ 0 \in Indices /\ Vas \subseteq Indices \X Indices \X Indices

VARIABLES part, buckets, elem_cnt, map,
          used_pages, table, pml4, mapped,
          ticks, cur, nice, recent_cpu, load_avg, priority, donations, local, touched, calls

H == INSTANCE Hash
PT == INSTANCE PageTables
M == INSTANCE Mlfqs

\* A hash is a number; the table starts with a power of two of buckets.
ASSUME HashAssumption ==
    /\ Keys \subseteq Nat /\ IsFiniteSet(Keys)
    /\ MIN_BUCKETS \in Nat /\ H!is_power_of_2(MIN_BUCKETS)
    /\ BEST_ELEMS_PER_BUCKET \in Nat \ {0}

hashVars == <<buckets, elem_cnt, map>>
ptVars == <<used_pages, table, pml4, mapped>>
mlfqsVars == <<ticks, cur, nice, recent_cpu, load_avg, priority, donations, local, touched, calls>>
allVars == <<part, vars, hashVars, ptVars, mlfqsVars>>

\* Two pages of one table, one of another and one below another directory.
MCVas == {<<0, 0, 0>>, <<0, 0, 1>>, <<0, 1, 0>>, <<1, 0, 0>>}

MCNices == {-1, 1}

Parts == {"memory", "hash", "page_tables", "mlfqs"}

KInit == /\ part \in Parts
         /\ malloc_init /\ H!HashInit /\ PT!PTInit /\ M!MInit
         /\ part # "mlfqs" => cur = CHOOSE t \in MThreads : TRUE

KNext == \/ part = "memory" /\ Next /\ UNCHANGED <<part, hashVars, ptVars, mlfqsVars>>
         \/ part = "hash" /\ H!HashNext /\ UNCHANGED <<part, vars, ptVars, mlfqsVars>>
         \/ part = "page_tables" /\ PT!PTNext /\ UNCHANGED <<part, vars, hashVars, mlfqsVars>>
         \/ part = "mlfqs" /\ M!MNext /\ UNCHANGED <<part, vars, hashVars, ptVars>>

KSpec == KInit /\ [][KNext]_allVars

\* The properties of Hash, PageTables and Mlfqs.
TableIsMap == H!TableIsMap
PagesOwned == PT!PagesOwned
MapsAsSet == PT!MapsAsSet
CpuLowersPriority == M!CpuLowersPriority
DonationOnlyBasic == M!DonationOnlyBasic
=============================================================================
