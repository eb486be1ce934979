---------------------------- MODULE SchedProofs ----------------------------
(***************************************************************************)
(* Theorems about the scheduler, semaphores and locks, for any number of   *)
(* threads, locks, semaphores and priorities.                              *)
(***************************************************************************)
EXTENDS Sched, FiniteSetTheorems, TLAPS

(* What the list operations that the scheduler uses preserve, for lists of *)
(* any length (lib/kernel/list.c). *)

\* list_insert_ordered adds its element and keeps the others; a list without
\* duplicates that does not hold the element stays without duplicates.
LEMMA InsertOrderedFacts ==
  ASSUME NEW S, NEW q \in Seq(S), NEW x \in S, NEW key,
         NEW r \in InsertOrdered(q, x, key)
  PROVE  /\ r \in Seq(S)
         /\ r # <<>>
         /\ Len(r) = Len(q) + 1
         /\ Range(r) = Range(q) \cup {x}
         /\ NoDup(q) /\ x \notin Range(q) => NoDup(r)
<1>1. PICK k \in 0 .. Len(q) : r = PutAfter(q, k, x)
  BY DEF InsertOrdered
<1>2. /\ Len(q) \in Nat
      /\ DOMAIN q = 1 .. Len(q)
      /\ \A i \in 1 .. Len(q) : q[i] \in S
  OBVIOUS
<1>3. /\ DOMAIN r = 1 .. Len(q) + 1
      /\ \A i \in 1 .. Len(q) + 1 :
           r[i] = IF i <= k THEN q[i] ELSE IF i = k + 1 THEN x ELSE q[i - 1]
  BY <1>1 DEF PutAfter
<1>4. r \in Seq(S) /\ Len(r) = Len(q) + 1
  <2>1. r = [i \in 1 .. Len(q) + 1 |-> r[i]]
    BY <1>1, <1>3 DEF PutAfter
  <2>2. \A i \in 1 .. Len(q) + 1 : r[i] \in S
    BY <1>2, <1>3
  <2>3. r \in [1 .. Len(q) + 1 -> S]
    BY <2>1, <2>2, Zenon
  <2>4. Len(q) + 1 \in Nat
    BY <1>2
  <2>5. r \in Seq(S)
    BY <2>3, <2>4
  <2> QED BY <2>3, <2>4, <2>5
<1>5. Range(r) = Range(q) \cup {x}
  <2>1. ASSUME NEW y \in Range(r) PROVE y \in Range(q) \cup {x}
    BY <1>2, <1>3 DEF Range
  <2>2. ASSUME NEW y \in Range(q) PROVE y \in Range(r)
    <3>1. PICK i \in 1 .. Len(q) : y = q[i]
      BY <1>2 DEF Range
    <3>2. CASE i <= k
      <4>1. i \in 1 .. Len(q) + 1 /\ r[i] = y
        BY <1>2, <1>3, <3>1, <3>2
      <4> QED BY <4>1, <1>3, Zenon DEF Range
    <3>3. CASE i > k
      <4>1. i + 1 \in 1 .. Len(q) + 1 /\ r[i + 1] = y
        BY <1>2, <1>3, <3>1, <3>3
      <4> QED BY <4>1, <1>3, Zenon DEF Range
    <3> QED BY <1>2, <3>2, <3>3
  <2>3. x \in Range(r)
    <3>1. k + 1 \in 1 .. Len(q) + 1 /\ r[k + 1] = x
      BY <1>2, <1>3
    <3> QED BY <3>1, <1>3, Zenon DEF Range
  <2> QED BY <2>1, <2>2, <2>3, Zenon
<1>6. ASSUME NoDup(q), x \notin Range(q) PROVE NoDup(r)
  <2>1. \A i \in 1 .. Len(q) : q[i] # x
    BY <1>2, <1>6 DEF Range
  <2>2. \A i, j \in 1 .. Len(q) : q[i] = q[j] => i = j
    BY <1>6 DEF NoDup
  <2>3. SUFFICES ASSUME NEW i \in 1 .. Len(q) + 1, NEW j \in 1 .. Len(q) + 1,
                        r[i] = r[j]
                 PROVE  i = j
    BY <1>4 DEF NoDup
  <2> QED BY <1>2, <1>3, <2>1, <2>2, <2>3
<1> QED BY <1>2, <1>4, <1>5, <1>6

\* list_sort only permutes.
LEMMA ListSortFacts ==
  ASSUME NEW S, NEW q \in Seq(S), NEW key, \A y \in S : key[y] \in Nat,
         NEW r \in ListSort(q, key)
  PROVE  /\ r \in Seq(S)
         /\ Len(r) = Len(q)
         /\ Range(r) = Range(q)
         /\ NoDup(q) => NoDup(r)
<1>1. PICK p \in StableOrders(q, key) : r = [i \in 1 .. Len(q) |-> q[p[i]]]
  BY DEF ListSort
<1>2. /\ Len(q) \in Nat
      /\ DOMAIN q = 1 .. Len(q)
      /\ \A i \in 1 .. Len(q) : q[i] \in S
  OBVIOUS
<1>3. /\ p \in [1 .. Len(q) -> 1 .. Len(q)]
      /\ \A j \in 1 .. Len(q) : \E i \in 1 .. Len(q) : p[i] = j
      /\ \A i, j \in 1 .. Len(q) : i < j => p[i] # p[j]
  <2>1. /\ p \in [1 .. Len(q) -> 1 .. Len(q)]
        /\ \A j \in 1 .. Len(q) : \E i \in 1 .. Len(q) : p[i] = j
    BY DEF StableOrders
  <2>2. ASSUME NEW i \in 1 .. Len(q), NEW j \in 1 .. Len(q), i < j, p[i] = p[j]
        PROVE  FALSE
    <3>1. \/ key[q[p[i]]] > key[q[p[j]]]
          \/ key[q[p[i]]] = key[q[p[j]]] /\ p[i] < p[j]
      BY <2>2 DEF StableOrders
    <3>2. p[i] \in 1 .. Len(q)
      BY <2>1
    <3>3. q[p[i]] \in S
      BY <1>2, <3>2
    <3>4. p[i] \in Nat /\ key[q[p[i]]] \in Nat
      BY <1>2, <3>2, <3>3
    <3> QED BY <2>2, <3>1, <3>4
  <2> QED BY <2>1, <2>2
<1>4. /\ DOMAIN r = 1 .. Len(q)
      /\ \A i \in 1 .. Len(q) : r[i] = q[p[i]] /\ r[i] \in S
  BY <1>1, <1>2, <1>3
<1>5. r \in Seq(S) /\ Len(r) = Len(q)
  <2>1. r \in [1 .. Len(q) -> S]
    BY <1>1, <1>2, <1>3
  <2> QED BY <1>2, <2>1
<1>6. Range(r) = Range(q)
  <2>1. ASSUME NEW y \in Range(r) PROVE y \in Range(q)
    BY <1>2, <1>3, <1>4 DEF Range
  <2>2. ASSUME NEW y \in Range(q) PROVE y \in Range(r)
    <3>1. PICK j \in 1 .. Len(q) : y = q[j]
      BY <1>2 DEF Range
    <3>2. PICK i \in 1 .. Len(q) : p[i] = j
      BY <1>3, Zenon
    <3>3. r[i] = y
      BY <1>4, <3>1, <3>2, Zenon
    <3> QED BY <1>4, <3>3, Zenon DEF Range
  <2> QED BY <2>1, <2>2
<1>7. NoDup(q) => NoDup(r)
  <2>1. \A i, j \in 1 .. Len(q) : p[i] = p[j] => i = j
    BY <1>2, <1>3
  <2>2. SUFFICES ASSUME NoDup(q), NEW i \in 1 .. Len(q), NEW j \in 1 .. Len(q),
                        r[i] = r[j]
                 PROVE  i = j
    BY <1>5 DEF NoDup
  <2>3. p[i] = p[j]
    <3>1. q[p[i]] = q[p[j]]
      BY <1>4, <2>2, Zenon
    <3>2. p[i] \in 1 .. Len(q) /\ p[j] \in 1 .. Len(q)
      BY <1>3
    <3> QED BY <2>2, <3>1, <3>2, Zenon DEF NoDup
  <2> QED BY <2>1, <2>3
<1> QED BY <1>5, <1>6, <1>7

\* list_pop_front takes the front element and leaves the others.
LEMMA PopFrontFacts ==
  ASSUME NEW S, NEW q \in Seq(S), q # <<>>
  PROVE  /\ Head(q) \in S
         /\ Tail(q) \in Seq(S)
         /\ Range(q) = Range(Tail(q)) \cup {Head(q)}
         /\ NoDup(q) => NoDup(Tail(q)) /\ Head(q) \notin Range(Tail(q))
<1>1. /\ Len(q) \in Nat
      /\ Len(q) >= 1
      /\ DOMAIN q = 1 .. Len(q)
      /\ \A i \in 1 .. Len(q) : q[i] \in S
  OBVIOUS
<1>2. /\ Head(q) = q[1]
      /\ Tail(q) \in Seq(S)
      /\ Len(Tail(q)) = Len(q) - 1
      /\ DOMAIN Tail(q) = 1 .. Len(q) - 1
      /\ \A i \in 1 .. Len(q) - 1 : Tail(q)[i] = q[i + 1]
  OBVIOUS
<1>3. Range(q) = Range(Tail(q)) \cup {Head(q)}
  <2>1. ASSUME NEW y \in Range(q) PROVE y \in Range(Tail(q)) \cup {Head(q)}
    <3>1. PICK i \in 1 .. Len(q) : y = q[i]
      BY <1>1 DEF Range
    <3>2. CASE i = 1
      BY <1>2, <3>1, <3>2
    <3>3. CASE i # 1
      <4>1. i - 1 \in 1 .. Len(q) - 1 /\ Tail(q)[i - 1] = y
        BY <1>1, <1>2, <3>1, <3>3
      <4> QED BY <4>1, <1>2, Zenon DEF Range
    <3> QED BY <3>2, <3>3
  <2>2. ASSUME NEW y \in Range(Tail(q)) PROVE y \in Range(q)
    BY <1>1, <1>2 DEF Range
  <2>3. Head(q) \in Range(q)
    BY <1>1, <1>2 DEF Range
  <2> QED BY <2>1, <2>2, <2>3
<1>4. ASSUME NoDup(q) PROVE NoDup(Tail(q)) /\ Head(q) \notin Range(Tail(q))
  <2>1. \A i, j \in 1 .. Len(q) : q[i] = q[j] => i = j
    BY <1>4 DEF NoDup
  <2>2. NoDup(Tail(q))
    BY <1>1, <1>2, <2>1 DEF NoDup
  <2>3. Head(q) \notin Range(Tail(q))
    BY <1>1, <1>2, <2>1 DEF Range
  <2> QED BY <2>2, <2>3
<1> QED BY <1>1, <1>2, <1>3, <1>4
-----------------------------------------------------------------------------

-----------------------------------------------------------------------------
(* Dispatching.                                                            *)

\* Types of the four variables that dispatching writes.
CpuType ==
  /\ cur \in Thread
  /\ status \in [Thread -> Status]
  /\ ready_list \in Seq(Threads)
  /\ thread_ticks \in 0 .. TIME_SLICE

\* schedule() leaves the scheduler's own variables well typed.
LEMMA ScheduleType ==
  ASSUME NEW st \in [Thread -> Status], NEW rl \in Seq(Threads), schedule(st, rl)
  PROVE  CpuType'
<1>1. next_thread_to_run(rl) \in Thread
  BY PopFrontFacts DEF next_thread_to_run, Thread
<1>2. cur' \in Thread
  BY <1>1 DEF schedule
<1>3. status' \in [Thread -> Status]
  BY <1>1 DEF schedule, Status
<1>4. ready_list' \in Seq(Threads)
  BY PopFrontFacts DEF schedule
<1>5. thread_ticks' \in 0 .. TIME_SLICE
  BY BoundsAssumption DEF schedule
<1> QED BY <1>2, <1>3, <1>4, <1>5 DEF CpuType

\* Freeing the pages of dying threads leaves a status to every thread.
LEMMA ReapType ==
  ASSUME NEW st \in [Thread -> Status]
  PROVE  reap(st) \in [Thread -> Status]
  BY DEF reap, Status

\* do_schedule with a legal new status is well typed.
LEMMA DoScheduleType ==
  ASSUME CpuType, NEW new \in Status, NEW st \in [Thread -> Status],
         NEW rl \in Seq(Threads), do_schedule(new, st, rl)
  PROVE  CpuType'
<1>1. [reap(st) EXCEPT ![cur] = new] \in [Thread -> Status]
  BY ReapType
<1> QED BY <1>1, ScheduleType DEF do_schedule

\* thread_yield keeps the types of what it assigns.
LEMMA YieldType ==
  ASSUME CpuType, NEW st \in [Thread -> Status], NEW rl \in Seq(Threads),
         thread_yield(st, rl)
  PROVE  CpuType'
<1>1. PICK q \in IF cur = Idle THEN {rl} ELSE InsertOrdered(rl, cur, priority) :
        do_schedule("READY", st, q)
  BY DEF thread_yield
<1>2. q \in Seq(Threads)
  <2>1. CASE cur = Idle
    BY <1>1, <2>1
  <2>2. CASE cur # Idle
    <3>1. cur \in Threads /\ q \in InsertOrdered(rl, cur, priority)
      BY <1>1, <2>2 DEF CpuType, Thread
    <3> QED BY <3>1, InsertOrderedFacts
  <2> QED BY <2>1, <2>2
<1> QED BY <1>1, <1>2, DoScheduleType DEF Status

\* thread_block keeps the types of what it assigns.
LEMMA BlockType ==
  ASSUME CpuType, thread_block
  PROVE  CpuType'
<1>1. [status EXCEPT ![cur] = "BLOCKED"] \in [Thread -> Status]
  BY DEF CpuType, Status
<1> QED BY <1>1, ScheduleType DEF thread_block, CpuType

\* Priorities are natural numbers, which is what the list lemmas need.
LEMMA PriorityIsKey ==
  ASSUME TypeOK
  PROVE  \A t \in Threads : priority[t] \in Nat
  BY PrioAssumption DEF TypeOK, Thread

\* compare_cur_next_priority keeps the types of what it assigns.
LEMMA CompareType ==
  ASSUME TypeOK, NEW st \in [Thread -> Status], NEW rl \in Seq(Threads),
         compare_cur_next_priority(st, rl)
  PROVE  CpuType'
<1>1. PICK q \in ListSort(rl, priority) :
        IF q # <<>> /\ priority[next_thread_to_run(q)] > priority[cur]
        THEN thread_yield(st, q)
        ELSE /\ ready_list' = q
             /\ status' = st
             /\ UNCHANGED <<cur, thread_ticks>>
  BY DEF compare_cur_next_priority
<1>2. q \in Seq(Threads)
  BY <1>1, PriorityIsKey, ListSortFacts
<1>3. CpuType
  BY DEF TypeOK, CpuType
<1>4. CASE thread_yield(st, q)
  BY <1>2, <1>3, <1>4, YieldType
<1>5. CASE /\ ready_list' = q
           /\ status' = st
           /\ UNCHANGED <<cur, thread_ticks>>
  BY <1>2, <1>3, <1>5 DEF CpuType
<1> QED BY <1>1, <1>4, <1>5

-----------------------------------------------------------------------------
(* Semaphores.                                                             *)

\* sema_up keeps the types of what it assigns.
LEMMA SemaUpType ==
  ASSUME TypeOK, NEW s \in Sema, sema_up(s)
  PROVE  /\ CpuType'
         /\ value' \in [Sema -> Nat]
         /\ waiters' \in [Sema -> Seq(Threads)]
<1>1. value' \in [Sema -> Nat]
  BY DEF sema_up, TypeOK
<1>2. CASE waiters[s] = <<>>
  <2>1. compare_cur_next_priority(status, ready_list) /\ waiters' = waiters
    BY <1>2 DEF sema_up
  <2> QED BY <1>1, <2>1, CompareType DEF TypeOK
<1>3. CASE waiters[s] # <<>>
  <2>1. PICK w \in ListSort(waiters[s], priority) :
          /\ waiters' = [waiters EXCEPT ![s] = Tail(w)]
          /\ \E rl \in InsertOrdered(ready_list, Head(w), priority) :
               compare_cur_next_priority([status EXCEPT ![Head(w)] = "READY"], rl)
    BY <1>3 DEF sema_up
  <2>2. waiters[s] \in Seq(Threads)
    BY DEF TypeOK
  <2>3. w \in Seq(Threads) /\ Len(w) = Len(waiters[s])
    BY <2>1, <2>2, PriorityIsKey, ListSortFacts
  <2>4. w # <<>>
    BY <1>3, <2>2, <2>3
  <2>5. Head(w) \in Threads /\ Tail(w) \in Seq(Threads)
    BY <2>3, <2>4, PopFrontFacts
  <2>6. PICK rl \in InsertOrdered(ready_list, Head(w), priority) :
          compare_cur_next_priority([status EXCEPT ![Head(w)] = "READY"], rl)
    BY <2>1
  <2>7. rl \in Seq(Threads)
    BY <2>5, <2>6, InsertOrderedFacts DEF TypeOK
  <2>8. [status EXCEPT ![Head(w)] = "READY"] \in [Thread -> Status]
    BY <2>5 DEF TypeOK, Status
  <2>9. CpuType'
    BY <2>6, <2>7, <2>8, CompareType
  <2>10. waiters' \in [Sema -> Seq(Threads)]
    BY <2>1, <2>5 DEF TypeOK
  <2> QED BY <1>1, <2>9, <2>10
<1> QED BY <1>2, <1>3

\* One pass of the loop of sema_down keeps the types of what it assigns.
LEMMA SemaDownType ==
  ASSUME TypeOK, NEW t \in Threads, NEW s \in Sema, NEW done \in Labels,
         sema_down(t, s, done)
  PROVE  /\ CpuType'
         /\ value' \in [Sema -> Nat]
         /\ waiters' \in [Sema -> Seq(Threads)]
         /\ pc' \in [Thread -> Labels]
         /\ op' \in [Threads -> Sema \cup {None}]
<1>1. CpuType /\ value \in [Sema -> Nat] /\ waiters \in [Sema -> Seq(Threads)]
  BY DEF TypeOK, CpuType
<1>2. CASE value[s] = 0
  <2>1. /\ \E w \in InsertOrdered(waiters[s], t, priority) :
             waiters' = [waiters EXCEPT ![s] = w]
        /\ thread_block
        /\ pc' = [pc EXCEPT ![t] = "down_wait"]
        /\ op' = [op EXCEPT ![t] = s]
        /\ value' = value
    BY <1>2 DEF sema_down
  <2>2. waiters' \in [Sema -> Seq(Threads)]
    BY <1>1, <2>1, InsertOrderedFacts
  <2> QED BY <1>1, <2>1, <2>2, BlockType DEF TypeOK, Labels
<1>3. CASE value[s] > 0
  <2>1. /\ value' = [value EXCEPT ![s] = @ - 1]
        /\ pc' = [pc EXCEPT ![t] = done]
        /\ op' = [op EXCEPT ![t] = IF s \in Locks THEN s ELSE None]
        /\ UNCHANGED <<waiters, cpuVars>>
    BY <1>1, <1>3 DEF sema_down
  <2>2. value' \in [Sema -> Nat]
    BY <1>1, <1>3, <2>1
  <2>3. CpuType'
    BY <1>1, <2>1 DEF CpuType, cpuVars
  <2> QED BY <1>1, <2>1, <2>2, <2>3 DEF TypeOK
<1> QED BY <1>1, <1>2, <1>3
-----------------------------------------------------------------------------
(* The steps of lock_acquire, lock_release and thread_set_priority that     *)
(* concern priorities and donations only.                                   *)

PrioStep(t) ==
  \/ AcqCompare(t) \/ AcqStore(t) \/ AcqInsert(t) \/ AcqTest(t) \/ AcqNext(t)
  \/ RecalcFront(t) \/ RecalcRaise(t) \/ RecalcStore(t)
  \/ SetRead(t) \/ SetStore(t)

\* They move one program counter, inside lock_release or outside of it, and
\* touch neither a queue nor a semaphore nor a holder field.
LEMMA PrioStepFrame ==
  ASSUME NEW t \in Threads, PrioStep(t)
  PROVE  /\ UNCHANGED <<cpuVars, lockVars, semaVars, callVars, original_priority>>
         /\ \/ /\ pc[t] \in DonatePcs \cup {"set_read", "set_store"}
               /\ \E lbl \in DonatePcs \cup {"acq_read", "acq_down", "set_store", "cmp"} :
                    pc' = [pc EXCEPT ![t] = lbl]
            \/ /\ pc[t] \in ReleasePcs
               /\ \E lbl \in ReleasePcs : pc' = [pc EXCEPT ![t] = lbl]
<1>1. UNCHANGED <<cpuVars, lockVars, semaVars, callVars, original_priority>>
  BY Zenon DEF PrioStep, AcqCompare, AcqStore, AcqInsert, AcqTest, AcqNext, RecalcFront,
     RecalcRaise, RecalcStore, SetRead, SetStore, prioVars
<1>2. ASSUME AcqCompare(t) \/ AcqStore(t) \/ AcqInsert(t) \/ AcqTest(t) \/ AcqNext(t)
             \/ SetRead(t) \/ SetStore(t)
      PROVE  /\ pc[t] \in DonatePcs \cup {"set_read", "set_store"}
             /\ \E lbl \in DonatePcs \cup {"acq_read", "acq_down", "set_store", "cmp"} :
                  pc' = [pc EXCEPT ![t] = lbl]
  BY <1>2 DEF AcqCompare, AcqStore, AcqInsert, AcqTest, AcqNext, SetRead, SetStore, DonatePcs
<1>3. ASSUME RecalcFront(t) \/ RecalcRaise(t) \/ RecalcStore(t)
      PROVE  /\ pc[t] \in ReleasePcs
             /\ \E lbl \in ReleasePcs : pc' = [pc EXCEPT ![t] = lbl]
  BY <1>3 DEF RecalcFront, RecalcRaise, RecalcStore, ReleasePcs
<1> QED BY <1>1, <1>2, <1>3 DEF PrioStep

\* What the other steps need to know of it.
LEMMA PrioStepQuiet ==
  ASSUME TypeOK, NEW t \in Threads, PrioStep(t)
  PROVE  /\ UNCHANGED <<cpuVars, lockVars, semaVars, callVars>>
         /\ pc[t] \notin {"create_cmp", "down_wait", "acq_set", "try_set", "rel_up"}
         /\ pc'[t] \notin {"down_wait", "acq_set", "try_set", "rel_up"}
         /\ pc'[t] \in ReleasePcs => pc[t] \in ReleasePcs
         /\ \A u \in Thread : u # t => pc'[u] = pc[u]
<1>1. pc \in [Thread -> Labels] /\ t \in Thread
  BY DEF TypeOK, Thread
<1> QED BY <1>1, PrioStepFrame DEF DonatePcs, ReleasePcs

-----------------------------------------------------------------------------
(* Type correctness.                                                       *)

\* The steps of calls that touch neither the run queue nor a semaphore.
LEMMA PlainTypeStep ==
  ASSUME TypeOK, CallsConsistent, NEW t \in Threads, cur = t
  PROVE  /\ \A s \in Semas : SemaTryDown(t, s) => TypeOK'
         /\ \A l \in Locks : LockAcquire(t, l) => TypeOK'
         /\ \A l \in Locks : LockTryAcquire(t, l) => TypeOK'
         /\ \A l \in Locks : LockRelease(t, l) => TypeOK'
         /\ \A p \in SetPrio : SetPriority(t, p) => TypeOK'
         /\ \A u \in Threads, p \in NewPrio : ThreadCreate(t, u, p) => TypeOK'
         /\ AcqRead(t) => TypeOK'
         /\ AcqDonate(t) => TypeOK'
         /\ AcqRaise(t) => TypeOK'
         /\ AcqSet(t) => TypeOK'
         /\ TrySet(t) => TypeOK'
         /\ recalc_priority(t) => TypeOK'
         /\ RelNull(t) => TypeOK'
         /\ CreateRel(t) => TypeOK'
         /\ PrioStep(t) => TypeOK'
<1> USE SyncAssumption, PrioAssumption DEF TypeOK, cpuVars, prioVars, lockVars, semaVars, localVars,
                                           callVars, Labels, Returns
<1>1. ASSUME NEW s \in Semas, SemaTryDown(t, s) PROVE TypeOK'
  BY <1>1 DEF SemaTryDown, Sema
<1>2. ASSUME NEW l \in Locks, LockAcquire(t, l) PROVE TypeOK'
  <2>1. CASE holder[l] = None
    BY <1>2, <2>1 DEF LockAcquire, lock_acquire, Sema, Thread
  <2>2. CASE holder[l] # None
    <3>1. /\ op' = [op EXCEPT ![t] = l]
          /\ ret' = [ret EXCEPT ![t] = "run"]
          /\ pending_lock' = [pending_lock EXCEPT ![t] = l]
          /\ pending' = [pending EXCEPT ![t] = l]
          /\ pc' = [pc EXCEPT ![t] = "acq_read"]
          /\ UNCHANGED <<cpuVars, semaVars, holder, hldr, gift, prioVars, child>>
      BY <1>2, <2>2, Zenon DEF LockAcquire, lock_acquire
    <3> QED BY <3>1 DEF Sema
  <2> QED BY <2>1, <2>2
<1>3. ASSUME NEW l \in Locks, LockTryAcquire(t, l) PROVE TypeOK'
  BY <1>3 DEF LockTryAcquire, Sema, Thread
<1>4. ASSUME NEW l \in Locks, LockRelease(t, l) PROVE TypeOK'
  BY <1>4 DEF LockRelease, lock_release, Sema, Thread
<1>5. ASSUME NEW p \in SetPrio, SetPriority(t, p) PROVE TypeOK'
  BY <1>5 DEF SetPriority, Thread
<1>6. ASSUME NEW u \in Threads, NEW p \in NewPrio, ThreadCreate(t, u, p)
      PROVE  TypeOK'
  <2> USE <1>6
  <2>1. /\ status' \in [Thread -> Status]
        /\ priority' \in [Thread -> Prio]
        /\ original_priority' \in [Thread -> Prio]
        /\ donations' \in [Threads -> SUBSET Donation]
        /\ child' \in [Threads -> Threads \cup {None}]
    BY DEF ThreadCreate, Thread, Status
  <2>2. /\ op' \in [Threads -> Sema \cup {None}]
        /\ ret' \in [Threads -> Returns]
    BY DEF ThreadCreate, Sema
  <2>5. pc' \in [Thread -> Labels]
    <3>1. PICK next \in Labels : pc' = [pc EXCEPT ![t] = next]
      BY DEF ThreadCreate
    <3> QED BY <3>1
  <2>3. pending_lock' \in [Threads -> Locks \cup {None}]
    BY DEF ThreadCreate
  <2>4. pending' \in [Threads -> Locks \cup {None}]
    BY DEF ThreadCreate
  <2> QED BY <2>1, <2>2, <2>3, <2>4, <2>5 DEF ThreadCreate
<1>7. ASSUME AcqRead(t) PROVE TypeOK'
  BY ZenonT(30), <1>7 DEF AcqRead, CallsConsistent, Thread
<1>8. ASSUME AcqDonate(t) PROVE TypeOK'
  BY <1>8 DEF AcqDonate, Thread
<1>9. ASSUME AcqRaise(t) PROVE TypeOK'
  BY <1>9 DEF AcqRaise, Thread
<1>10. ASSUME AcqSet(t) PROVE TypeOK'
  BY <1>10 DEF AcqSet, Thread
<1>11. ASSUME TrySet(t) PROVE TypeOK'
  BY <1>11 DEF TrySet, Thread
<1>12. ASSUME recalc_priority(t) PROVE TypeOK'
  BY <1>12 DEF recalc_priority, Thread
<1>13. ASSUME RelNull(t) PROVE TypeOK'
  BY <1>13 DEF RelNull, Thread
<1>14. ASSUME CreateRel(t) PROVE TypeOK'
  BY <1>14 DEF CreateRel, lock_release, Sema, Thread
<1>15. ASSUME PrioStep(t) PROVE TypeOK'
  <2>1. /\ pc' \in [Thread -> Labels]
        /\ UNCHANGED <<cpuVars, lockVars, semaVars, callVars, original_priority>>
    <3>1. PICK lbl \in Labels : pc' = [pc EXCEPT ![t] = lbl]
      BY <1>15, PrioStepFrame DEF DonatePcs, ReleasePcs
    <3> QED BY <1>15, <3>1, PrioStepFrame
  <2>2. pc[t] \in DonatePcs => hldr[t] \in Threads /\ hldr[t] \in Thread /\ pending[t] \in Locks
    BY DEF CallsConsistent, Thread
  <2>3. /\ \A u \in Threads : priority[u] \in Prio
        /\ \A u \in Threads : u \in Thread
    BY DEF Thread
  <2>4. /\ priority' \in [Thread -> Prio]
        /\ gift' \in [Threads -> Prio]
    <3>1. CASE AcqCompare(t) \/ AcqInsert(t) \/ AcqTest(t) \/ AcqNext(t)
      <4>1. priority' = priority /\ (gift' = gift \/ gift' = [gift EXCEPT ![t] = IdlePrio])
        BY <3>1, Zenon DEF AcqCompare, AcqInsert, AcqTest, AcqNext
      <4>2. CASE gift' = gift
        BY <4>1, <4>2
      <4>3. CASE gift' = [gift EXCEPT ![t] = IdlePrio]
        BY <4>1, <4>3
      <4> QED BY <4>1, <4>2, <4>3
    <3>2. CASE AcqStore(t)
      <4>1. priority' = [priority EXCEPT ![hldr[t]] = priority[t]] /\ gift' = gift
        BY <3>2 DEF AcqStore
      <4> QED BY <2>3, <4>1
    <3>3. CASE RecalcFront(t) \/ RecalcRaise(t) \/ RecalcStore(t)
      <4>1. \A d \in donations[t] : d.priority \in Prio
        BY DEF Donation
      <4>2. \/ priority' = priority
            \/ priority' = [priority EXCEPT ![t] = gift[t]]
        BY <3>3, Zenon DEF RecalcFront, RecalcRaise, RecalcStore
      <4>3. \/ gift' = gift
            \/ gift' = [gift EXCEPT ![t] = IdlePrio]
            \/ \E d \in donations[t] : gift' = [gift EXCEPT ![t] = d.priority]
        BY <3>3, Zenon DEF RecalcFront, RecalcRaise, RecalcStore
      <4>4. priority' \in [Thread -> Prio]
        BY <4>2
      <4>5. gift' \in [Threads -> Prio]
        BY <4>1, <4>3
      <4> QED BY <4>4, <4>5
    <3>4. CASE SetRead(t) \/ SetStore(t)
      <4>1. \/ priority' = priority
            \/ priority' = [priority EXCEPT ![t] = gift[t]]
        BY <3>4, Zenon DEF SetRead, SetStore
      <4>2. \/ gift' = [gift EXCEPT ![t] = IdlePrio]
            \/ \E m \in Prio : gift' = [gift EXCEPT ![t] = m]
        BY <3>4, Zenon DEF SetRead, SetStore
      <4>3. priority' \in [Thread -> Prio]
        BY <4>1
      <4>4. gift' \in [Threads -> Prio]
        BY <4>2
      <4> QED BY <4>3, <4>4
    <3> QED BY <1>15, <3>1, <3>2, <3>3, <3>4 DEF PrioStep
  <2>5. donations' \in [Threads -> SUBSET Donation]
    <3>1. CASE AcqInsert(t)
      <4>1. /\ donations' = [donations EXCEPT ![hldr[t]] =
                               @ \cup {[lock |-> pending[t], priority |-> gift[t]]}]
            /\ pc[t] = "acq_insert"
        BY <3>1 DEF AcqInsert
      <4>2. [lock |-> pending[t], priority |-> gift[t]] \in Donation
        BY <2>2, <4>1 DEF Donation, DonatePcs
      <4> QED BY <4>1, <4>2
    <3>2. CASE ~AcqInsert(t)
      <4>1. donations' = donations
        BY <1>15, <3>2, Zenon DEF PrioStep, AcqCompare, AcqStore, AcqTest, AcqNext, RecalcFront,
           RecalcRaise, RecalcStore, SetRead, SetStore
      <4> QED BY <4>1
    <3> QED BY <3>1, <3>2
  <2>6. /\ pending' \in [Threads -> Locks \cup {None}]
        /\ hldr' \in [Threads -> Threads \cup {None}]
    <3>1. CASE AcqNext(t)
      <4>1. /\ pending' = [pending EXCEPT ![t] = pending_lock[hldr[t]]]
            /\ hldr' = [hldr EXCEPT ![t] = None]
            /\ pc[t] = "acq_next"
        BY <3>1 DEF AcqNext
      <4>2. pending_lock[hldr[t]] \in Locks \cup {None}
        BY <2>2, <4>1 DEF DonatePcs
      <4> QED BY <4>1, <4>2
    <3>2. CASE AcqCompare(t)
      BY <3>2 DEF AcqCompare
    <3>3. CASE ~AcqNext(t) /\ ~AcqCompare(t)
      <4>1. pending' = pending /\ hldr' = hldr
        BY <1>15, <3>3, Zenon DEF PrioStep, AcqStore, AcqInsert, AcqTest, RecalcFront,
           RecalcRaise, RecalcStore, SetRead, SetStore
      <4> QED BY <4>1
    <3> QED BY <3>1, <3>2, <3>3
  <2> QED BY <2>1, <2>4, <2>5, <2>6
<1> QED BY <1>1, <1>2, <1>3, <1>4, <1>5, <1>6, <1>7, <1>8, <1>9, <1>10,
           <1>11, <1>12, <1>13, <1>14, <1>15
\* The steps that dispatch or use a semaphore.
LEMMA DispatchTypeStep ==
  ASSUME TypeOK, CallsConsistent, NEW t \in Threads, cur = t
  PROVE  /\ \A s \in Semas : SemaDown(t, s) => TypeOK'
         /\ \A s \in Semas : SemaUp(t, s) => TypeOK'
         /\ SemaRecheck(t) => TypeOK'
         /\ AcqSort(t) => TypeOK'
         /\ AcqDown(t) => TypeOK'
         /\ RelUp(t) => TypeOK'
         /\ Compare(t) => TypeOK'
         /\ CreateReady(t) => TypeOK'
         /\ CreateCompare(t) => TypeOK'
         /\ ThreadYield(t) => TypeOK'
         /\ ThreadExit(t) => TypeOK'
<1> USE SyncAssumption DEF cpuVars, prioVars, lockVars, semaVars, localVars, callVars
<1>0. CpuType
  BY DEF TypeOK, CpuType
<1>1. ASSUME NEW s \in Semas, SemaDown(t, s) PROVE TypeOK'
  <2>1. sema_down(t, s, "run") /\ UNCHANGED <<prioVars, lockVars, localVars, ret, child>>
    BY <1>1 DEF SemaDown
  <2>2. s \in Sema /\ "run" \in Labels
    BY DEF Sema, Labels
  <2> QED BY <2>1, <2>2, SemaDownType DEF TypeOK, CpuType
<1>2. ASSUME NEW s \in Semas, SemaUp(t, s) PROVE TypeOK'
  <2>1. sema_up(s) /\ UNCHANGED <<prioVars, lockVars, localVars, callVars, pc>>
    BY <1>2 DEF SemaUp
  <2>2. s \in Sema
    BY DEF Sema
  <2> QED BY <2>1, <2>2, SemaUpType DEF TypeOK, CpuType
<1>3. ASSUME SemaRecheck(t) PROVE TypeOK'
  <2> DEFINE done == IF op[t] \in Locks THEN "acq_set" ELSE "run"
  <2>1. sema_down(t, op[t], done) /\ UNCHANGED <<prioVars, lockVars, localVars, ret, child>>
    BY <1>3 DEF SemaRecheck
  <2>2. op[t] \in Sema /\ done \in Labels
    BY <1>3 DEF SemaRecheck, CallsConsistent, Labels
  <2> HIDE DEF done
  <2> QED BY <2>1, <2>2, SemaDownType DEF TypeOK, CpuType
<1>4. ASSUME AcqSort(t) PROVE TypeOK'
  <2> DEFINE next == pending_lock[hldr[t]]
  <2>1. hldr[t] \in Threads /\ next \in Locks \cup {None}
    BY <1>4 DEF AcqSort, CallsConsistent, DonatePcs, TypeOK
  <2>2. pc' \in [Thread -> Labels]
    <3>1. PICK lbl \in Labels : pc' = [pc EXCEPT ![t] = lbl]
      BY <1>4 DEF AcqSort, Labels
    <3> QED BY <3>1 DEF TypeOK
  <2>3. waiters' \in [Sema -> Seq(Threads)]
    <3>1. CASE next = None
      BY <1>4, <3>1 DEF AcqSort, TypeOK
    <3>2. CASE next # None
      <4>1. PICK w \in ListSort(waiters[next], priority) :
              waiters' = [waiters EXCEPT ![next] = w]
        BY <1>4, <3>2 DEF AcqSort
      <4>2. waiters[next] \in Seq(Threads)
        BY <2>1, <3>2 DEF TypeOK, Sema
      <4>3. w \in Seq(Threads)
        BY <4>1, <4>2, PriorityIsKey, ListSortFacts
      <4> QED BY <4>1, <4>3 DEF TypeOK
    <3> QED BY <3>1, <3>2
  <2>4. UNCHANGED <<cpuVars, prioVars, lockVars, localVars, callVars, value>>
    BY <1>4 DEF AcqSort
  <2> QED BY <2>2, <2>3, <2>4 DEF TypeOK
<1>5. ASSUME AcqDown(t) PROVE TypeOK'
  <2>1. /\ sema_down(t, op[t], "acq_set")
        /\ UNCHANGED <<prioVars, lockVars, localVars, ret, child>>
    BY <1>5 DEF AcqDown
  <2>2. op[t] \in Sema /\ "acq_set" \in Labels
    BY <1>5 DEF AcqDown, CallsConsistent, LockPcs, Labels, Sema
  <2> QED BY <2>1, <2>2, SemaDownType DEF TypeOK, CpuType
<1>6. ASSUME RelUp(t) PROVE TypeOK'
  <2>1. /\ sema_up(op[t])
        /\ op' = [op EXCEPT ![t] = None]
        /\ pc' = [pc EXCEPT ![t] = "cmp"]
        /\ UNCHANGED <<prioVars, lockVars, localVars, ret, child>>
    BY <1>6 DEF RelUp
  <2>2. op[t] \in Sema
    BY <1>6 DEF RelUp, CallsConsistent, LockPcs, Sema
  <2>3. op' \in [Threads -> Sema \cup {None}] /\ pc' \in [Thread -> Labels]
    BY <2>1 DEF TypeOK, Labels
  <2> QED BY <2>1, <2>2, <2>3, SemaUpType DEF TypeOK, CpuType
<1>7. ASSUME Compare(t) PROVE TypeOK'
  <2>1. /\ compare_cur_next_priority(status, ready_list)
        /\ pc' = [pc EXCEPT ![t] = ret[t]]
        /\ ret' = [ret EXCEPT ![t] = "run"]
        /\ UNCHANGED <<prioVars, lockVars, semaVars, localVars, op, child>>
    BY <1>7 DEF Compare
  <2>2. CpuType'
    BY <1>0, <2>1, CompareType DEF CpuType
  <2>3. pc' \in [Thread -> Labels] /\ ret' \in [Threads -> Returns]
    BY <2>1 DEF TypeOK, Labels, Returns
  <2> QED BY <2>1, <2>2, <2>3 DEF TypeOK, CpuType
<1>8. ASSUME CreateReady(t) PROVE TypeOK'
  <2>1. child[t] \in Threads
    BY <1>8 DEF CreateReady, CallsConsistent, TypeOK
  <2>2. ready_list' \in Seq(Threads)
    BY <1>8, <2>1, InsertOrderedFacts DEF CreateReady, TypeOK
  <2>3. status' \in [Thread -> Status] /\ pc' \in [Thread -> Labels]
    BY <1>8, <2>1 DEF CreateReady, TypeOK, Status, Labels
  <2> QED BY <1>8, <2>2, <2>3 DEF CreateReady, TypeOK
<1>9. ASSUME CreateCompare(t) PROVE TypeOK'
  <2>1. CpuType'
    <3>1. thread_yield(status, ready_list) \/ UNCHANGED cpuVars
      BY <1>9 DEF CreateCompare
    <3>2. CASE thread_yield(status, ready_list)
      BY <1>0, <3>2, YieldType DEF CpuType
    <3>3. CASE UNCHANGED cpuVars
      BY <1>0, <3>3 DEF CpuType
    <3> QED BY <3>1, <3>2, <3>3
  <2>2. /\ pc' = [pc EXCEPT ![t] = "run"]
        /\ child' = [child EXCEPT ![t] = None]
        /\ UNCHANGED <<prioVars, lockVars, semaVars, localVars, op, ret>>
    BY <1>9 DEF CreateCompare
  <2> QED BY <2>1, <2>2 DEF TypeOK, CpuType, Labels
<1>10. ASSUME ThreadYield(t) PROVE TypeOK'
  <2>1. CpuType'
    BY <1>0, <1>10, YieldType DEF ThreadYield, CpuType
  <2> QED BY <1>10, <2>1 DEF ThreadYield, TypeOK, CpuType
<1>11. ASSUME ThreadExit(t) PROVE TypeOK'
  <2>1. CpuType'
    <3>1. do_schedule("DYING", status, ready_list) /\ "DYING" \in Status
      BY <1>11 DEF ThreadExit, Status
    <3> QED BY <1>0, <3>1, DoScheduleType DEF CpuType
  <2> QED BY <1>11, <2>1 DEF ThreadExit, TypeOK, CpuType
<1> QED BY <1>1, <1>2, <1>3, <1>4, <1>5, <1>6, <1>7, <1>8, <1>9, <1>10, <1>11

\* Interrupts and the idle loop.
LEMMA InterruptTypeStep ==
  ASSUME TypeOK, CallsConsistent, IdleBlock \/ Interrupt
  PROVE  TypeOK'
<1> USE DEF cpuVars, prioVars, lockVars, semaVars, localVars, callVars
<1>0. CpuType
  BY DEF TypeOK, CpuType
<1>1. CASE IdleBlock
  <2>1. CpuType'
    BY <1>0, <1>1, BlockType DEF IdleBlock
  <2> QED BY <1>1, <2>1 DEF IdleBlock, TypeOK, CpuType, Labels
<1>2. ASSUME WakeHlt PROVE pc' \in [Thread -> Labels]
  BY <1>2 DEF WakeHlt, TypeOK, Labels
<1>3. CASE TimerTick
  <2>1. CpuType'
    <3>1. \/ thread_yield(status, ready_list)
          \/ /\ thread_ticks + 1 < TIME_SLICE
             /\ thread_ticks' = thread_ticks + 1
             /\ UNCHANGED <<cur, status, ready_list>>
      BY <1>3 DEF TimerTick
    <3>2. CASE thread_yield(status, ready_list)
      BY <1>0, <3>2, YieldType DEF CpuType
    <3>3. CASE /\ thread_ticks + 1 < TIME_SLICE
               /\ thread_ticks' = thread_ticks + 1
               /\ UNCHANGED <<cur, status, ready_list>>
      BY <1>0, <3>3, BoundsAssumption DEF CpuType
    <3> QED BY <3>1, <3>2, <3>3
  <2>2. pc' \in [Thread -> Labels]
    BY <1>2, <1>3 DEF TimerTick
  <2> QED BY <1>3, <2>1, <2>2 DEF TimerTick, TypeOK, CpuType
<1>4. ASSUME NEW s \in IntrSemas, IntrSemaUp(s) PROVE TypeOK'
  <2>1. s \in Sema
    BY SyncAssumption DEF Sema
  <2>2. sema_up(s) /\ WakeHlt /\ UNCHANGED <<prioVars, lockVars, localVars, callVars>>
    BY <1>4 DEF IntrSemaUp
  <2>3. pc' \in [Thread -> Labels]
    BY <1>2, <2>2
  <2> QED BY <2>1, <2>2, <2>3, SemaUpType DEF TypeOK, CpuType
<1> QED BY <1>1, <1>3, <1>4 DEF Interrupt
\* Every step of a thread keeps its program counter, operand and return point
\* in agreement, and leaves those of the other threads alone.
LEMMA CallsStep ==
  ASSUME TypeOK, CallsConsistent, NEW t \in Threads, Call(t) \/ Continue(t)
  PROVE  CallsConsistent'
<1> USE SyncAssumption, ThreadsAssumption
    DEF TypeOK, CallsConsistent, cpuVars, prioVars, lockVars, semaVars, localVars, callVars,
        Labels, Returns, LockPcs, DonatePcs, ReleasePcs, Thread, Sema
<1>1. ASSUME NEW s \in Semas, SemaTryDown(t, s) PROVE CallsConsistent'
  BY <1>1 DEF SemaTryDown
<1>2. ASSUME NEW s \in Semas, SemaUp(t, s) PROVE CallsConsistent'
  BY <1>2 DEF SemaUp
<1>3. ASSUME NEW s \in Semas, SemaDown(t, s) PROVE CallsConsistent'
  BY <1>3, SMTT(60) DEF SemaDown, sema_down
<1>4. ASSUME NEW l \in Locks, LockAcquire(t, l) PROVE CallsConsistent'
  BY <1>4 DEF LockAcquire, lock_acquire
<1>5. ASSUME NEW l \in Locks, LockTryAcquire(t, l) PROVE CallsConsistent'
  BY <1>5 DEF LockTryAcquire
<1>6. ASSUME NEW l \in Locks, LockRelease(t, l) PROVE CallsConsistent'
  BY <1>6 DEF LockRelease, lock_release
<1>7. ASSUME NEW p \in SetPrio, SetPriority(t, p) PROVE CallsConsistent'
  BY <1>7 DEF SetPriority
<1>8. ASSUME NEW u \in Threads, NEW p \in NewPrio, ThreadCreate(t, u, p) PROVE CallsConsistent'
  BY <1>8 DEF ThreadCreate
<1>9. ASSUME ThreadYield(t) PROVE CallsConsistent'
  BY <1>9 DEF ThreadYield
<1>10. ASSUME ThreadExit(t) PROVE CallsConsistent'
  BY <1>10 DEF ThreadExit
<1>11. ASSUME SemaRecheck(t) PROVE CallsConsistent'
  BY <1>11 DEF SemaRecheck, sema_down
<1>12. ASSUME AcqRead(t) PROVE CallsConsistent'
  BY <1>12 DEF AcqRead
<1>13. ASSUME AcqDonate(t) PROVE CallsConsistent'
  BY <1>13 DEF AcqDonate
<1>14. ASSUME AcqRaise(t) PROVE CallsConsistent'
  BY <1>14 DEF AcqRaise
<1>15. ASSUME AcqInsert(t) PROVE CallsConsistent'
  BY <1>15 DEF AcqInsert
<1>16. ASSUME AcqDown(t) PROVE CallsConsistent'
  <2>1. /\ pc[t] = "acq_down" /\ UNCHANGED <<localVars, ret, child>>
        /\ \E lbl \in {"down_wait", "acq_set"} : pc' = [pc EXCEPT ![t] = lbl]
        /\ op' = [op EXCEPT ![t] = op[t]]
    BY <1>16 DEF AcqDown, sema_down
  <2> QED BY <2>1, SMTT(30)
<1>17. ASSUME AcqSet(t) PROVE CallsConsistent'
  BY <1>17 DEF AcqSet
<1>18. ASSUME TrySet(t) PROVE CallsConsistent'
  BY <1>18 DEF TrySet
<1>19. ASSUME recalc_priority(t) PROVE CallsConsistent'
  BY <1>19 DEF recalc_priority
<1>20. ASSUME RelNull(t) PROVE CallsConsistent'
  BY <1>20 DEF RelNull
<1>21. ASSUME RelUp(t) PROVE CallsConsistent'
  BY <1>21, SMTT(60) DEF RelUp
<1>22. ASSUME Compare(t) PROVE CallsConsistent'
  BY <1>22 DEF Compare
<1>23. ASSUME CreateRel(t) PROVE CallsConsistent'
  BY <1>23 DEF CreateRel, lock_release
<1>24. ASSUME CreateReady(t) PROVE CallsConsistent'
  BY <1>24 DEF CreateReady
<1>25. ASSUME CreateCompare(t) PROVE CallsConsistent'
  BY <1>25 DEF CreateCompare
<1>26. ASSUME AcqCompare(t) PROVE CallsConsistent'
  BY <1>26 DEF AcqCompare
<1>27. ASSUME AcqStore(t) PROVE CallsConsistent'
  BY <1>27 DEF AcqStore
<1>28. ASSUME AcqTest(t) PROVE CallsConsistent'
  BY <1>28 DEF AcqTest
<1>29. ASSUME AcqSort(t) PROVE CallsConsistent'
  BY <1>29 DEF AcqSort
<1>30. ASSUME AcqNext(t) PROVE CallsConsistent'
  BY <1>30, SMTT(60) DEF AcqNext
<1>31. ASSUME RecalcFront(t) PROVE CallsConsistent'
  BY <1>31 DEF RecalcFront
<1>32. ASSUME RecalcRaise(t) PROVE CallsConsistent'
  BY <1>32 DEF RecalcRaise
<1>33. ASSUME RecalcStore(t) PROVE CallsConsistent'
  BY <1>33 DEF RecalcStore
<1>34. ASSUME SetRead(t) PROVE CallsConsistent'
  BY <1>34 DEF SetRead
<1>35. ASSUME SetStore(t) PROVE CallsConsistent'
  BY <1>35 DEF SetStore
<1> QED BY <1>1, <1>2, <1>3, <1>4, <1>5, <1>6, <1>7, <1>8, <1>9, <1>10, <1>11, <1>12, <1>13, <1>14,
           <1>15, <1>16, <1>17, <1>18, <1>19, <1>20, <1>21, <1>22, <1>23, <1>24, <1>25, <1>26, <1>27,
           <1>28, <1>29, <1>30, <1>31, <1>32, <1>33, <1>34, <1>35 DEF Call, Continue
\* An interrupt leaves the calls in progress as they are.
LEMMA InterruptCallsStep ==
  ASSUME TypeOK, CallsConsistent, IdleBlock \/ Interrupt
  PROVE  CallsConsistent'
<1> USE ThreadsAssumption DEF TypeOK, CallsConsistent, cpuVars, prioVars, lockVars, semaVars,
                              localVars, callVars, Labels, LockPcs, DonatePcs, ReleasePcs, Thread
<1>1. CASE IdleBlock
  BY <1>1 DEF IdleBlock
<1>2. CASE TimerTick
  BY <1>2 DEF TimerTick, WakeHlt
<1>3. ASSUME NEW s \in IntrSemas, IntrSemaUp(s) PROVE CallsConsistent'
  BY <1>3 DEF IntrSemaUp, WakeHlt
<1> QED BY <1>1, <1>2, <1>3 DEF Interrupt

\* After thread_start every variable has its type and no call is in progress.
LEMMA TypedInit == Init => TypeOK /\ CallsConsistent
<1> SUFFICES ASSUME Init PROVE TypeOK /\ CallsConsistent
  OBVIOUS
<1>1. TypeOK
  BY ThreadsAssumption, SyncAssumption, PrioAssumption, BoundsAssumption
     DEF Init, TypeOK, Thread, Sema, Status, Labels, Returns, Donation
<1>2. CallsConsistent
  BY ThreadsAssumption DEF Init, CallsConsistent, Thread, LockPcs, DonatePcs, ReleasePcs
<1> QED BY <1>1, <1>2

\* Every step keeps the types and the calls in progress consistent.
LEMMA TypedStep ==
  ASSUME TypeOK, CallsConsistent, [Next]_vars
  PROVE  TypeOK' /\ CallsConsistent'
<1>1. CASE UNCHANGED vars
  BY <1>1 DEF vars, TypeOK, CallsConsistent
<1>2. CASE IdleBlock \/ Interrupt
  BY <1>2, InterruptTypeStep, InterruptCallsStep
<1>3. ASSUME NEW t \in Threads, cur = t, Call(t) PROVE TypeOK'
  BY <1>3, PlainTypeStep, DispatchTypeStep DEF Call
<1>4. ASSUME NEW t \in Threads, cur = t, Continue(t) PROVE TypeOK'
  BY <1>4, PlainTypeStep, DispatchTypeStep DEF Continue, PrioStep
<1>5. ASSUME NEW t \in Threads, cur = t, Call(t) \/ Continue(t)
      PROVE  CallsConsistent'
  BY <1>5, CallsStep
<1> QED BY <1>1, <1>2, <1>3, <1>4, <1>5 DEF Next

\* Every variable of the scheduler, the semaphores and the locks keeps its
\* type in every reachable state, and every thread inside a C function has the
\* locals that the next step of the function uses.
THEOREM TypeCorrect == Spec => [](TypeOK /\ CallsConsistent)
<1>1. Init => TypeOK /\ CallsConsistent
  BY TypedInit
<1>2. TypeOK /\ CallsConsistent /\ [Next]_vars => TypeOK' /\ CallsConsistent'
  BY TypedStep
<1> QED BY <1>1, <1>2, PTL DEF Spec
-----------------------------------------------------------------------------
(* The run queue and the semaphore queues.                                 *)

\* The first half of ElemExclusive, for a CPU running c with statuses st and
\* run queue rl: c is the one running thread, rl holds the ready ones.
CpuQueue(c, st, rl) ==
  /\ \A t \in Thread : st[t] = "RUNNING" <=> c = t
  /\ NoDup(rl)
  /\ \A t \in Threads : t \in Range(rl) <=> st[t] = "READY"

Dead(x) == x \in {"NONE", "DYING"}

\* A dispatch starting from the statuses st blocks, wakes, makes and ends
\* nobody.
Gentle(st) ==
  \A t \in Threads :
    /\ status'[t] = "BLOCKED" <=> st[t] = "BLOCKED"
    /\ Dead(status'[t]) <=> Dead(st[t])

\* schedule takes the thread it dispatches off the run queue.
LEMMA ScheduleQueue ==
  ASSUME NEW st \in [Thread -> Status], NEW rl \in Seq(Threads), NoDup(rl),
         \A t \in Thread : st[t] # "RUNNING",
         \A t \in Threads : t \in Range(rl) <=> st[t] = "READY",
         schedule(st, rl)
  PROVE  /\ CpuQueue(cur', status', ready_list')
         /\ \A t \in Threads : t # cur' => status'[t] = st[t]
         /\ cur' \in Threads => st[cur'] = "READY"
         /\ cur' = Idle => ready_list' = <<>>
<1>1. CASE rl = <<>>
  <2>1. /\ cur' = Idle
        /\ ready_list' = rl
        /\ status' = [st EXCEPT ![Idle] = "RUNNING"]
    BY <1>1 DEF schedule, next_thread_to_run
  <2>2. Idle \in Thread /\ Idle \notin Threads
    BY ThreadsAssumption DEF Thread
  <2>3. \A t \in Threads : t \in Thread /\ status'[t] = st[t]
    BY <2>1, <2>2 DEF Thread
  <2>4. \A t \in Thread : status'[t] = "RUNNING" <=> Idle = t
    BY <2>1, <2>2
  <2>5. NoDup(ready_list') /\ \A t \in Threads : t \in Range(ready_list') <=> status'[t] = "READY"
    BY <2>1, <2>3
  <2> QED BY <1>1, <2>1, <2>2, <2>3, <2>4, <2>5 DEF CpuQueue
<1>2. CASE rl # <<>>
  <2>1. /\ cur' = Head(rl)
        /\ ready_list' = Tail(rl)
        /\ status' = [st EXCEPT ![Head(rl)] = "RUNNING"]
    BY <1>2 DEF schedule, next_thread_to_run
  <2>2. /\ Head(rl) \in Threads
        /\ Range(rl) = Range(Tail(rl)) \cup {Head(rl)}
        /\ NoDup(Tail(rl))
        /\ Head(rl) \notin Range(Tail(rl))
    BY <1>2, PopFrontFacts
  <2>3. Head(rl) \in Thread /\ Head(rl) # Idle /\ st[Head(rl)] = "READY"
    BY <2>2, ThreadsAssumption DEF Thread
  <2>4. \A t \in Thread : status'[t] = IF t = Head(rl) THEN "RUNNING" ELSE st[t]
    BY <2>1, <2>3
  <2>5. \A t \in Threads : t \in Thread
    BY DEF Thread
  <2>6. \A t \in Threads : t \in Range(Tail(rl)) <=> status'[t] = "READY"
    BY <2>2, <2>4, <2>5
  <2> QED BY <2>1, <2>2, <2>3, <2>4, <2>5, <2>6 DEF CpuQueue
<1> QED BY <1>1, <1>2

\* thread_yield: the running thread joins the ready ones; the others keep
\* their place, except that dead pages are freed.
LEMMA YieldQueue ==
  ASSUME CpuType, NEW st \in [Thread -> Status], NEW rl \in Seq(Threads),
         CpuQueue(cur, st, rl), thread_yield(st, rl)
  PROVE  CpuQueue(cur', status', ready_list') /\ Gentle(st)
<1> DEFINE st2 == [reap(st) EXCEPT ![cur] = "READY"]
<1>1. PICK q \in IF cur = Idle THEN {rl} ELSE InsertOrdered(rl, cur, priority) :
        schedule(st2, q)
  BY DEF thread_yield, do_schedule
<1>2. cur \in Thread /\ st[cur] = "RUNNING"
  BY DEF CpuType, CpuQueue
<1>3. /\ st2 \in [Thread -> Status]
      /\ \A t \in Thread : st2[t] = IF t = cur THEN "READY"
           ELSE IF st[t] = "DYING" /\ t # Main THEN "NONE" ELSE st[t]
  BY <1>2, ReapType DEF reap, Status
<1>4. \A t \in Thread : st2[t] # "RUNNING"
  BY <1>3 DEF CpuQueue
<1>5. /\ q \in Seq(Threads)
      /\ NoDup(q)
      /\ \A t \in Threads : t \in Range(q) <=> t \in Range(rl) \/ t = cur
  <2>1. CASE cur = Idle
    BY <1>1, <2>1, ThreadsAssumption DEF CpuQueue
  <2>2. CASE cur # Idle
    <3>1. cur \in Threads /\ q \in InsertOrdered(rl, cur, priority)
      BY <1>1, <1>2, <2>2 DEF Thread
    <3>2. cur \notin Range(rl)
      BY <1>2, <3>1 DEF CpuQueue
    <3>3. NoDup(rl)
      BY DEF CpuQueue
    <3> QED BY <3>1, <3>2, <3>3, InsertOrderedFacts
  <2> QED BY <2>1, <2>2
<1>6. \A t \in Threads : t \in Thread
  BY DEF Thread
<1>7. \A t \in Threads : t \in Range(q) <=> st2[t] = "READY"
  BY <1>3, <1>5, <1>6 DEF CpuQueue
<1> HIDE DEF st2
<1>8. /\ CpuQueue(cur', status', ready_list')
      /\ \A t \in Threads : t # cur' => status'[t] = st2[t]
      /\ cur' \in Threads => st2[cur'] = "READY"
  BY <1>1, <1>3, <1>4, <1>5, <1>7, ScheduleQueue
<1>9. \A t \in Threads : t = cur' => status'[t] = "RUNNING"
  BY <1>6, <1>8 DEF CpuQueue
<1>10. Gentle(st)
  <2> SUFFICES ASSUME NEW t \in Threads
               PROVE  /\ status'[t] = "BLOCKED" <=> st[t] = "BLOCKED"
                      /\ Dead(status'[t]) <=> Dead(st[t])
    BY DEF Gentle
  <2> QED BY <1>2, <1>3, <1>6, <1>8, <1>9 DEF Dead
<1> QED BY <1>8, <1>10

\* compare_cur_next_priority keeps the queues consistent.
LEMMA CompareQueue ==
  ASSUME TypeOK, NEW st \in [Thread -> Status], NEW rl \in Seq(Threads),
         CpuQueue(cur, st, rl), compare_cur_next_priority(st, rl)
  PROVE  CpuQueue(cur', status', ready_list') /\ Gentle(st)
<1>1. PICK q \in ListSort(rl, priority) :
        \/ thread_yield(st, q)
        \/ /\ ready_list' = q
           /\ status' = st
           /\ UNCHANGED <<cur, thread_ticks>>
  BY DEF compare_cur_next_priority
<1>2. q \in Seq(Threads) /\ Range(q) = Range(rl) /\ (NoDup(rl) => NoDup(q))
  BY <1>1, PriorityIsKey, ListSortFacts
<1>3. CpuQueue(cur, st, q)
  BY <1>2 DEF CpuQueue
<1>4. CpuType
  BY DEF TypeOK, CpuType
<1>5. CASE thread_yield(st, q)
  BY <1>2, <1>3, <1>4, <1>5, YieldQueue
<1>6. CASE /\ ready_list' = q
           /\ status' = st
           /\ UNCHANGED <<cur, thread_ticks>>
  BY <1>3, <1>6 DEF Gentle
<1> QED BY <1>1, <1>5, <1>6

\* thread_block and thread_exit: the running thread leaves, the others stay.
LEMMA LeaveQueue ==
  ASSUME CpuType, CpuQueue(cur, status, ready_list), cur \in Threads,
         NEW new \in {"BLOCKED", "DYING"}, NEW st \in [Thread -> Status],
         \A t \in Thread : t # cur =>
           \/ st[t] = status[t]
           \/ status[t] = "DYING" /\ st[t] = "NONE",
         st[cur] = new, schedule(st, ready_list)
  PROVE  /\ CpuQueue(cur', status', ready_list')
         /\ status'[cur] = new
         /\ \A t \in Threads : t # cur =>
              /\ status'[t] = "BLOCKED" <=> status[t] = "BLOCKED"
              /\ Dead(status'[t]) <=> Dead(status[t])
<1>1. \A t \in Threads : t \in Thread
  BY DEF Thread
<1>2. ready_list \in Seq(Threads) /\ status \in [Thread -> Status]
  BY DEF CpuType
<1>3. \A t \in Thread : st[t] # "RUNNING"
  BY DEF CpuQueue
<1>4. \A t \in Threads : t \in Range(ready_list) <=> st[t] = "READY"
  BY <1>1 DEF CpuQueue
<1>5. NoDup(ready_list)
  BY DEF CpuQueue
<1>6. /\ CpuQueue(cur', status', ready_list')
      /\ \A t \in Threads : t # cur' => status'[t] = st[t]
      /\ cur' \in Threads => st[cur'] = "READY"
  BY <1>2, <1>3, <1>4, <1>5, ScheduleQueue
<1>7. \A t \in Threads : t = cur' => status'[t] = "RUNNING"
  BY <1>1, <1>6 DEF CpuQueue
<1>8. status'[cur] = new
  BY <1>6
<1> QED BY <1>1, <1>6, <1>7, <1>8 DEF Dead
\* A step may take threads out of semaphore queues by waking them, and may not
\* otherwise disturb who is blocked, dead or queued.
OnlyWakes ==
  /\ \A t \in Threads : status'[t] = "BLOCKED" => status[t] = "BLOCKED"
  /\ \A t \in Threads : Dead(status'[t]) <=> Dead(status[t])
  /\ \A s \in Sema : NoDup(waiters'[s])
  /\ \A s \in Sema, t \in Threads :
       t \in Range(waiters'[s]) <=>
         t \in Range(waiters[s]) /\ status'[t] = "BLOCKED"
  /\ \A t \in Threads : status[t] = "BLOCKED" /\ status'[t] # "BLOCKED"
       => pc[t] = "down_wait"

\* A dispatch that leaves the semaphore queues alone wakes nobody.
LEMMA GentleOnlyWakes ==
  ASSUME ElemExclusive, Gentle(status),
         \A s \in Sema : NoDup(waiters'[s]) /\ Range(waiters'[s]) = Range(waiters[s])
  PROVE  OnlyWakes
  BY DEF ElemExclusive, Gentle, OnlyWakes

\* sema_up wakes at most the front of the queue it is called for.
LEMMA SemaUpQueue ==
  ASSUME TypeOK, ElemExclusive, NEW s \in Sema, sema_up(s)
  PROVE  CpuQueue(cur', status', ready_list') /\ OnlyWakes
<1>0. /\ CpuQueue(cur, status, ready_list)
      /\ status \in [Thread -> Status]
      /\ ready_list \in Seq(Threads)
      /\ waiters[s] \in Seq(Threads)
      /\ NoDup(waiters[s])
      /\ \A t \in Threads : t \in Thread
  BY DEF ElemExclusive, CpuQueue, TypeOK, Thread
<1>1. CASE waiters[s] = <<>>
  <2>1. compare_cur_next_priority(status, ready_list) /\ waiters' = waiters
    BY <1>1 DEF sema_up
  <2>2. CpuQueue(cur', status', ready_list') /\ Gentle(status)
    BY <1>0, <2>1, CompareQueue
  <2>3. \A u \in Sema : NoDup(waiters'[u]) /\ Range(waiters'[u]) = Range(waiters[u])
    BY <2>1 DEF ElemExclusive
  <2> QED BY <2>2, <2>3, GentleOnlyWakes
<1>2. CASE waiters[s] # <<>>
  <2>0. PICK w \in ListSort(waiters[s], priority) :
          /\ waiters' = [waiters EXCEPT ![s] = Tail(w)]
          /\ \E rl \in InsertOrdered(ready_list, Head(w), priority) :
               compare_cur_next_priority([status EXCEPT ![Head(w)] = "READY"], rl)
    BY <1>2 DEF sema_up
  <2>1. PICK rl \in InsertOrdered(ready_list, Head(w), priority) :
          compare_cur_next_priority([status EXCEPT ![Head(w)] = "READY"], rl)
    BY <2>0
  <2> DEFINE x == Head(w)
             st == [status EXCEPT ![x] = "READY"]
  <2>2. /\ w \in Seq(Threads) /\ Len(w) = Len(waiters[s])
        /\ Range(w) = Range(waiters[s]) /\ NoDup(w)
    BY <1>0, <2>0, PriorityIsKey, ListSortFacts
  <2>3. w # <<>>
    BY <1>0, <1>2, <2>2
  <2>4. /\ x \in Threads
        /\ Range(waiters[s]) = Range(Tail(w)) \cup {x}
        /\ NoDup(Tail(w))
        /\ x \notin Range(Tail(w))
    BY <2>2, <2>3, PopFrontFacts
  <2>5. status[x] = "BLOCKED" /\ pc[x] = "down_wait" /\ op[x] = s
    BY <2>4 DEF ElemExclusive
  <2>6. x \notin Range(ready_list)
    BY <1>0, <2>4, <2>5 DEF CpuQueue
  <2>7. /\ rl \in Seq(Threads)
        /\ Range(rl) = Range(ready_list) \cup {x}
        /\ NoDup(rl)
    BY <1>0, <2>1, <2>4, <2>6, InsertOrderedFacts DEF CpuQueue
  <2>8. /\ st \in [Thread -> Status]
        /\ \A t \in Thread : st[t] = IF t = x THEN "READY" ELSE status[t]
    BY <1>0, <2>4 DEF Status
  <2>9. CpuQueue(cur, st, rl)
    BY <1>0, <2>4, <2>5, <2>7, <2>8 DEF CpuQueue
  <2>10. compare_cur_next_priority(st, rl)
    BY <2>1
  <2> HIDE DEF st
  <2>11. CpuQueue(cur', status', ready_list') /\ Gentle(st)
    BY <2>7, <2>8, <2>9, <2>10, CompareQueue
  <2>12. \A t \in Threads :
           /\ status'[t] = "BLOCKED" <=> status[t] = "BLOCKED" /\ t # x
           /\ Dead(status'[t]) <=> Dead(status[t])
    BY <1>0, <2>5, <2>8, <2>11 DEF Gentle, Dead
  <2>13. \A u \in Sema : waiters'[u] = IF u = s THEN Tail(w) ELSE waiters[u]
    BY <2>0 DEF TypeOK
  <2>14. \A u \in Sema : NoDup(waiters'[u])
    BY <2>4, <2>13 DEF ElemExclusive
  <2>15. ASSUME NEW u \in Sema, NEW t \in Threads
         PROVE  t \in Range(waiters'[u]) <=>
                  t \in Range(waiters[u]) /\ status'[t] = "BLOCKED"
    <3>1. t \in Range(waiters[u]) => status[t] = "BLOCKED" /\ op[t] = u
      BY DEF ElemExclusive
    <3>2. CASE u = s
      BY <2>4, <2>12, <2>13, <3>1, <3>2
    <3>3. CASE u # s
      BY <2>5, <2>12, <2>13, <3>1, <3>3
    <3> QED BY <3>2, <3>3
  <2>16. OnlyWakes
    BY <2>5, <2>12, <2>14, <2>15 DEF OnlyWakes
  <2> QED BY <2>11, <2>16
<1> QED BY <1>1, <1>2

\* What is proved about the queues: the exclusiveness of `elem', and the two
\* facts it needs about threads that do not yet or no longer run.
QueueInv == ElemExclusive /\ DeadAtRest /\ NewbornProtected

\* A step of the running thread, or of an interrupt, that only wakes threads
\* and moves no other thread's program counter preserves QueueInv.
LEMMA QueueFrame ==
  ASSUME TypeOK, QueueInv,
         CpuQueue(cur', status', ready_list'), OnlyWakes,
         \A u \in Threads : u # cur => pc'[u] = pc[u] /\ op'[u] = op[u],
         \A u \in Threads : child'[u] = child[u] \/ child'[u] = None,
         \A u \in Threads : pc[u] = "create_cmp" /\ child'[u] # None
           => pc'[u] = "create_cmp"
  PROVE  QueueInv'
<1>0. \A u \in Threads : u \in Thread
  BY DEF Thread
<1>1. \A u \in Threads : u = cur => status[u] = "RUNNING"
  BY <1>0 DEF QueueInv, ElemExclusive
<1>2. ElemExclusive'
  <2>1. ASSUME NEW s \in Sema, NEW u \in Threads
        PROVE  u \in Range(waiters'[s]) <=>
                 status'[u] = "BLOCKED" /\ pc'[u] = "down_wait" /\ op'[u] = s
    <3>1. u \in Range(waiters[s]) <=>
            status[u] = "BLOCKED" /\ pc[u] = "down_wait" /\ op[u] = s
      BY DEF QueueInv, ElemExclusive
    <3>2. status'[u] = "BLOCKED" => status[u] = "BLOCKED" /\ u # cur
      BY <1>1 DEF OnlyWakes
    <3>3. u \in Range(waiters'[s]) <=> u \in Range(waiters[s]) /\ status'[u] = "BLOCKED"
      BY DEF OnlyWakes
    <3> QED BY <3>1, <3>2, <3>3
  <2> QED BY <2>1 DEF ElemExclusive, CpuQueue, OnlyWakes
<1>3. DeadAtRest'
  <2> SUFFICES ASSUME NEW u \in Threads, Dead(status'[u]) PROVE pc'[u] = "run"
    BY DEF DeadAtRest, Dead
  <2>1. Dead(status[u]) /\ u # cur
    BY <1>1 DEF OnlyWakes, Dead
  <2> QED BY <2>1 DEF QueueInv, DeadAtRest, Dead
<1>4. NewbornProtected'
  <2> SUFFICES ASSUME NEW u \in Threads, child'[u] # None
               PROVE  /\ ~Dead(status'[child'[u]])
                      /\ pc'[u] # "create_cmp" =>
                           status'[child'[u]] = "BLOCKED" /\ pc'[child'[u]] = "run"
                      /\ \A v \in Threads : child'[v] = child'[u] => v = u
    BY DEF NewbornProtected, Dead
  <2>1. child'[u] = child[u] /\ child[u] \in Threads
    BY DEF TypeOK
  <2>2. /\ ~Dead(status[child[u]])
        /\ pc[u] # "create_cmp" => status[child[u]] = "BLOCKED" /\ pc[child[u]] = "run"
        /\ \A v \in Threads : child[v] = child[u] => v = u
    BY <2>1 DEF QueueInv, NewbornProtected, Dead
  <2>3. ~Dead(status'[child'[u]])
    BY <2>1, <2>2 DEF OnlyWakes
  <2>4. ASSUME pc'[u] # "create_cmp"
        PROVE  status'[child'[u]] = "BLOCKED" /\ pc'[child'[u]] = "run"
    <3>1. pc[u] # "create_cmp"
      BY <2>4
    <3>2. status[child[u]] = "BLOCKED" /\ pc[child[u]] = "run"
      BY <2>2, <3>1
    <3>3. status'[child[u]] = "BLOCKED" /\ child[u] # cur
      BY <1>1, <2>1, <3>2 DEF OnlyWakes
    <3> QED BY <2>1, <3>2, <3>3
  <2>5. \A v \in Threads : child'[v] = child'[u] => v = u
    BY <2>1, <2>2
  <2> QED BY <2>3, <2>4, <2>5
<1> QED BY <1>2, <1>3, <1>4 DEF QueueInv

\* A step that leaves the CPU alone and at most re-sorts semaphore queues.
LEMMA QuietQueue ==
  ASSUME TypeOK, QueueInv, UNCHANGED cpuVars,
         \A s \in Sema : NoDup(waiters'[s]) /\ Range(waiters'[s]) = Range(waiters[s])
  PROVE  CpuQueue(cur', status', ready_list') /\ OnlyWakes
<1>1. cur' = cur /\ status' = status /\ ready_list' = ready_list
  BY DEF cpuVars
<1>2. CpuQueue(cur', status', ready_list')
  BY <1>1 DEF QueueInv, ElemExclusive, CpuQueue
<1>3. Gentle(status)
  BY <1>1 DEF Gentle
<1> QED BY <1>2, <1>3, GentleOnlyWakes DEF QueueInv

\* sema_down either takes a unit or puts the running thread to sleep.
LEMMA SemaDownQueue ==
  ASSUME TypeOK, QueueInv, NEW t \in Threads, cur = t, NEW s \in Sema,
         NEW done, pc[t] # "create_cmp", sema_down(t, s, done), child' = child
  PROVE  QueueInv'
<1>0. /\ CpuQueue(cur, status, ready_list)
      /\ CpuType
      /\ status[t] = "RUNNING"
      /\ status \in [Thread -> Status]
      /\ \A u \in Threads : u \in Thread
      /\ waiters \in [Sema -> Seq(Threads)]
      /\ pc \in [Thread -> Labels]
      /\ op \in [Threads -> Sema \cup {None}]
  BY DEF QueueInv, ElemExclusive, CpuQueue, TypeOK, CpuType, Thread
<1>1. CASE value[s] > 0
  <2>1. /\ pc' = [pc EXCEPT ![t] = done]
        /\ op' = [op EXCEPT ![t] = IF s \in Locks THEN s ELSE None]
        /\ UNCHANGED <<waiters, cpuVars>>
    BY <1>1 DEF sema_down, TypeOK
  <2>2. \A u \in Sema : NoDup(waiters'[u]) /\ Range(waiters'[u]) = Range(waiters[u])
    BY <2>1 DEF QueueInv, ElemExclusive
  <2>3. CpuQueue(cur', status', ready_list') /\ OnlyWakes
    BY <2>1, <2>2, QuietQueue
  <2>4. \A u \in Threads : u # t => pc'[u] = pc[u] /\ op'[u] = op[u]
    BY <1>0, <2>1
  <2> QED BY <2>3, <2>4, QueueFrame
<1>2. CASE value[s] = 0
  <2>0. /\ \E w \in InsertOrdered(waiters[s], t, priority) :
             waiters' = [waiters EXCEPT ![s] = w]
        /\ thread_block
        /\ pc' = [pc EXCEPT ![t] = "down_wait"]
        /\ op' = [op EXCEPT ![t] = s]
    BY <1>2 DEF sema_down
  <2>1. PICK w \in InsertOrdered(waiters[s], t, priority) :
          waiters' = [waiters EXCEPT ![s] = w]
    BY <2>0
  <2> DEFINE st == [status EXCEPT ![cur] = "BLOCKED"]
  <2>2. /\ st \in [Thread -> Status]
        /\ st[cur] = "BLOCKED"
        /\ \A u \in Thread : u # cur => st[u] = status[u]
    BY <1>0 DEF Status
  <2>3. schedule(st, ready_list)
    BY <2>0 DEF thread_block
  <2> HIDE DEF st
  <2>4. /\ CpuQueue(cur', status', ready_list')
        /\ status'[t] = "BLOCKED"
        /\ \A u \in Threads : u # t =>
             /\ status'[u] = "BLOCKED" <=> status[u] = "BLOCKED"
             /\ Dead(status'[u]) <=> Dead(status[u])
    BY <1>0, <2>2, <2>3, LeaveQueue
  <2>5. t \notin Range(waiters[s])
    BY <1>0 DEF QueueInv, ElemExclusive
  <2>6. NoDup(w) /\ Range(w) = Range(waiters[s]) \cup {t}
    BY <1>0, <2>1, <2>5, InsertOrderedFacts DEF QueueInv, ElemExclusive
  <2>7. \A v \in Sema : waiters'[v] = IF v = s THEN w ELSE waiters[v]
    BY <1>0, <2>1
  <2>8. /\ \A u \in Threads : u # t => pc'[u] = pc[u] /\ op'[u] = op[u]
        /\ pc'[t] = "down_wait" /\ op'[t] = s
    BY <1>0, <2>0
  <2>9. ASSUME NEW v \in Sema, NEW u \in Threads
        PROVE  u \in Range(waiters'[v]) <=>
                 status'[u] = "BLOCKED" /\ pc'[u] = "down_wait" /\ op'[u] = v
    <3>1. u \in Range(waiters[v]) <=>
            status[u] = "BLOCKED" /\ pc[u] = "down_wait" /\ op[u] = v
      BY DEF QueueInv, ElemExclusive
    <3> QED BY <1>0, <2>4, <2>6, <2>7, <2>8, <3>1
  <2>10. \A v \in Sema : NoDup(waiters'[v])
    BY <2>6, <2>7 DEF QueueInv, ElemExclusive
  <2>11. ElemExclusive'
    BY <2>4, <2>9, <2>10 DEF ElemExclusive, CpuQueue
  <2>12. DeadAtRest'
    <3> SUFFICES ASSUME NEW u \in Threads, Dead(status'[u]) PROVE pc'[u] = "run"
      BY DEF DeadAtRest, Dead
    <3>1. u # t /\ Dead(status[u])
      BY <2>4 DEF Dead
    <3> QED BY <2>8, <3>1 DEF QueueInv, DeadAtRest, Dead
  <2>13. NewbornProtected'
    <3> SUFFICES ASSUME NEW u \in Threads, child[u] # None
                 PROVE  /\ ~Dead(status'[child[u]])
                        /\ pc'[u] # "create_cmp" =>
                             status'[child[u]] = "BLOCKED" /\ pc'[child[u]] = "run"
                        /\ \A v \in Threads : child[v] = child[u] => v = u
      BY DEF NewbornProtected, Dead
    <3>1. child[u] \in Threads
      BY DEF TypeOK
    <3>2. /\ ~Dead(status[child[u]])
          /\ pc[u] # "create_cmp" => status[child[u]] = "BLOCKED" /\ pc[child[u]] = "run"
          /\ \A v \in Threads : child[v] = child[u] => v = u
      BY DEF QueueInv, NewbornProtected, Dead
    <3>3. ~Dead(status'[child[u]])
      BY <2>4, <3>1, <3>2 DEF Dead
    <3>4. ASSUME pc'[u] # "create_cmp"
          PROVE  status'[child[u]] = "BLOCKED" /\ pc'[child[u]] = "run"
      <4>1. pc[u] # "create_cmp"
        BY <2>8, <3>4
      <4>2. status[child[u]] = "BLOCKED" /\ pc[child[u]] = "run" /\ child[u] # t
        BY <1>0, <3>2, <4>1
      <4> QED BY <2>4, <2>8, <3>1, <4>2
    <3> QED BY <3>2, <3>3, <3>4
  <2> QED BY <2>11, <2>12, <2>13 DEF QueueInv
<1> QED BY <1>1, <1>2 DEF TypeOK

\* The steps that leave the CPU and the semaphore queues alone.
LEMMA QuietQueueStep ==
  ASSUME TypeOK, CallsConsistent, QueueInv, NEW t \in Threads, cur = t,
         \/ \E s \in Semas : SemaTryDown(t, s)
         \/ \E l \in Locks : LockAcquire(t, l) \/ LockTryAcquire(t, l) \/ LockRelease(t, l)
         \/ \E p \in SetPrio : SetPriority(t, p)
         \/ AcqRead(t) \/ AcqDonate(t) \/ AcqRaise(t) \/ AcqSet(t) \/ TrySet(t)
         \/ recalc_priority(t) \/ RelNull(t) \/ CreateRel(t) \/ PrioStep(t)
  PROVE  QueueInv'
<1>1. UNCHANGED cpuVars /\ waiters' = waiters /\ child' = child
  BY PrioStepQuiet, Zenon DEF SemaTryDown, LockAcquire, lock_acquire, LockTryAcquire, LockRelease, lock_release,
     SetPriority, AcqRead, AcqDonate, AcqRaise, AcqSet, TrySet, recalc_priority, RelNull,
     CreateRel, semaVars, callVars
<1>2. \A s \in Sema : NoDup(waiters'[s]) /\ Range(waiters'[s]) = Range(waiters[s])
  BY <1>1 DEF QueueInv, ElemExclusive
<1>3. CpuQueue(cur', status', ready_list') /\ OnlyWakes
  BY <1>1, <1>2, QuietQueue
<1>4. pc \in [Thread -> Labels] /\ op \in [Threads -> Sema \cup {None}]
  BY DEF TypeOK
<1>5. \A u \in Threads : u # cur => pc'[u] = pc[u] /\ op'[u] = op[u]
  BY <1>4, PrioStepQuiet DEF SemaTryDown, LockAcquire, lock_acquire, LockTryAcquire, LockRelease, lock_release,
     SetPriority, AcqRead, AcqDonate, AcqRaise, AcqSet, TrySet, recalc_priority, RelNull,
     CreateRel, callVars, Thread
<1>6. pc[t] # "create_cmp"
  BY PrioStepQuiet, Zenon DEF SemaTryDown, LockAcquire, LockTryAcquire, LockRelease,
     SetPriority, AcqRead, AcqDonate, AcqRaise, AcqSet, TrySet, recalc_priority, RelNull,
     CreateRel
<1>7. \A u \in Threads : pc[u] = "create_cmp" /\ child'[u] # None => pc'[u] = "create_cmp"
  BY <1>5, <1>6
<1> QED BY <1>1, <1>3, <1>5, <1>7, QueueFrame

\* The steps that use a semaphore, sort a queue or yield.
LEMMA WakingQueueStep ==
  ASSUME TypeOK, CallsConsistent, QueueInv, NEW t \in Threads, cur = t
  PROVE  /\ \A s \in Semas : SemaUp(t, s) => QueueInv'
         /\ RelUp(t) => QueueInv'
         /\ Compare(t) => QueueInv'
         /\ CreateCompare(t) => QueueInv'
         /\ ThreadYield(t) => QueueInv'
         /\ AcqSort(t) => QueueInv'
<1>0. /\ CpuQueue(cur, status, ready_list)
      /\ CpuType
      /\ status \in [Thread -> Status]
      /\ ready_list \in Seq(Threads)
      /\ \A u \in Threads : u \in Thread
      /\ pc \in [Thread -> Labels]
      /\ op \in [Threads -> Sema \cup {None}]
      /\ child \in [Threads -> Threads \cup {None}]
      /\ ElemExclusive
      /\ \A s \in Sema : NoDup(waiters[s])
  BY DEF QueueInv, ElemExclusive, CpuQueue, TypeOK, CpuType, Thread
<1>1. ASSUME waiters' = waiters, Gentle(status) PROVE OnlyWakes
  BY <1>0, <1>1, GentleOnlyWakes
<1>2. ASSUME NEW s \in Semas, SemaUp(t, s) PROVE QueueInv'
  <2>1. sema_up(s) /\ UNCHANGED <<pc, op, child>> /\ s \in Sema
    BY <1>2 DEF SemaUp, callVars, Sema
  <2>2. CpuQueue(cur', status', ready_list') /\ OnlyWakes
    BY <1>0, <2>1, SemaUpQueue
  <2> QED BY <2>1, <2>2, QueueFrame
<1>3. ASSUME RelUp(t) PROVE QueueInv'
  <2>1. /\ sema_up(op[t])
        /\ op' = [op EXCEPT ![t] = None]
        /\ pc' = [pc EXCEPT ![t] = "cmp"]
        /\ child' = child
        /\ pc[t] = "rel_up"
    BY <1>3 DEF RelUp
  <2>2. op[t] \in Sema
    BY <2>1 DEF CallsConsistent, LockPcs, Sema
  <2>3. CpuQueue(cur', status', ready_list') /\ OnlyWakes
    BY <1>0, <2>1, <2>2, SemaUpQueue
  <2>4. \A u \in Threads : u # cur => pc'[u] = pc[u] /\ op'[u] = op[u]
    BY <1>0, <2>1
  <2> QED BY <2>1, <2>3, <2>4, QueueFrame
<1>4. ASSUME Compare(t) PROVE QueueInv'
  <2>1. /\ compare_cur_next_priority(status, ready_list)
        /\ pc' = [pc EXCEPT ![t] = ret[t]]
        /\ UNCHANGED <<waiters, op, child>>
        /\ pc[t] = "cmp"
    BY <1>4 DEF Compare, semaVars
  <2>2. CpuQueue(cur', status', ready_list') /\ Gentle(status)
    BY <1>0, <2>1, CompareQueue
  <2>3. OnlyWakes
    BY <1>1, <2>1, <2>2
  <2>4. \A u \in Threads : u # cur => pc'[u] = pc[u] /\ op'[u] = op[u]
    BY <1>0, <2>1
  <2> QED BY <2>1, <2>2, <2>3, <2>4, QueueFrame
<1>5. ASSUME CreateCompare(t) PROVE QueueInv'
  <2>1. /\ thread_yield(status, ready_list) \/ UNCHANGED cpuVars
        /\ pc' = [pc EXCEPT ![t] = "run"]
        /\ child' = [child EXCEPT ![t] = None]
        /\ UNCHANGED <<waiters, op>>
    BY <1>5 DEF CreateCompare, semaVars
  <2>2. CpuQueue(cur', status', ready_list') /\ Gentle(status)
    <3>1. CASE thread_yield(status, ready_list)
      BY <1>0, <3>1, YieldQueue
    <3>2. CASE UNCHANGED cpuVars
      BY <1>0, <3>2 DEF cpuVars, CpuQueue, Gentle
    <3> QED BY <2>1, <3>1, <3>2
  <2>3. OnlyWakes
    BY <1>1, <2>1, <2>2
  <2>4. \A u \in Threads : u # cur => pc'[u] = pc[u] /\ op'[u] = op[u]
    BY <1>0, <2>1
  <2>5. child'[t] = None /\ \A u \in Threads : u # t => child'[u] = child[u]
    BY <1>0, <2>1
  <2>6. /\ \A u \in Threads : child'[u] = child[u] \/ child'[u] = None
        /\ \A u \in Threads : pc[u] = "create_cmp" /\ child'[u] # None
             => pc'[u] = "create_cmp"
    BY <2>4, <2>5
  <2> QED BY <2>2, <2>3, <2>4, <2>6, QueueFrame
<1>6. ASSUME ThreadYield(t) PROVE QueueInv'
  <2>1. thread_yield(status, ready_list) /\ UNCHANGED <<waiters, op, pc, child>>
    BY <1>6 DEF ThreadYield, semaVars, callVars
  <2>2. CpuQueue(cur', status', ready_list') /\ Gentle(status)
    BY <1>0, <2>1, YieldQueue
  <2>3. OnlyWakes
    BY <1>1, <2>1, <2>2
  <2> QED BY <2>1, <2>2, <2>3, QueueFrame
<1>7. ASSUME AcqSort(t) PROVE QueueInv'
  <2> DEFINE next == pending_lock[hldr[t]]
  <2>1. /\ UNCHANGED <<cpuVars, op, child>>
        /\ pc[t] = "acq_sort"
        /\ \E lbl \in Labels : pc' = [pc EXCEPT ![t] = lbl]
        /\ \/ waiters' = waiters
           \/ /\ next # None
              /\ \E w \in ListSort(waiters[next], priority) :
                   waiters' = [waiters EXCEPT ![next] = w]
    BY <1>7 DEF AcqSort, callVars, Labels
  <2>2. hldr[t] \in Threads
    BY <2>1 DEF CallsConsistent, DonatePcs
  <2>3. next # None => next \in Sema
    BY <2>2 DEF TypeOK, Sema
  <2>4. \A s \in Sema : NoDup(waiters'[s]) /\ Range(waiters'[s]) = Range(waiters[s])
    <3>1. CASE waiters' = waiters
      BY <1>0, <3>1
    <3>2. ASSUME NEW w \in ListSort(waiters[next], priority), next # None,
                 waiters' = [waiters EXCEPT ![next] = w]
          PROVE  \A s \in Sema : NoDup(waiters'[s]) /\ Range(waiters'[s]) = Range(waiters[s])
      <4>1. next \in Sema /\ waiters \in [Sema -> Seq(Threads)]
        BY <2>3, <3>2 DEF TypeOK
      <4> HIDE DEF next
      <4>2. waiters[next] \in Seq(Threads) /\ NoDup(waiters[next])
        BY <1>0, <4>1
      <4>3. NoDup(w) /\ Range(w) = Range(waiters[next])
        BY <3>2, <4>2, PriorityIsKey, ListSortFacts
      <4> QED BY <1>0, <3>2, <4>1, <4>3
    <3> QED BY <2>1, <3>1, <3>2
  <2>5. CpuQueue(cur', status', ready_list') /\ OnlyWakes
    BY <2>1, <2>4, QuietQueue
  <2>6. \A u \in Threads : u # cur => pc'[u] = pc[u] /\ op'[u] = op[u]
    BY <1>0, <2>1
  <2> QED BY <2>1, <2>5, <2>6, QueueFrame
<1> QED BY <1>2, <1>3, <1>4, <1>5, <1>6, <1>7

\* thread_create puts the new thread into a page that was free, ...
LEMMA CreateQueueStep ==
  ASSUME TypeOK, CallsConsistent, QueueInv, NEW t \in Threads, cur = t,
         NEW u \in Threads, NEW p, ThreadCreate(t, u, p)
  PROVE  QueueInv'
<1>1. /\ pc[t] = "run" /\ status[u] = "NONE"
      /\ op' = [op EXCEPT ![t] = TidLock]
      /\ status' = [status EXCEPT ![u] = "BLOCKED"]
      /\ child' = [child EXCEPT ![t] = u]
      /\ UNCHANGED <<cur, ready_list, waiters>>
  BY DEF ThreadCreate, semaVars
<1>2. PICK lbl \in {"acq_down", "acq_read"} : pc' = [pc EXCEPT ![t] = lbl]
  BY DEF ThreadCreate
<1>3. /\ status \in [Thread -> Status] /\ pc \in [Thread -> Labels]
      /\ op \in [Threads -> Sema \cup {None}]
      /\ child \in [Threads -> Threads \cup {None}]
      /\ \A v \in Threads : v \in Thread
      /\ status[t] = "RUNNING" /\ u # t
  BY <1>1 DEF TypeOK, Thread, QueueInv, ElemExclusive
<1>4. /\ \A v \in Thread : status'[v] = IF v = u THEN "BLOCKED" ELSE status[v]
      /\ \A v \in Threads : v # t => pc'[v] = pc[v] /\ op'[v] = op[v] /\ child'[v] = child[v]
      /\ pc'[t] = lbl /\ child'[t] = u
      /\ pc[u] = "run" /\ pc'[u] = "run"
  BY <1>1, <1>2, <1>3 DEF QueueInv, DeadAtRest
<1>5. ElemExclusive'
  <2>1. \A v \in Thread : status'[v] = "RUNNING" <=> cur' = v
    BY <1>1, <1>4 DEF QueueInv, ElemExclusive
  <2>2. /\ NoDup(ready_list')
        /\ \A v \in Threads : v \in Range(ready_list') <=> status'[v] = "READY"
    BY <1>1, <1>3, <1>4 DEF QueueInv, ElemExclusive
  <2>3. ASSUME NEW s \in Sema
        PROVE  /\ NoDup(waiters'[s])
               /\ \A v \in Threads : v \in Range(waiters'[s]) <=>
                    status'[v] = "BLOCKED" /\ pc'[v] = "down_wait" /\ op'[v] = s
    BY <1>1, <1>2, <1>3, <1>4 DEF QueueInv, ElemExclusive
  <2> QED BY <2>1, <2>2, <2>3 DEF ElemExclusive
<1>6. DeadAtRest'
  BY <1>3, <1>4 DEF QueueInv, DeadAtRest
<1>7. NewbornProtected'
  <2> SUFFICES ASSUME NEW v \in Threads, child'[v] # None
               PROVE  /\ ~Dead(status'[child'[v]])
                      /\ pc'[v] # "create_cmp" =>
                           status'[child'[v]] = "BLOCKED" /\ pc'[child'[v]] = "run"
                      /\ \A x \in Threads : child'[x] = child'[v] => x = v
    BY DEF NewbornProtected, Dead
  <2>1. \A x \in Threads : child[x] # u
    BY <1>1, ThreadsAssumption DEF QueueInv, NewbornProtected
  <2>2. CASE v = t
    BY <1>3, <1>4, <2>1, <2>2 DEF Dead
  <2>3. CASE v # t
    <3>1. child'[v] = child[v] /\ child[v] \in Threads /\ child[v] # u
      BY <1>3, <1>4, <2>1, <2>3
    <3>2. /\ ~Dead(status[child[v]])
          /\ pc[v] # "create_cmp" => status[child[v]] = "BLOCKED" /\ pc[child[v]] = "run"
          /\ \A x \in Threads : child[x] = child[v] => x = v
      BY <3>1, ThreadsAssumption DEF QueueInv, NewbornProtected, Dead
    <3>3. child[v] \in Thread /\ status'[child[v]] = status[child[v]]
      BY <1>3, <1>4, <3>1
    <3>4. pc[v] # "create_cmp" => pc'[child[v]] = "run"
      BY <1>3, <1>4, <3>1, <3>2
    <3>5. \A x \in Threads : child'[x] = child'[v] => x = v
      BY <1>4, <3>1, <3>2
    <3> QED BY <1>4, <2>3, <3>1, <3>2, <3>3, <3>4, <3>5
  <2> QED BY <2>2, <2>3
<1> QED BY <1>5, <1>6, <1>7 DEF QueueInv

\* ... and readies it, the only thread that becomes ready without having slept
\* on a semaphore.
LEMMA ReadyQueueStep ==
  ASSUME TypeOK, CallsConsistent, QueueInv, NEW t \in Threads, cur = t,
         CreateReady(t)
  PROVE  QueueInv'
<1> DEFINE u == child[t]
<1>1. /\ pc[t] = "create_ready"
      /\ ready_list' \in InsertOrdered(ready_list, u, priority)
      /\ status' = [status EXCEPT ![u] = "READY"]
      /\ pc' = [pc EXCEPT ![t] = "create_cmp"]
      /\ UNCHANGED <<cur, waiters, op, child>>
  BY DEF CreateReady, semaVars, callVars
<1>2. u \in Threads /\ u # None
  BY <1>1, ThreadsAssumption DEF CallsConsistent, TypeOK
<1>3. /\ status[u] = "BLOCKED" /\ pc[u] = "run"
      /\ \A v \in Threads : child[v] = u => v = t
  BY <1>1, <1>2 DEF QueueInv, NewbornProtected
<1> HIDE DEF u
<1>4. /\ status \in [Thread -> Status] /\ pc \in [Thread -> Labels]
      /\ ready_list \in Seq(Threads)
      /\ \A v \in Threads : v \in Thread
      /\ status[t] = "RUNNING" /\ u # t
  BY <1>3 DEF TypeOK, Thread, QueueInv, ElemExclusive
<1>5. /\ \A v \in Thread : status'[v] = IF v = u THEN "READY" ELSE status[v]
      /\ \A v \in Threads : v # t => pc'[v] = pc[v]
      /\ pc'[t] = "create_cmp"
  BY <1>1, <1>2, <1>4
<1>6. u \notin Range(ready_list) /\ NoDup(ready_list)
  BY <1>2, <1>3 DEF QueueInv, ElemExclusive
<1>7. NoDup(ready_list') /\ Range(ready_list') = Range(ready_list) \cup {u}
  BY <1>1, <1>2, <1>4, <1>6, InsertOrderedFacts
<1>8. ElemExclusive'
  <2>1. \A v \in Thread : status'[v] = "RUNNING" <=> cur' = v
    BY <1>1, <1>3, <1>5 DEF QueueInv, ElemExclusive
  <2>2. \A v \in Threads : v \in Range(ready_list') <=> status'[v] = "READY"
    BY <1>4, <1>5, <1>7 DEF QueueInv, ElemExclusive
  <2>3. ASSUME NEW s \in Sema
        PROVE  /\ NoDup(waiters'[s])
               /\ \A v \in Threads : v \in Range(waiters'[s]) <=>
                    status'[v] = "BLOCKED" /\ pc'[v] = "down_wait" /\ op'[v] = s
    BY <1>1, <1>3, <1>4, <1>5 DEF QueueInv, ElemExclusive
  <2> QED BY <1>7, <2>1, <2>2, <2>3 DEF ElemExclusive
<1>9. DeadAtRest'
  BY <1>4, <1>5 DEF QueueInv, DeadAtRest
<1>10. NewbornProtected'
  <2> SUFFICES ASSUME NEW v \in Threads, child[v] # None
               PROVE  /\ ~Dead(status'[child[v]])
                      /\ pc'[v] # "create_cmp" =>
                           status'[child[v]] = "BLOCKED" /\ pc'[child[v]] = "run"
                      /\ \A x \in Threads : child[x] = child[v] => x = v
    BY <1>1 DEF NewbornProtected, Dead
  <2>1. child[v] \in Threads
    BY DEF TypeOK
  <2>2. /\ ~Dead(status[child[v]])
        /\ pc[v] # "create_cmp" => status[child[v]] = "BLOCKED" /\ pc[child[v]] = "run"
        /\ \A x \in Threads : child[x] = child[v] => x = v
    BY DEF QueueInv, NewbornProtected, Dead
  <2>3. ~Dead(status'[child[v]])
    BY <1>4, <1>5, <2>1, <2>2 DEF Dead
  <2>4. ASSUME pc'[v] # "create_cmp"
        PROVE  status'[child[v]] = "BLOCKED" /\ pc'[child[v]] = "run"
    <3>1. v # t /\ pc[v] # "create_cmp"
      BY <1>5, <2>4
    <3>2. child[v] # u /\ child[v] # t
      BY <1>3, <1>4, <2>2, <3>1
    <3> QED BY <1>4, <1>5, <2>1, <2>2, <3>1, <3>2
  <2> QED BY <2>2, <2>3, <2>4
<1> QED BY <1>8, <1>9, <1>10 DEF QueueInv

\* thread_exit: a thread whose page thread_create no longer reads.
LEMMA ExitQueueStep ==
  ASSUME TypeOK, CallsConsistent, QueueInv, NEW t \in Threads, cur = t,
         ThreadExit(t)
  PROVE  QueueInv'
<1>1. /\ pc[t] = "run"
      /\ \A u \in Threads : child[u] # t
      /\ do_schedule("DYING", status, ready_list)
      /\ UNCHANGED <<waiters, op, child, pc>>
  BY DEF ThreadExit, process_exit, semaVars, callVars
<1>2. /\ CpuQueue(cur, status, ready_list) /\ CpuType
      /\ status \in [Thread -> Status]
      /\ \A u \in Threads : u \in Thread
      /\ status[t] = "RUNNING"
  BY DEF QueueInv, ElemExclusive, CpuQueue, TypeOK, CpuType, Thread
<1> DEFINE st == [reap(status) EXCEPT ![cur] = "DYING"]
<1>3. /\ st \in [Thread -> Status]
      /\ st[cur] = "DYING"
      /\ \A u \in Thread : u # cur =>
           st[u] = status[u] \/ (status[u] = "DYING" /\ st[u] = "NONE")
  <2>1. reap(status) \in [Thread -> Status] /\ cur \in Thread
    BY <1>2, ReapType
  <2>2. \A u \in Thread : \/ reap(status)[u] = status[u]
                          \/ status[u] = "DYING" /\ reap(status)[u] = "NONE"
    BY <1>2 DEF reap
  <2>3. \A u \in Thread : st[u] = IF u = cur THEN "DYING" ELSE reap(status)[u]
    BY <2>1
  <2>4. st \in [Thread -> Status]
    BY <2>1 DEF Status
  <2> HIDE DEF st
  <2> QED BY <2>1, <2>2, <2>3, <2>4
<1>4. schedule(st, ready_list)
  BY <1>1 DEF do_schedule
<1> HIDE DEF st
<1>5. /\ CpuQueue(cur', status', ready_list')
      /\ status'[t] = "DYING"
      /\ \A u \in Threads : u # t =>
           /\ status'[u] = "BLOCKED" <=> status[u] = "BLOCKED"
           /\ Dead(status'[u]) <=> Dead(status[u])
  BY <1>2, <1>3, <1>4, LeaveQueue
<1>6. \A u \in Threads : status'[u] = "BLOCKED" <=> status[u] = "BLOCKED"
  BY <1>2, <1>5
<1>7. ElemExclusive'
  <2>1. ASSUME NEW s \in Sema
        PROVE  /\ NoDup(waiters'[s])
               /\ \A u \in Threads : u \in Range(waiters'[s]) <=>
                    status'[u] = "BLOCKED" /\ pc'[u] = "down_wait" /\ op'[u] = s
    BY <1>1, <1>6 DEF QueueInv, ElemExclusive
  <2> QED BY <1>5, <2>1 DEF ElemExclusive, CpuQueue
<1>8. DeadAtRest'
  <2> SUFFICES ASSUME NEW u \in Threads, Dead(status'[u]) PROVE pc'[u] = "run"
    BY DEF DeadAtRest, Dead
  <2>1. CASE u = t
    BY <1>1, <2>1
  <2>2. CASE u # t
    BY <1>1, <1>5, <2>2 DEF QueueInv, DeadAtRest, Dead
  <2> QED BY <2>1, <2>2
<1>9. NewbornProtected'
  <2> SUFFICES ASSUME NEW u \in Threads, child[u] # None
               PROVE  /\ ~Dead(status'[child[u]])
                      /\ pc[u] # "create_cmp" =>
                           status'[child[u]] = "BLOCKED" /\ pc[child[u]] = "run"
                      /\ \A v \in Threads : child[v] = child[u] => v = u
    BY <1>1 DEF NewbornProtected, Dead
  <2>1. child[u] \in Threads /\ child[u] # t
    BY <1>1 DEF TypeOK
  <2>2. /\ ~Dead(status[child[u]])
        /\ pc[u] # "create_cmp" => status[child[u]] = "BLOCKED" /\ pc[child[u]] = "run"
        /\ \A v \in Threads : child[v] = child[u] => v = u
    BY DEF QueueInv, NewbornProtected, Dead
  <2> QED BY <1>5, <1>6, <2>1, <2>2
<1> QED BY <1>7, <1>8, <1>9 DEF QueueInv

\* Interrupts wake threads; the idle thread blocks outside every queue.
LEMMA InterruptQueueStep ==
  ASSUME TypeOK, CallsConsistent, QueueInv, IdleBlock \/ Interrupt
  PROVE  QueueInv'
<1>0. /\ CpuQueue(cur, status, ready_list)
      /\ CpuType
      /\ status \in [Thread -> Status]
      /\ ready_list \in Seq(Threads)
      /\ \A u \in Threads : u \in Thread /\ u # Idle
      /\ Idle \in Thread
      /\ pc \in [Thread -> Labels]
      /\ ElemExclusive
  BY ThreadsAssumption DEF QueueInv, ElemExclusive, CpuQueue, TypeOK, CpuType, Thread
<1>1. ASSUME waiters' = waiters, Gentle(status) PROVE OnlyWakes
  BY <1>0, <1>1, GentleOnlyWakes DEF ElemExclusive
<1>2. ASSUME WakeHlt PROVE \A u \in Threads : pc'[u] = pc[u]
  BY <1>0, <1>2 DEF WakeHlt
<1>3. CASE IdleBlock
  <2> DEFINE st == [status EXCEPT ![cur] = "BLOCKED"]
  <2>1. /\ cur = Idle /\ schedule(st, ready_list)
        /\ pc' = [pc EXCEPT ![Idle] = "hlt"]
        /\ UNCHANGED <<waiters, op, child>>
    BY <1>3 DEF IdleBlock, thread_block, semaVars, callVars
  <2>2. /\ st \in [Thread -> Status]
        /\ \A u \in Threads : st[u] = status[u]
        /\ st[Idle] = "BLOCKED"
        /\ \A u \in Thread : u # Idle => st[u] = status[u]
    BY <1>0, <2>1 DEF Status
  <2> HIDE DEF st
  <2>3. /\ \A u \in Thread : st[u] # "RUNNING"
        /\ \A u \in Threads : u \in Range(ready_list) <=> st[u] = "READY"
        /\ NoDup(ready_list)
    BY <1>0, <2>1, <2>2 DEF CpuQueue
  <2>4. /\ CpuQueue(cur', status', ready_list')
        /\ \A u \in Threads : u # cur' => status'[u] = st[u]
        /\ cur' \in Threads => st[cur'] = "READY"
    BY <1>0, <2>1, <2>2, <2>3, ScheduleQueue
  <2>5. \A u \in Threads : u = cur' => status'[u] = "RUNNING"
    BY <1>0, <2>4 DEF CpuQueue
  <2>6. Gentle(status)
    BY <2>2, <2>4, <2>5 DEF Gentle, Dead
  <2>7. OnlyWakes
    BY <1>1, <2>1, <2>6
  <2>8. \A u \in Threads : pc'[u] = pc[u]
    BY <1>0, <2>1
  <2> QED BY <2>1, <2>4, <2>7, <2>8, QueueFrame
<1>4. CASE TimerTick
  <2>1. /\ thread_yield(status, ready_list) \/ UNCHANGED <<cur, status, ready_list>>
        /\ WakeHlt
        /\ UNCHANGED <<waiters, op, child>>
    BY <1>4 DEF TimerTick, semaVars, callVars
  <2>2. CpuQueue(cur', status', ready_list') /\ Gentle(status)
    <3>1. CASE thread_yield(status, ready_list)
      BY <1>0, <3>1, YieldQueue
    <3>2. CASE UNCHANGED <<cur, status, ready_list>>
      BY <1>0, <3>2 DEF CpuQueue, Gentle
    <3> QED BY <2>1, <3>1, <3>2
  <2>3. OnlyWakes
    BY <1>1, <2>1, <2>2
  <2>4. \A u \in Threads : pc'[u] = pc[u]
    BY <1>2, <2>1
  <2> QED BY <2>1, <2>2, <2>3, <2>4, QueueFrame
<1>5. ASSUME NEW s \in IntrSemas, IntrSemaUp(s) PROVE QueueInv'
  <2>1. sema_up(s) /\ WakeHlt /\ UNCHANGED <<op, child>> /\ s \in Sema
    BY <1>5, SyncAssumption DEF IntrSemaUp, callVars, Sema
  <2>2. CpuQueue(cur', status', ready_list') /\ OnlyWakes
    BY <1>0, <2>1, SemaUpQueue
  <2>3. \A u \in Threads : pc'[u] = pc[u]
    BY <1>2, <2>1
  <2> QED BY <2>1, <2>2, <2>3, QueueFrame
<1> QED BY <1>3, <1>4, <1>5 DEF Interrupt

\* After thread_start every queue is empty.
LEMMA QueueInit == Init => QueueInv
<1> SUFFICES ASSUME Init PROVE QueueInv
  OBVIOUS
<1>1. ElemExclusive
  BY ThreadsAssumption DEF Init, ElemExclusive, NoDup, Range, Thread
<1>2. DeadAtRest
  BY ThreadsAssumption DEF Init, DeadAtRest, Thread
<1>3. NewbornProtected
  BY DEF Init, NewbornProtected
<1> QED BY <1>1, <1>2, <1>3 DEF QueueInv

\* Every step keeps the queues consistent.
LEMMA QueueStep ==
  ASSUME TypeOK, CallsConsistent, QueueInv, [Next]_vars
  PROVE  QueueInv'
<1>1. CASE UNCHANGED vars
  BY <1>1 DEF vars, QueueInv, ElemExclusive, DeadAtRest, NewbornProtected
<1>2. CASE IdleBlock \/ Interrupt
  BY <1>2, InterruptQueueStep
<1>3. ASSUME NEW t \in Threads, cur = t, Call(t) PROVE QueueInv'
  <2>1. ASSUME NEW s \in Semas, SemaDown(t, s) PROVE QueueInv'
    <3>1. sema_down(t, s, "run") /\ child' = child /\ pc[t] = "run" /\ s \in Sema
      BY <2>1 DEF SemaDown, Sema
    <3> QED BY <1>3, <3>1, SemaDownQueue
  <2>2. ASSUME NEW u \in Threads, NEW p \in NewPrio, ThreadCreate(t, u, p) PROVE QueueInv'
    BY <1>3, <2>2, CreateQueueStep
  <2>3. ASSUME ThreadExit(t) PROVE QueueInv'
    BY <1>3, <2>3, ExitQueueStep
  <2>4. ASSUME \/ ThreadYield(t)
               \/ \E s \in Semas : SemaUp(t, s)
        PROVE  QueueInv'
    BY <1>3, <2>4, WakingQueueStep
  <2>5. ASSUME \/ \E s \in Semas : SemaTryDown(t, s)
               \/ \E l \in Locks : LockAcquire(t, l) \/ LockTryAcquire(t, l) \/ LockRelease(t, l)
               \/ \E p \in SetPrio : SetPriority(t, p)
        PROVE  QueueInv'
    BY <1>3, <2>5, QuietQueueStep
  <2> QED BY <1>3, <2>1, <2>2, <2>3, <2>4, <2>5 DEF Call
<1>4. ASSUME NEW t \in Threads, cur = t, Continue(t) PROVE QueueInv'
  <2>1. ASSUME SemaRecheck(t) PROVE QueueInv'
    <3>1. /\ sema_down(t, op[t], IF op[t] \in Locks THEN "acq_set" ELSE "run")
          /\ child' = child /\ pc[t] = "down_wait" /\ op[t] \in Sema
      BY <2>1 DEF SemaRecheck, CallsConsistent
    <3> QED BY <1>4, <3>1, SemaDownQueue
  <2>2. ASSUME AcqDown(t) PROVE QueueInv'
    <3>1. /\ sema_down(t, op[t], "acq_set")
          /\ child' = child /\ pc[t] = "acq_down" /\ op[t] \in Sema
      BY <2>2 DEF AcqDown, CallsConsistent, LockPcs, Sema
    <3> QED BY <1>4, <3>1, SemaDownQueue
  <2>3. ASSUME CreateReady(t) PROVE QueueInv'
    BY <1>4, <2>3, ReadyQueueStep
  <2>4. ASSUME RelUp(t) \/ Compare(t) \/ CreateCompare(t) \/ AcqSort(t) PROVE QueueInv'
    BY <1>4, <2>4, WakingQueueStep
  <2>5. ASSUME \/ AcqRead(t) \/ AcqDonate(t) \/ AcqRaise(t) \/ AcqSet(t) \/ TrySet(t)
               \/ recalc_priority(t) \/ RelNull(t) \/ CreateRel(t) \/ PrioStep(t)
        PROVE  QueueInv'
    BY <1>4, <2>5, QuietQueueStep
  <2> QED BY <1>4, <2>1, <2>2, <2>3, <2>4, <2>5 DEF Continue, PrioStep
<1> QED BY <1>1, <1>2, <1>3, <1>4 DEF Next

\* The comment on `elem' in thread.h, for any number of threads, locks and
\* semaphores: a thread is on at most one queue, at most once, and on the
\* queue that its status and its program counter say.
THEOREM QueuesCorrect == Spec => []ElemExclusive
<1>1. Init => TypeOK /\ CallsConsistent /\ QueueInv
  BY TypedInit, QueueInit
<1>2. TypeOK /\ CallsConsistent /\ QueueInv /\ [Next]_vars
        => TypeOK' /\ CallsConsistent' /\ QueueInv'
  BY TypedStep, QueueStep
<1>3. QueueInv => ElemExclusive
  BY DEF QueueInv
<1> QED BY <1>1, <1>2, <1>3, PTL DEF Spec

-----------------------------------------------------------------------------
(* Wakeups.                                                                *)

\* A list is empty exactly when nothing is on it.
LEMMA EmptyRange ==
  ASSUME NEW S, NEW q \in Seq(S)
  PROVE  q = <<>> <=> Range(q) = {}
<1>1. CASE q = <<>>
  BY <1>1 DEF Range
<1>2. CASE q # <<>>
  <2>1. Range(q) = Range(Tail(q)) \cup {Head(q)}
    BY <1>2, PopFrontFacts
  <2> QED BY <1>2, <2>1
<1> QED BY <1>1, <1>2

\* Counting threads.
LEMMA CountThreads ==
  ASSUME NEW A \in SUBSET Threads, NEW B \in SUBSET Threads
  PROVE  /\ Cardinality(A) \in Nat /\ Cardinality(B) \in Nat
         /\ A \subseteq B => Cardinality(A) <= Cardinality(B)
         /\ \A t : A \ {t} \subseteq B => Cardinality(A) - 1 <= Cardinality(B)
         /\ \A t \in B : A \subseteq B /\ t \notin A => Cardinality(A) + 1 <= Cardinality(B)
<1>1. IsFiniteSet(A) /\ IsFiniteSet(B)
  BY FS_Subset, ThreadsAssumption
<1>2. Cardinality(A) \in Nat /\ Cardinality(B) \in Nat
  BY <1>1, FS_CardinalityType
<1>3. A \subseteq B => Cardinality(A) <= Cardinality(B)
  BY <1>1, FS_Subset
<1>4. ASSUME NEW t, A \ {t} \subseteq B PROVE Cardinality(A) - 1 <= Cardinality(B)
  <2>1. Cardinality(A \ {t}) <= Cardinality(B) /\ IsFiniteSet(A \ {t})
    BY <1>1, <1>4, FS_Subset
  <2>2. CASE t \in A
    <3>1. Cardinality(A \ {t}) = Cardinality(A) - 1
      BY <1>1, <2>2, FS_RemoveElement
    <3> QED BY <2>1, <3>1
  <2>3. CASE t \notin A
    <3>1. A \ {t} = A
      BY <2>3
    <3> QED BY <1>2, <2>1, <3>1
  <2> QED BY <2>2, <2>3
<1>5. ASSUME NEW t \in B, A \subseteq B, t \notin A PROVE Cardinality(A) + 1 <= Cardinality(B)
  <2>1. Cardinality(A \cup {t}) = Cardinality(A) + 1
    BY <1>1, <1>5, FS_AddElement
  <2>2. A \cup {t} \subseteq B
    BY <1>5
  <2>3. Cardinality(A \cup {t}) <= Cardinality(B)
    BY <1>1, <2>2, FS_Subset
  <2> QED BY <2>1, <2>3
<1> QED BY <1>2, <1>3, <1>4, <1>5

\* With consistent queues the woken threads are those inside sema_down that
\* are not in the queue: the status can be left out of the argument.
WokenOff(s) ==
  Woken(s) = {t \in Threads : pc[t] = "down_wait" /\ op[t] = s /\ t \notin Range(waiters[s])}

LEMMA WokenQueue ==
  /\ ElemExclusive => \A s \in Sema : WokenOff(s)
  /\ ElemExclusive' => \A s \in Sema : WokenOff(s)'
  BY DEF ElemExclusive, Woken, WokenOff

\* A step that lets no thread out of sema_down, and neither raises a value nor
\* changes who is queued.
LEMMA WakeFrame ==
  ASSUME TypeOK, TypeOK', ElemExclusive, ElemExclusive', NoLostWakeup,
         \A u \in Threads : pc[u] = "down_wait" => pc'[u] = "down_wait" /\ op'[u] = op[u],
         \A s \in Sema : value'[s] <= value[s] /\ Range(waiters'[s]) = Range(waiters[s])
  PROVE  NoLostWakeup'
<1> SUFFICES ASSUME NEW s \in Sema, waiters'[s] # <<>>
             PROVE  value'[s] <= Cardinality(Woken(s)')
  BY DEF NoLostWakeup
<1>1. /\ waiters[s] \in Seq(Threads) /\ waiters'[s] \in Seq(Threads)
      /\ value[s] \in Nat /\ value'[s] \in Nat
  BY DEF TypeOK
<1>2. waiters[s] # <<>>
  BY <1>1, EmptyRange
<1>3. value[s] <= Cardinality(Woken(s))
  BY <1>2 DEF NoLostWakeup
<1>4. Woken(s) \subseteq Woken(s)' /\ Woken(s) \in SUBSET Threads /\ Woken(s)' \in SUBSET Threads
  BY WokenQueue DEF WokenOff
<1>5. /\ Cardinality(Woken(s)) \in Nat /\ Cardinality(Woken(s)') \in Nat
      /\ Cardinality(Woken(s)) <= Cardinality(Woken(s)')
  BY <1>4, CountThreads
<1> QED BY <1>1, <1>3, <1>5

\* sema_up adds one to the value and, if anybody waits, one to the woken.
LEMMA WakeUp ==
  ASSUME TypeOK, TypeOK', ElemExclusive, ElemExclusive', NoLostWakeup,
         NEW s \in Sema, sema_up(s),
         \A u \in Threads : pc[u] = "down_wait" => pc'[u] = "down_wait" /\ op'[u] = op[u]
  PROVE  NoLostWakeup'
<1>0. waiters[s] \in Seq(Threads) /\ value \in [Sema -> Nat] /\ waiters \in [Sema -> Seq(Threads)]
  BY DEF TypeOK
<1>1. \A u \in Sema : value'[u] = IF u = s THEN value[s] + 1 ELSE value[u]
  BY <1>0 DEF sema_up
<1>2. ASSUME NEW u \in Sema, waiters'[u] = waiters[u], waiters'[u] # <<>>, u # s
      PROVE  value'[u] <= Cardinality(Woken(u)')
  <2>1. value[u] <= Cardinality(Woken(u)) /\ value[u] \in Nat /\ value'[u] = value[u]
    BY <1>0, <1>1, <1>2 DEF NoLostWakeup
  <2>2. Woken(u) \subseteq Woken(u)' /\ Woken(u) \in SUBSET Threads /\ Woken(u)' \in SUBSET Threads
    BY <1>2, WokenQueue DEF WokenOff
  <2>3. /\ Cardinality(Woken(u)) \in Nat /\ Cardinality(Woken(u)') \in Nat
        /\ Cardinality(Woken(u)) <= Cardinality(Woken(u)')
    BY <2>2, CountThreads
  <2> QED BY <2>1, <2>3
<1>3. CASE waiters[s] = <<>>
  <2>1. waiters' = waiters
    BY <1>3 DEF sema_up
  <2> QED BY <1>2, <1>3, <2>1 DEF NoLostWakeup
<1>4. CASE waiters[s] # <<>>
  <2>1. PICK w \in ListSort(waiters[s], priority) : waiters' = [waiters EXCEPT ![s] = Tail(w)]
    BY <1>4 DEF sema_up
  <2>2. /\ w \in Seq(Threads) /\ Len(w) = Len(waiters[s])
        /\ Range(w) = Range(waiters[s]) /\ NoDup(w)
    BY <1>0, <2>1, PriorityIsKey, ListSortFacts DEF ElemExclusive
  <2>3. w # <<>>
    BY <1>0, <1>4, <2>2
  <2>4. /\ Head(w) \in Threads /\ Head(w) \notin Range(Tail(w))
        /\ Range(waiters[s]) = Range(Tail(w)) \cup {Head(w)}
    BY <2>2, <2>3, PopFrontFacts
  <2>5. \A u \in Sema : waiters'[u] = IF u = s THEN Tail(w) ELSE waiters[u]
    BY <1>0, <2>1
  <2>6. pc[Head(w)] = "down_wait" /\ op[Head(w)] = s
    BY <2>4 DEF ElemExclusive
  <2>7. /\ Woken(s) \subseteq Woken(s)' /\ Head(w) \in Woken(s)' /\ Head(w) \notin Woken(s)
        /\ Woken(s) \in SUBSET Threads /\ Woken(s)' \in SUBSET Threads
    BY <2>4, <2>5, <2>6, WokenQueue DEF WokenOff
  <2>8. /\ Cardinality(Woken(s)) \in Nat /\ Cardinality(Woken(s)') \in Nat
        /\ Cardinality(Woken(s)) + 1 <= Cardinality(Woken(s)')
    BY <2>7, CountThreads
  <2>9. value[s] <= Cardinality(Woken(s)) /\ value[s] \in Nat
    BY <1>0, <1>4 DEF NoLostWakeup
  <2>10. value'[s] <= Cardinality(Woken(s)')
    BY <1>1, <2>8, <2>9
  <2> QED BY <1>2, <2>5, <2>10 DEF NoLostWakeup
<1> QED BY <1>3, <1>4

\* sema_down takes a unit, for itself or in the place of a woken thread, or
\* queues the running thread behind a value of 0.
LEMMA WakeDown ==
  ASSUME TypeOK, TypeOK', ElemExclusive, ElemExclusive', NoLostWakeup,
         NEW t \in Threads, cur = t, NEW s \in Sema, NEW done, sema_down(t, s, done),
         pc[t] = "down_wait" => op[t] = s
  PROVE  NoLostWakeup'
<1>0. /\ waiters \in [Sema -> Seq(Threads)] /\ value \in [Sema -> Nat]
      /\ pc \in [Thread -> Labels] /\ op \in [Threads -> Sema \cup {None}]
      /\ \A u \in Threads : u \in Thread
  BY DEF TypeOK, Thread
<1>1. \A u \in Threads : u # t => pc'[u] = pc[u] /\ op'[u] = op[u]
  BY <1>0 DEF sema_down
<1>2. ASSUME NEW u \in Sema, u # s, waiters'[u] # <<>>
      PROVE  value'[u] <= Cardinality(Woken(u)')
  <2>1. waiters'[u] = waiters[u] /\ value'[u] = value[u]
    BY <1>0, <1>2 DEF sema_down
  <2>2. value[u] <= Cardinality(Woken(u)) /\ value[u] \in Nat
    BY <1>0, <1>2, <2>1 DEF NoLostWakeup
  <2>3. Woken(u) \subseteq Woken(u)' /\ Woken(u) \in SUBSET Threads /\ Woken(u)' \in SUBSET Threads
    BY <1>1, <1>2, <2>1, WokenQueue DEF WokenOff
  <2>4. /\ Cardinality(Woken(u)) \in Nat /\ Cardinality(Woken(u)') \in Nat
        /\ Cardinality(Woken(u)) <= Cardinality(Woken(u)')
    BY <2>3, CountThreads
  <2> QED BY <2>1, <2>2, <2>4
<1>3. ASSUME waiters'[s] # <<>> PROVE value'[s] <= Cardinality(Woken(s)')
  <2>1. Woken(s) \in SUBSET Threads /\ Woken(s)' \in SUBSET Threads
    BY DEF Woken
  <2>2. Cardinality(Woken(s)) \in Nat /\ Cardinality(Woken(s)') \in Nat
    BY <2>1, CountThreads
  <2>3. CASE value[s] = 0
    <3>1. value'[s] = 0
      BY <1>0, <2>3 DEF sema_down
    <3> QED BY <2>2, <3>1
  <2>4. CASE value[s] > 0
    <3>1. waiters' = waiters /\ value'[s] = value[s] - 1
      BY <1>0, <2>4 DEF sema_down
    <3>2. value[s] <= Cardinality(Woken(s)) /\ value[s] \in Nat
      BY <1>0, <1>3, <3>1 DEF NoLostWakeup
    <3>3. Woken(s) \ {t} \subseteq Woken(s)'
      BY <1>1, <3>1, WokenQueue DEF WokenOff
    <3>4. Cardinality(Woken(s)) - 1 <= Cardinality(Woken(s)')
      BY <2>1, <3>3, CountThreads
    <3> QED BY <2>2, <3>1, <3>2, <3>4
  <2> QED BY <1>0, <2>3, <2>4
<1> QED BY <1>2, <1>3 DEF NoLostWakeup

\* The steps outside sema_down and sema_up.
LEMMA WakeQuietStep ==
  ASSUME TypeOK, TypeOK', CallsConsistent, ElemExclusive, ElemExclusive', NoLostWakeup,
         NEW t \in Threads, cur = t,
         \/ \E s \in Semas : SemaTryDown(t, s)
         \/ \E l \in Locks : LockAcquire(t, l) \/ LockTryAcquire(t, l) \/ LockRelease(t, l)
         \/ \E p \in SetPrio : SetPriority(t, p)
         \/ \E u \in Threads, p \in NewPrio : ThreadCreate(t, u, p)
         \/ ThreadYield(t) \/ ThreadExit(t)
         \/ AcqRead(t) \/ AcqDonate(t) \/ AcqRaise(t) \/ AcqSet(t) \/ TrySet(t)
         \/ recalc_priority(t) \/ RelNull(t) \/ Compare(t)
         \/ CreateRel(t) \/ CreateReady(t) \/ CreateCompare(t) \/ PrioStep(t)
  PROVE  NoLostWakeup'
<1>0. /\ pc \in [Thread -> Labels] /\ op \in [Threads -> Sema \cup {None}]
      /\ value \in [Sema -> Nat]
      /\ \A u \in Threads : u \in Thread
  BY DEF TypeOK, Thread
<1>1. waiters' = waiters
  BY PrioStepQuiet, Zenon DEF SemaTryDown, LockAcquire, lock_acquire, LockTryAcquire, LockRelease, lock_release,
     SetPriority, ThreadCreate, ThreadYield, ThreadExit, AcqRead, AcqDonate, AcqRaise, AcqSet,
     TrySet, recalc_priority, RelNull, Compare, CreateRel, CreateReady, CreateCompare, semaVars
<1>2. \A s \in Sema : value'[s] <= value[s]
  <2>1. \/ value' = value
        \/ \E s \in Sema : value' = [value EXCEPT ![s] = @ - 1]
    BY PrioStepQuiet, Zenon DEF SemaTryDown, LockAcquire, lock_acquire, LockTryAcquire, LockRelease, lock_release,
       SetPriority, ThreadCreate, ThreadYield, ThreadExit, AcqRead, AcqDonate, AcqRaise, AcqSet,
       TrySet, recalc_priority, RelNull, Compare, CreateRel, CreateReady, CreateCompare, semaVars,
       Sema
  <2> QED BY <1>0, <2>1
<1>3. \A u \in Threads : u # t => pc'[u] = pc[u] /\ op'[u] = op[u]
  BY <1>0, PrioStepQuiet DEF SemaTryDown, LockAcquire, lock_acquire, LockTryAcquire, LockRelease, lock_release,
     SetPriority, ThreadCreate, ThreadYield, ThreadExit, AcqRead, AcqDonate, AcqRaise, AcqSet,
     TrySet, recalc_priority, RelNull, Compare, CreateRel, CreateReady, CreateCompare, callVars
<1>4. pc[t] # "down_wait"
  BY PrioStepQuiet, Zenon DEF SemaTryDown, LockAcquire, LockTryAcquire, LockRelease, lock_release,
     SetPriority, ThreadCreate, ThreadYield, ThreadExit, AcqRead, AcqDonate, AcqRaise, AcqSet,
     TrySet, recalc_priority, RelNull, Compare, CreateRel, CreateReady, CreateCompare
<1>5. \A u \in Threads : pc[u] = "down_wait" => pc'[u] = "down_wait" /\ op'[u] = op[u]
  BY <1>3, <1>4
<1>6. \A s \in Sema : value'[s] <= value[s] /\ Range(waiters'[s]) = Range(waiters[s])
  BY <1>1, <1>2
<1> QED BY <1>5, <1>6, WakeFrame

\* lock_acquire re-sorts the queue that the holder waits in.
LEMMA WakeSortStep ==
  ASSUME TypeOK, TypeOK', CallsConsistent, ElemExclusive, ElemExclusive', NoLostWakeup,
         NEW t \in Threads, cur = t, AcqSort(t)
  PROVE  NoLostWakeup'
<1>0. /\ pc \in [Thread -> Labels] /\ \A u \in Threads : u \in Thread
      /\ waiters \in [Sema -> Seq(Threads)]
      /\ hldr[t] \in Threads /\ pc[t] = "acq_sort"
  BY DEF TypeOK, Thread, AcqSort, CallsConsistent, DonatePcs
<1>1. PICK next : next = pending_lock[hldr[t]]
  OBVIOUS
<1>2. \/ waiters' = waiters
      \/ /\ next # None
         /\ \E w \in ListSort(waiters[next], priority) : waiters' = [waiters EXCEPT ![next] = w]
  BY <1>1 DEF AcqSort
<1>3. /\ \E lbl \in Labels : pc' = [pc EXCEPT ![t] = lbl]
      /\ op' = op /\ value' = value
  BY DEF AcqSort, callVars, Labels
<1>4. \A u \in Threads : pc[u] = "down_wait" => pc'[u] = "down_wait" /\ op'[u] = op[u]
  BY <1>0, <1>3
<1>5. \A s \in Sema : Range(waiters'[s]) = Range(waiters[s])
  <2>1. next # None => next \in Sema
    BY <1>0, <1>1 DEF TypeOK, Sema
  <2>2. ASSUME next # None, NEW w \in ListSort(waiters[next], priority),
               waiters' = [waiters EXCEPT ![next] = w]
        PROVE  \A s \in Sema : Range(waiters'[s]) = Range(waiters[s])
    <3>1. next \in Sema /\ waiters[next] \in Seq(Threads)
      BY <1>0, <2>1, <2>2
    <3>2. Range(w) = Range(waiters[next])
      BY <2>2, <3>1, PriorityIsKey, ListSortFacts
    <3> QED BY <1>0, <2>2, <3>1, <3>2
  <2> QED BY <1>2, <2>2
<1>6. \A s \in Sema : value'[s] <= value[s]
  BY <1>3 DEF TypeOK
<1> QED BY <1>4, <1>5, <1>6, WakeFrame

\* Every step leaves enough woken threads for the units there are.
LEMMA WakeStep ==
  ASSUME TypeOK, TypeOK', CallsConsistent, ElemExclusive, ElemExclusive', NoLostWakeup,
         [Next]_vars
  PROVE  NoLostWakeup'
<1>0. /\ pc \in [Thread -> Labels] /\ Idle \in Thread /\ op \in [Threads -> Sema \cup {None}]
      /\ \A u \in Threads : u \in Thread /\ u # Idle
      /\ value \in [Sema -> Nat]
  BY ThreadsAssumption DEF TypeOK, Thread
<1>1. CASE UNCHANGED vars
  BY <1>1 DEF vars, NoLostWakeup, Woken
<1>2. CASE IdleBlock \/ TimerTick
  <2>1. UNCHANGED <<value, waiters, op>>
    BY <1>2 DEF IdleBlock, TimerTick, semaVars, callVars
  <2>2. \A u \in Threads : pc'[u] = pc[u]
    BY <1>0, <1>2 DEF IdleBlock, TimerTick, WakeHlt
  <2>3. \A s \in Sema : value'[s] <= value[s] /\ Range(waiters'[s]) = Range(waiters[s])
    BY <1>0, <2>1
  <2> QED BY <2>1, <2>2, <2>3, WakeFrame
<1>3. ASSUME NEW s \in IntrSemas, IntrSemaUp(s) PROVE NoLostWakeup'
  <2>1. sema_up(s) /\ WakeHlt /\ op' = op /\ s \in Sema
    BY <1>3, SyncAssumption DEF IntrSemaUp, callVars, Sema
  <2>2. \A u \in Threads : pc'[u] = pc[u]
    BY <1>0, <2>1 DEF WakeHlt
  <2> QED BY <2>1, <2>2, WakeUp
<1>4. ASSUME NEW t \in Threads, cur = t, NEW s \in Semas, SemaUp(t, s) PROVE NoLostWakeup'
  <2>1. sema_up(s) /\ UNCHANGED <<pc, op>> /\ s \in Sema
    BY <1>4 DEF SemaUp, callVars, Sema
  <2> QED BY <2>1, WakeUp
<1>5. ASSUME NEW t \in Threads, cur = t, RelUp(t) PROVE NoLostWakeup'
  <2>1. /\ sema_up(op[t]) /\ pc[t] = "rel_up"
        /\ op' = [op EXCEPT ![t] = None]
        /\ pc' = [pc EXCEPT ![t] = "cmp"]
    BY <1>5 DEF RelUp
  <2>2. op[t] \in Sema
    BY <2>1 DEF CallsConsistent, LockPcs, Sema
  <2>3. \A u \in Threads : pc[u] = "down_wait" => pc'[u] = "down_wait" /\ op'[u] = op[u]
    BY <1>0, <2>1
  <2> QED BY <2>1, <2>2, <2>3, WakeUp
<1>6. ASSUME NEW t \in Threads, cur = t,
             (\E s \in Semas : SemaDown(t, s)) \/ SemaRecheck(t) \/ AcqDown(t)
      PROVE  NoLostWakeup'
  <2>1. ASSUME NEW s \in Semas, SemaDown(t, s) PROVE NoLostWakeup'
    <3>1. sema_down(t, s, "run") /\ pc[t] = "run" /\ s \in Sema
      BY <2>1 DEF SemaDown, Sema
    <3> QED BY <1>6, <3>1, WakeDown
  <2>2. ASSUME SemaRecheck(t) PROVE NoLostWakeup'
    <3>1. /\ sema_down(t, op[t], IF op[t] \in Locks THEN "acq_set" ELSE "run")
          /\ op[t] \in Sema
      BY <2>2 DEF SemaRecheck, CallsConsistent
    <3> QED BY <1>6, <3>1, WakeDown
  <2>3. ASSUME AcqDown(t) PROVE NoLostWakeup'
    <3>1. sema_down(t, op[t], "acq_set") /\ op[t] \in Sema
      BY <2>3 DEF AcqDown, CallsConsistent, LockPcs, Sema
    <3> QED BY <1>6, <3>1, WakeDown
  <2> QED BY <1>6, <2>1, <2>2, <2>3
<1>7. ASSUME NEW t \in Threads, cur = t, Call(t) PROVE NoLostWakeup'
  BY <1>4, <1>6, <1>7, WakeQuietStep DEF Call
<1>8. ASSUME NEW t \in Threads, cur = t, Continue(t) PROVE NoLostWakeup'
  BY <1>5, <1>6, <1>8, WakeQuietStep, WakeSortStep DEF Continue, PrioStep
<1> QED BY <1>1, <1>2, <1>3, <1>7, <1>8 DEF Next, Interrupt

\* No wakeup is lost, for any number of threads, semaphores and locks: while
\* threads sleep in the queue of a semaphore, at least as many threads have
\* been woken and not yet tested the value again as there are units to take.
THEOREM WakeupsKept == Spec => []NoLostWakeup
<1> DEFINE I == TypeOK /\ CallsConsistent /\ QueueInv /\ NoLostWakeup
<1>1. Init => I
  <2>1. Init => NoLostWakeup
    BY DEF Init, NoLostWakeup
  <2> QED BY <2>1, TypedInit, QueueInit
<1>2. I /\ [Next]_vars => I'
  <2> SUFFICES ASSUME I, [Next]_vars PROVE I'
    OBVIOUS
  <2>1. TypeOK' /\ CallsConsistent' /\ QueueInv'
    BY TypedStep, QueueStep
  <2>2. ElemExclusive /\ ElemExclusive'
    BY <2>1 DEF QueueInv
  <2> QED BY <2>1, <2>2, WakeStep
<1> QED BY <1>1, <1>2, PTL DEF Spec

-----------------------------------------------------------------------------
(* Locks.                                                                  *)

\* LockExclusive is inductive together with what a thread inside lock_release
\* or at the end of lock_acquire knows of the holder field.
LockInv == LockExclusive /\ ReleaseConsistent

\* The labels at which a thread owns a lock without being its holder.
OwnerPcs == {"acq_set", "try_set", "rel_up"}

\* A step of t that touches neither a lock's semaphore nor a holder field, and
\* does not move t into or out of the labels of OwnerPcs.
LEMMA LockFrame ==
  ASSUME LockInv, NEW t \in Threads, holder' = holder,
         \A l \in Locks : value'[l] = value[l],
         \A u \in Threads : u # t => pc'[u] = pc[u] /\ op'[u] = op[u],
         \/ pc'[t] = pc[t] /\ op'[t] = op[t]
         \/ /\ pc[t] \notin OwnerPcs
            /\ pc'[t] \notin OwnerPcs
            /\ pc'[t] \in ReleasePcs => holder[op'[t]] = t
  PROVE  LockInv'
<1>1. \A u \in Threads, l \in Locks :
        (op'[u] = l /\ pc'[u] \in OwnerPcs) <=> (op[u] = l /\ pc[u] \in OwnerPcs)
  OBVIOUS
<1>2. \A u \in Threads, l \in Locks : Owns(u, l)' <=> Owns(u, l)
  BY <1>1 DEF Owns, OwnerPcs
<1>3. LockExclusive'
  BY <1>2 DEF LockInv, LockExclusive
<1>4. ReleaseConsistent'
  BY DEF LockInv, ReleaseConsistent, OwnerPcs
<1> QED BY <1>3, <1>4 DEF LockInv

\* A sema_down of a lock that succeeds makes t the owner ...
LEMMA LockTaken ==
  ASSUME TypeOK, LockInv, NEW t \in Threads, NEW l \in Locks,
         value[l] > 0, value' = [value EXCEPT ![l] = @ - 1],
         holder' = holder,
         \A u \in Threads : u # t => pc'[u] = pc[u] /\ op'[u] = op[u],
         op'[t] = l, pc'[t] \in {"acq_set", "try_set"},
         pc[t] \notin OwnerPcs
  PROVE  LockInv'
<1>1. value[l] = 1 /\ \A u \in Threads : ~Owns(u, l)
  BY DEF LockInv, LockExclusive
<1>2. l \in Sema /\ value \in [Sema -> Nat]
  BY DEF TypeOK, Sema
<1>3. value'[l] = 0 /\ \A k \in Locks : k # l => value'[k] = value[k]
  BY <1>1, <1>2 DEF Sema
<1>4. \A u \in Threads, k \in Locks : k # l => (Owns(u, k)' <=> Owns(u, k))
  BY DEF Owns, OwnerPcs
<1>5. Owns(t, l)' /\ \A u \in Threads : u # t => ~Owns(u, l)'
  BY <1>1 DEF Owns, OwnerPcs
<1>6. LockExclusive'
  <2> SUFFICES ASSUME NEW k \in Locks
               PROVE  /\ value'[k] \in {0, 1}
                      /\ value'[k] = 0 <=> \E u \in Threads : Owns(u, k)'
                      /\ \A u, v \in Threads : Owns(u, k)' /\ Owns(v, k)' => u = v
    BY DEF LockExclusive
  <2>1. CASE k = l
    BY <1>3, <1>5, <2>1
  <2>2. CASE k # l
    BY <1>3, <1>4, <2>2 DEF LockInv, LockExclusive
  <2> QED BY <2>1, <2>2
<1>7. ReleaseConsistent'
  BY <1>1 DEF ReleasePcs, LockInv, ReleaseConsistent, Owns
<1> QED BY <1>6, <1>7 DEF LockInv

\* ... a sema_up of it ends the ownership ...
LEMMA LockGiven ==
  ASSUME TypeOK, LockInv, NEW t \in Threads, NEW l \in Locks,
         pc[t] = "rel_up", op[t] = l, value' = [value EXCEPT ![l] = @ + 1],
         holder' = holder,
         \A u \in Threads : u # t => pc'[u] = pc[u] /\ op'[u] = op[u],
         pc'[t] = "cmp"
  PROVE  LockInv'
<1>1. Owns(t, l) /\ holder[l] # t
  BY DEF Owns, LockInv, ReleaseConsistent
<1>2. value[l] = 0 /\ \A u \in Threads : u # t => ~Owns(u, l)
  BY <1>1 DEF LockInv, LockExclusive
<1>3. l \in Sema /\ value \in [Sema -> Nat]
  BY DEF TypeOK, Sema
<1>4. value'[l] = 1 /\ \A k \in Locks : k # l => value'[k] = value[k]
  BY <1>2, <1>3 DEF Sema
<1>5. \A u \in Threads, k \in Locks : k # l => (Owns(u, k)' <=> Owns(u, k))
  BY DEF Owns
<1>6. \A u \in Threads : ~Owns(u, l)'
  BY <1>1, <1>2 DEF Owns
<1>7. LockExclusive'
  <2> SUFFICES ASSUME NEW k \in Locks
               PROVE  /\ value'[k] \in {0, 1}
                      /\ value'[k] = 0 <=> \E u \in Threads : Owns(u, k)'
                      /\ \A u, v \in Threads : Owns(u, k)' /\ Owns(v, k)' => u = v
    BY DEF LockExclusive
  <2>1. CASE k = l
    BY <1>4, <1>6, <2>1
  <2>2. CASE k # l
    BY <1>4, <1>5, <2>2 DEF LockInv, LockExclusive
  <2> QED BY <2>1, <2>2
<1>8. ReleaseConsistent'
  BY DEF ReleasePcs, LockInv, ReleaseConsistent
<1> QED BY <1>7, <1>8 DEF LockInv

\* ... and writing the holder field does not change who the owner is.
LEMMA LockField ==
  ASSUME TypeOK, CallsConsistent, LockInv, NEW t \in Threads, NEW l \in Locks, op[t] = l,
         value' = value,
         \A u \in Threads : u # t => pc'[u] = pc[u] /\ op'[u] = op[u],
         \/ /\ pc[t] \in {"acq_set", "try_set"}
            /\ holder' = [holder EXCEPT ![l] = t]
            /\ pc'[t] \notin OwnerPcs \cup ReleasePcs
         \/ /\ pc[t] = "rel_null"
            /\ holder' = [holder EXCEPT ![l] = None]
            /\ pc'[t] = "rel_up" /\ op'[t] = l
  PROVE  /\ LockInv'
         /\ \/ holder[l] = None /\ holder'[l] = t
            \/ holder[l] = t /\ holder'[l] = None
<1>1. Owns(t, l)
  BY DEF ReleasePcs, Owns, LockInv, ReleaseConsistent
<1>2. \A u \in Threads : u # t => ~Owns(u, l)
  BY <1>1 DEF LockInv, LockExclusive
<1>3. holder \in [Locks -> Threads \cup {None}] /\ None \notin Threads
  BY ThreadsAssumption DEF TypeOK
<1>4. holder[l] \in {t, None}
  BY <1>2, <1>3 DEF Owns
<1>5. \A k \in Locks : k # l => holder'[k] = holder[k]
  BY <1>3
<1>6. \A u \in Threads, k \in Locks : k # l => (Owns(u, k)' <=> Owns(u, k))
  BY <1>5 DEF Owns, OwnerPcs
<1>7. Owns(t, l)'
  BY <1>3 DEF Owns, OwnerPcs
<1>8. \A u \in Threads : u # t => ~Owns(u, l)'
  BY <1>2, <1>3 DEF Owns
<1>9. LockExclusive'
  <2> SUFFICES ASSUME NEW k \in Locks
               PROVE  /\ value'[k] \in {0, 1}
                      /\ value'[k] = 0 <=> \E u \in Threads : Owns(u, k)'
                      /\ \A u, v \in Threads : Owns(u, k)' /\ Owns(v, k)' => u = v
    BY DEF LockExclusive
  <2>1. CASE k = l
    BY <1>1, <1>7, <1>8, <2>1 DEF LockInv, LockExclusive
  <2>2. CASE k # l
    BY <1>6, <2>2 DEF LockInv, LockExclusive
  <2> QED BY <2>1, <2>2
<1>10. ReleaseConsistent'
  <2> SUFFICES ASSUME NEW u \in Threads
               PROVE  /\ pc'[u] \in ReleasePcs => holder'[op'[u]] = u
                      /\ pc'[u] \in OwnerPcs => holder'[op'[u]] # u
    BY DEF ReleasePcs, ReleaseConsistent, OwnerPcs
  <2>1. CASE u = t
    BY <1>3, <2>1 DEF ReleasePcs, OwnerPcs
  <2>2. CASE u # t
    <3>1. pc'[u] = pc[u] /\ op'[u] = op[u]
      BY <2>2
    <3>2. /\ pc[u] \in ReleasePcs => holder[op[u]] = u
          /\ pc[u] \in OwnerPcs => holder[op[u]] # u
      BY DEF ReleasePcs, LockInv, ReleaseConsistent, OwnerPcs
    <3>3. CASE op[u] = l
      BY <1>2, <1>3, <2>2, <3>1, <3>2, <3>3 DEF Owns, OwnerPcs
    <3>4. CASE op[u] # l
      <4>1. pc[u] \in OwnerPcs \cup ReleasePcs => op[u] \in Locks
        BY DEF CallsConsistent, LockPcs, OwnerPcs
      <4>2. op[u] \in Locks => holder'[op[u]] = holder[op[u]]
        BY <1>5, <3>4
      <4> QED BY <3>1, <3>2, <4>1, <4>2 DEF ReleasePcs
    <3> QED BY <3>3, <3>4
  <2> QED BY <2>1, <2>2
<1>11. \/ holder[l] = None /\ holder'[l] = t
       \/ holder[l] = t /\ holder'[l] = None
  BY <1>3, <1>4 DEF ReleasePcs, LockInv, ReleaseConsistent
<1> QED BY <1>9, <1>10, <1>11 DEF LockInv

\* Steps of the calls that are not about a lock, and of lock calls that do not
\* yet have or no longer need it.
LEMMA LockNeutralStep ==
  ASSUME TypeOK, CallsConsistent, LockInv, NEW t \in Threads,
         \/ \E s \in Semas : SemaTryDown(t, s) \/ SemaUp(t, s)
         \/ \E l \in Locks : LockAcquire(t, l) \/ LockRelease(t, l)
         \/ \E p \in SetPrio : SetPriority(t, p)
         \/ \E u \in Threads, p \in NewPrio : ThreadCreate(t, u, p)
         \/ ThreadYield(t) \/ ThreadExit(t)
         \/ AcqRead(t) \/ AcqDonate(t) \/ AcqRaise(t) \/ AcqSort(t) \/ PrioStep(t)
         \/ recalc_priority(t) \/ Compare(t)
         \/ CreateRel(t) \/ CreateReady(t) \/ CreateCompare(t)
  PROVE  LockInv' /\ holder' = holder
<1> USE DEF callVars, lockVars, semaVars
<1>0. /\ pc \in [Thread -> Labels] /\ op \in [Threads -> Sema \cup {None}]
      /\ value \in [Sema -> Nat]
      /\ t \in Thread
      /\ \A l \in Locks : l \in Sema /\ l \notin Semas
      /\ \A u \in Threads : u \in Thread
      /\ TidLock \in Locks
  BY SyncAssumption DEF TypeOK, Thread, Sema
<1>1. holder' = holder
  BY PrioStepQuiet, Zenon DEF SemaTryDown, SemaUp, LockAcquire, lock_acquire, LockRelease, lock_release,
     SetPriority, ThreadCreate, ThreadYield, ThreadExit, AcqRead, AcqDonate, AcqRaise,
     AcqSort, recalc_priority, Compare, CreateRel, CreateReady, CreateCompare
<1>2. \A l \in Locks : value'[l] = value[l]
  <2>1. CASE \E s \in Semas : SemaTryDown(t, s) \/ SemaUp(t, s)
    <3>1. PICK s \in Semas : \/ value' = [value EXCEPT ![s] = @ - 1]
                             \/ value' = [value EXCEPT ![s] = @ + 1]
      BY <2>1, Zenon DEF SemaTryDown, SemaUp, sema_up
    <3> QED BY <1>0, <3>1
  <2>2. CASE ~\E s \in Semas : SemaTryDown(t, s) \/ SemaUp(t, s)
    <3>1. value' = value
      BY <2>2, PrioStepQuiet, Zenon DEF LockAcquire, lock_acquire, LockRelease, lock_release,
         SetPriority, ThreadCreate, ThreadYield, ThreadExit, AcqRead, AcqDonate, AcqRaise,
         AcqSort, recalc_priority, Compare, CreateRel, CreateReady, CreateCompare
    <3> QED BY <3>1
  <2> QED BY <2>1, <2>2
<1>3. \A u \in Threads : u # t => pc'[u] = pc[u] /\ op'[u] = op[u]
  BY <1>0, PrioStepQuiet DEF SemaTryDown, SemaUp, LockAcquire, lock_acquire, LockRelease, lock_release,
     SetPriority, ThreadCreate, ThreadYield, ThreadExit, AcqRead, AcqDonate, AcqRaise,
     AcqSort, recalc_priority, Compare, CreateRel, CreateReady, CreateCompare
<1>4. pc[t] \notin OwnerPcs
  BY PrioStepQuiet DEF SemaTryDown, SemaUp, LockAcquire, LockRelease, OwnerPcs,
     SetPriority, ThreadCreate, ThreadYield, ThreadExit, AcqRead, AcqDonate, AcqRaise,
     AcqSort, recalc_priority, Compare, CreateRel, CreateReady, CreateCompare
<1>5. CASE \/ \E l \in Locks : LockRelease(t, l)
           \/ CreateRel(t)
  <2>1. PICK l \in Locks : \E r \in Returns : lock_release(t, l, r)
    BY <1>0, <1>5 DEF LockRelease, CreateRel, Returns
  <2>2. holder[l] = t /\ op' = [op EXCEPT ![t] = l] /\ pc' = [pc EXCEPT ![t] = "rel_recalc"]
    BY <2>1 DEF lock_release
  <2>3. pc'[t] = "rel_recalc" /\ op'[t] = l
    BY <1>0, <2>2
  <2> QED BY <1>1, <1>2, <1>3, <1>4, <2>2, <2>3, LockFrame DEF OwnerPcs
<1>6. CASE recalc_priority(t)
  <2>1. pc[t] = "rel_recalc" /\ pc' = [pc EXCEPT ![t] = "rel_front"] /\ op' = op
    BY <1>6 DEF recalc_priority
  <2>2. pc'[t] = "rel_front"
    BY <1>0, <2>1
  <2>3. holder[op[t]] = t
    BY <2>1 DEF LockInv, ReleaseConsistent, ReleasePcs
  <2> QED BY <1>1, <1>2, <1>3, <1>4, <2>1, <2>2, <2>3, LockFrame DEF OwnerPcs
<1>7. CASE \/ \E s \in Semas : SemaTryDown(t, s) \/ SemaUp(t, s)
           \/ ThreadYield(t) \/ ThreadExit(t)
  <2>1. pc' = pc /\ op' = op
    BY <1>7 DEF SemaTryDown, SemaUp, ThreadYield, ThreadExit
  <2> QED BY <1>1, <1>2, <1>3, <2>1, LockFrame
<1>8. CASE \/ \E l \in Locks : LockAcquire(t, l)
           \/ \E p \in SetPrio : SetPriority(t, p)
           \/ \E u \in Threads, p \in NewPrio : ThreadCreate(t, u, p)
           \/ AcqRead(t) \/ AcqDonate(t) \/ AcqRaise(t) \/ AcqSort(t)
           \/ Compare(t) \/ CreateReady(t) \/ CreateCompare(t)
  <2>1. PICK lbl \in {"acq_down", "acq_read", "acq_cmp", "acq_raise", "acq_store", "acq_insert",
                      "acq_next", "panic", "set_read", "run", "create_rel", "create_ready",
                      "create_cmp"} :
          pc' = [pc EXCEPT ![t] = lbl]
    <3>1. CASE Compare(t)
      <4>1. ret[t] \in Returns /\ pc' = [pc EXCEPT ![t] = ret[t]]
        BY <3>1 DEF Compare, TypeOK
      <4> QED BY <4>1 DEF Returns
    <3>2. CASE ~Compare(t)
      BY <1>8, <3>2 DEF LockAcquire, lock_acquire, SetPriority, ThreadCreate, AcqRead, AcqDonate,
         AcqRaise, AcqSort, CreateReady, CreateCompare
    <3> QED BY <3>1, <3>2
  <2>2. pc'[t] = lbl
    BY <1>0, <2>1
  <2>3. pc'[t] \notin OwnerPcs \cup ReleasePcs
    BY <2>2 DEF OwnerPcs, ReleasePcs
  <2> QED BY <1>1, <1>2, <1>3, <1>4, <2>3, LockFrame
<1>9. CASE PrioStep(t)
  <2>1. /\ op' = op /\ pc'[t] \notin OwnerPcs
        /\ pc'[t] \in ReleasePcs => pc[t] \in ReleasePcs
    BY <1>9, PrioStepQuiet DEF OwnerPcs
  <2>2. pc[t] \in ReleasePcs => holder[op[t]] = t
    BY DEF LockInv, ReleaseConsistent
  <2> QED BY <1>1, <1>2, <1>3, <1>4, <2>1, <2>2, LockFrame
<1> QED BY <1>1, <1>5, <1>6, <1>7, <1>8, <1>9

\* One pass of sema_down takes the lock, or changes nothing about any lock.
LEMMA LockDownStep ==
  ASSUME TypeOK, LockInv, NEW t \in Threads, NEW s \in Sema, NEW done,
         pc[t] \notin OwnerPcs, sema_down(t, s, done), holder' = holder,
         done = IF s \in Locks THEN "acq_set" ELSE "run"
  PROVE  LockInv'
<1>0. /\ pc \in [Thread -> Labels] /\ op \in [Threads -> Sema \cup {None}]
      /\ value \in [Sema -> Nat] /\ value[s] \in Nat
      /\ \A l \in Locks : l \in Sema
      /\ \A u \in Threads : u \in Thread
  BY DEF TypeOK, Thread, Sema
<1>1. CASE value[s] = 0
  <2>1. /\ pc' = [pc EXCEPT ![t] = "down_wait"]
        /\ op' = [op EXCEPT ![t] = s]
        /\ value' = value
    BY <1>1 DEF sema_down
  <2>2. pc'[t] = "down_wait" /\ \A u \in Threads : u # t => pc'[u] = pc[u] /\ op'[u] = op[u]
    BY <1>0, <2>1
  <2> QED BY <2>1, <2>2, LockFrame DEF ReleasePcs, OwnerPcs
<1>2. CASE value[s] > 0
  <2>1. /\ value' = [value EXCEPT ![s] = @ - 1]
        /\ pc' = [pc EXCEPT ![t] = done]
        /\ op' = [op EXCEPT ![t] = IF s \in Locks THEN s ELSE None]
    BY <1>0, <1>2 DEF sema_down
  <2>2. /\ pc'[t] = done
        /\ op'[t] = IF s \in Locks THEN s ELSE None
        /\ \A u \in Threads : u # t => pc'[u] = pc[u] /\ op'[u] = op[u]
    BY <1>0, <2>1
  <2>3. CASE s \in Locks
    BY <1>2, <2>1, <2>2, <2>3, LockTaken
  <2>4. CASE s \notin Locks
    <3>1. \A l \in Locks : value'[l] = value[l]
      BY <1>0, <2>1, <2>4
    <3> QED BY <2>2, <2>4, <3>1, LockFrame DEF ReleasePcs, OwnerPcs
  <2> QED BY <2>3, <2>4
<1> QED BY <1>0, <1>1, <1>2

\* What a step may do to the holder fields.
Handover ==
  \A l \in Locks : holder'[l] # holder[l] =>
    \/ holder[l] = None /\ holder'[l] = cur
    \/ holder[l] = cur /\ holder'[l] = None

\* The steps that set or clear the holder field keep the owner of each lock
\* unique.
LEMMA LockOwnerStep ==
  ASSUME TypeOK, CallsConsistent, LockInv, NEW t \in Threads, cur = t,
         \/ AcqSet(t) \/ TrySet(t) \/ RelNull(t)
  PROVE  LockInv' /\ Handover
<1>0. /\ pc \in [Thread -> Labels] /\ op \in [Threads -> Sema \cup {None}]
      /\ holder \in [Locks -> Threads \cup {None}]
      /\ \A u \in Threads : u \in Thread
  BY DEF TypeOK, Thread
<1>1. op[t] \in Locks
  BY DEF AcqSet, TrySet, RelNull, CallsConsistent, LockPcs, DonatePcs, ReleasePcs
<1>2. value' = value
  BY DEF AcqSet, TrySet, RelNull, semaVars
<1>3. \A u \in Threads : u # t => pc'[u] = pc[u] /\ op'[u] = op[u]
  BY <1>0 DEF AcqSet, TrySet, RelNull, callVars
<1>4. \/ /\ pc[t] \in {"acq_set", "try_set"}
         /\ holder' = [holder EXCEPT ![op[t]] = t]
         /\ pc'[t] \notin OwnerPcs \cup ReleasePcs
      \/ /\ pc[t] = "rel_null"
         /\ holder' = [holder EXCEPT ![op[t]] = None]
         /\ pc'[t] = "rel_up" /\ op'[t] = op[t]
  <2>1. CASE AcqSet(t)
    <3>1. /\ pc[t] = "acq_set"
          /\ holder' = [holder EXCEPT ![op[t]] = t]
          /\ pc' = [pc EXCEPT ![t] = ret[t]]
      BY <2>1 DEF AcqSet
    <3>2. pc'[t] = ret[t] /\ ret[t] \in Returns
      BY <1>0, <3>1 DEF TypeOK
    <3> QED BY <3>1, <3>2 DEF ReleasePcs, Returns, OwnerPcs
  <2>2. CASE TrySet(t)
    <3>1. /\ pc[t] = "try_set"
          /\ holder' = [holder EXCEPT ![op[t]] = t]
          /\ pc'[t] = "run"
      BY <1>0, <2>2 DEF TrySet
    <3> QED BY <3>1 DEF ReleasePcs, OwnerPcs
  <2>3. CASE RelNull(t)
    BY <1>0, <2>3 DEF RelNull, callVars
  <2> QED BY <2>1, <2>2, <2>3
<1>5. /\ LockInv'
      /\ \/ holder[op[t]] = None /\ holder'[op[t]] = t
         \/ holder[op[t]] = t /\ holder'[op[t]] = None
  BY <1>1, <1>2, <1>3, <1>4, LockField
<1>6. \A l \in Locks : l # op[t] => holder'[l] = holder[l]
  BY <1>0, <1>1, <1>4
<1>7. Handover
  BY <1>5, <1>6 DEF Handover
<1> QED BY <1>5, <1>7

\* Every step keeps the locks consistent.
LEMMA LockStep ==
  ASSUME TypeOK, CallsConsistent, LockInv, [Next]_vars
  PROVE  LockInv' /\ Handover
<1>0. /\ pc \in [Thread -> Labels] /\ op \in [Threads -> Sema \cup {None}]
      /\ value \in [Sema -> Nat]
      /\ \A u \in Threads : u \in Thread
      /\ Main \in Threads
  BY ThreadsAssumption DEF TypeOK, Thread
<1>1. holder' = holder => Handover
  BY DEF Handover
<1>2. CASE UNCHANGED vars
  BY <1>0, <1>1, <1>2, LockFrame DEF vars
<1>3. CASE IdleBlock \/ Interrupt
  <2>1. holder' = holder /\ op' = op
    BY <1>3 DEF IdleBlock, Interrupt, TimerTick, IntrSemaUp, lockVars, callVars
  <2>2. \A u \in Threads : pc'[u] = pc[u]
    BY <1>0, <1>3, ThreadsAssumption DEF IdleBlock, Interrupt, TimerTick, IntrSemaUp, WakeHlt
  <2>3. \A l \in Locks : value'[l] = value[l]
    <3>1. CASE value' = value
      BY <3>1
    <3>2. ASSUME NEW s \in IntrSemas, IntrSemaUp(s)
          PROVE  \A l \in Locks : value'[l] = value[l]
      <4>1. value' = [value EXCEPT ![s] = @ + 1]
        BY <3>2 DEF IntrSemaUp, sema_up
      <4> QED BY <1>0, <4>1, SyncAssumption DEF Sema
    <3> QED BY <1>3, <3>1, <3>2 DEF IdleBlock, Interrupt, TimerTick, semaVars
  <2> QED BY <1>0, <1>1, <2>1, <2>2, <2>3, LockFrame
<1>4. ASSUME NEW t \in Threads, cur = t, Call(t) \/ Continue(t)
      PROVE  LockInv' /\ Handover
  <2>1. CASE \E s \in Semas : SemaDown(t, s)
    <3>1. PICK s \in Semas : /\ sema_down(t, s, "run")
                             /\ pc[t] = "run" /\ holder' = holder
      BY <2>1 DEF SemaDown, lockVars
    <3>2. s \in Sema /\ s \notin Locks
      BY SyncAssumption DEF Sema
    <3> QED BY <1>1, <3>1, <3>2, LockDownStep DEF OwnerPcs
  <2>2. CASE SemaRecheck(t) \/ AcqDown(t)
    <3>1. /\ op[t] \in Sema /\ holder' = holder /\ pc[t] \notin OwnerPcs
          /\ sema_down(t, op[t], IF op[t] \in Locks THEN "acq_set" ELSE "run")
      <4>1. CASE SemaRecheck(t)
        BY <4>1 DEF SemaRecheck, CallsConsistent, lockVars, OwnerPcs
      <4>2. CASE AcqDown(t)
        <5>1. op[t] \in Locks /\ op[t] \in Sema
          BY <4>2 DEF AcqDown, CallsConsistent, LockPcs, Sema
        <5> QED BY <4>2, <5>1 DEF AcqDown, lockVars, OwnerPcs
      <4> QED BY <2>2, <4>1, <4>2
    <3> QED BY <1>1, <3>1, LockDownStep
  <2>3. CASE \E l \in Locks : LockTryAcquire(t, l)
    <3>1. PICK l \in Locks : LockTryAcquire(t, l)
      BY <2>3
    <3>2. /\ pc[t] = "run" /\ value[l] > 0
          /\ value' = [value EXCEPT ![l] = @ - 1]
          /\ op' = [op EXCEPT ![t] = l]
          /\ pc' = [pc EXCEPT ![t] = "try_set"]
          /\ holder' = holder
      BY <3>1 DEF LockTryAcquire, lockVars
    <3>3. /\ pc'[t] = "try_set" /\ op'[t] = l
          /\ \A u \in Threads : u # t => pc'[u] = pc[u] /\ op'[u] = op[u]
      BY <1>0, <3>2
    <3> QED BY <1>1, <3>2, <3>3, LockTaken DEF OwnerPcs
  <2>4. CASE RelUp(t)
    <3>1. /\ pc[t] = "rel_up"
          /\ value' = [value EXCEPT ![op[t]] = @ + 1]
          /\ op' = [op EXCEPT ![t] = None]
          /\ pc' = [pc EXCEPT ![t] = "cmp"]
          /\ holder' = holder
      BY <2>4 DEF RelUp, sema_up, lockVars
    <3>2. op[t] \in Locks
      BY <3>1 DEF CallsConsistent, LockPcs
    <3>3. /\ pc'[t] = "cmp"
          /\ \A u \in Threads : u # t => pc'[u] = pc[u] /\ op'[u] = op[u]
      BY <1>0, <3>1
    <3> QED BY <1>1, <3>1, <3>2, <3>3, LockGiven
  <2>5. CASE AcqSet(t) \/ TrySet(t) \/ RelNull(t)
    BY <1>4, <2>5, LockOwnerStep
  <2>6. CASE \/ \E s \in Semas : SemaTryDown(t, s) \/ SemaUp(t, s)
             \/ \E l \in Locks : LockAcquire(t, l) \/ LockRelease(t, l)
             \/ \E p \in SetPrio : SetPriority(t, p)
             \/ \E u \in Threads, p \in NewPrio : ThreadCreate(t, u, p)
             \/ ThreadYield(t) \/ ThreadExit(t)
             \/ AcqRead(t) \/ AcqDonate(t) \/ AcqRaise(t) \/ AcqSort(t) \/ PrioStep(t)
             \/ recalc_priority(t) \/ Compare(t)
             \/ CreateRel(t) \/ CreateReady(t) \/ CreateCompare(t)
    BY <1>1, <2>6, LockNeutralStep
  <2> QED BY <1>4, <2>1, <2>2, <2>3, <2>4, <2>5, <2>6 DEF Call, Continue, PrioStep
<1> QED BY <1>2, <1>3, <1>4 DEF Next

\* After thread_start no lock has an owner.
LEMMA LockInit == Init => LockInv
<1> SUFFICES ASSUME Init PROVE LockInv
  OBVIOUS
<1>1. \A t \in Threads, l \in Locks : ~Owns(t, l)
  BY ThreadsAssumption DEF Init, Owns, Thread
<1>2. \A l \in Locks : value[l] = 1
  BY DEF Init, Sema
<1>3. ReleaseConsistent
  BY ThreadsAssumption DEF ReleasePcs, Init, ReleaseConsistent, Thread
<1> QED BY <1>1, <1>2, <1>3 DEF LockInv, LockExclusive

\* Mutual exclusion of struct lock for any number of threads and locks: at most
\* one thread is between the sema_down of lock_acquire (or lock_try_acquire)
\* and the sema_up of lock_release, and the semaphore is 0 exactly then.
THEOREM LocksCorrect == Spec => []LockExclusive
<1> DEFINE I == TypeOK /\ CallsConsistent /\ LockInv
<1>1. Init => I
  BY TypedInit, LockInit
<1>2. I /\ [Next]_vars => I'
  BY TypedStep, LockStep
<1>3. I => LockExclusive
  BY DEF LockInv
<1> QED BY <1>1, <1>2, <1>3, PTL DEF Spec

\* No step of any thread or interrupt takes a lock away from its holder or
\* overwrites a holder field that is set.
THEOREM HolderHandoverCorrect == Spec => HolderHandover
<1> DEFINE I == TypeOK /\ CallsConsistent /\ LockInv
<1>1. Init => I
  BY TypedInit, LockInit
<1>2. I /\ [Next]_vars => I'
  BY TypedStep, LockStep
<1>3. I /\ [Next]_vars => [Handover]_vars
  BY LockStep
<1>4. HolderHandover <=> [][Handover]_vars
  BY DEF HolderHandover, Handover
<1> QED BY <1>1, <1>2, <1>3, <1>4, PTL DEF Spec

-----------------------------------------------------------------------------
(* The idle thread.                                                        *)

\* Whichever way the CPU is given up, the idle thread gets it only when the
\* run queue was empty.
LEMMA ScheduleIdle ==
  ASSUME NEW st, NEW rl \in Seq(Threads), schedule(st, rl)
  PROVE  cur' = Idle => ready_list' = <<>>
<1>1. CASE rl = <<>>
  BY <1>1 DEF schedule
<1>2. CASE rl # <<>>
  <2>1. Head(rl) \in Threads
    BY <1>2, PopFrontFacts
  <2> QED BY <1>2, <2>1, ThreadsAssumption DEF schedule, next_thread_to_run
<1> QED BY <1>1, <1>2

\* thread_yield dispatches the idle thread only when the run queue is empty.
LEMMA YieldIdle ==
  ASSUME TypeOK, NEW st, NEW rl \in Seq(Threads), thread_yield(st, rl)
  PROVE  cur' = Idle => ready_list' = <<>>
<1>1. PICK q \in IF cur = Idle THEN {rl} ELSE InsertOrdered(rl, cur, priority) :
        schedule([reap(st) EXCEPT ![cur] = "READY"], q)
  BY DEF thread_yield, do_schedule
<1>2. q \in Seq(Threads)
  <2>1. CASE cur = Idle
    BY <1>1, <2>1
  <2>2. CASE cur # Idle
    <3>1. cur \in Threads /\ q \in InsertOrdered(rl, cur, priority)
      BY <1>1, <2>2 DEF TypeOK, Thread
    <3> QED BY <3>1, InsertOrderedFacts
  <2> QED BY <2>1, <2>2
<1> QED BY <1>1, <1>2, ScheduleIdle

\* So does compare_cur_next_priority.
LEMMA CompareIdle ==
  ASSUME TypeOK, cur # Idle, NEW st, NEW rl \in Seq(Threads),
         compare_cur_next_priority(st, rl)
  PROVE  cur' = Idle => ready_list' = <<>>
<1>1. PICK q \in ListSort(rl, priority) : thread_yield(st, q) \/ cur' = cur
  BY DEF compare_cur_next_priority
<1>2. q \in Seq(Threads)
  BY <1>1, PriorityIsKey, ListSortFacts
<1> QED BY <1>1, <1>2, YieldIdle

\* So does sema_up, which may wake a thread.
LEMMA SemaUpIdle ==
  ASSUME TypeOK, cur # Idle, NEW s \in Sema, sema_up(s)
  PROVE  cur' = Idle => ready_list' = <<>>
<1>1. CASE waiters[s] = <<>>
  BY <1>1, CompareIdle DEF sema_up, TypeOK
<1>2. CASE waiters[s] # <<>>
  <2>1. PICK w \in ListSort(waiters[s], priority) :
          \E rl \in InsertOrdered(ready_list, Head(w), priority) :
            compare_cur_next_priority([status EXCEPT ![Head(w)] = "READY"], rl)
    BY <1>2 DEF sema_up
  <2>2. waiters[s] \in Seq(Threads)
    BY DEF TypeOK
  <2>3. w \in Seq(Threads) /\ Len(w) = Len(waiters[s])
    BY <2>1, <2>2, PriorityIsKey, ListSortFacts
  <2>4. w # <<>>
    BY <1>2, <2>2, <2>3
  <2>5. Head(w) \in Threads
    BY <2>3, <2>4, PopFrontFacts
  <2>6. PICK rl \in InsertOrdered(ready_list, Head(w), priority) :
          compare_cur_next_priority([status EXCEPT ![Head(w)] = "READY"], rl)
    BY <2>1
  <2>7. rl \in Seq(Threads)
    BY <2>5, <2>6, InsertOrderedFacts DEF TypeOK
  <2> QED BY <2>6, <2>7, CompareIdle
<1> QED BY <1>1, <1>2

\* So does every step of a thread.
LEMMA ThreadIdle ==
  ASSUME TypeOK, CallsConsistent, NEW t \in Threads, cur = t, Call(t) \/ Continue(t)
  PROVE  cur' = Idle => ready_list' = <<>>
<1>0. cur # Idle /\ ready_list \in Seq(Threads)
  BY ThreadsAssumption DEF TypeOK
<1>1. CASE \/ \E s \in Semas : SemaDown(t, s)
           \/ SemaRecheck(t) \/ AcqDown(t) \/ ThreadExit(t)
  <2>1. cur' = cur \/ \E st : schedule(st, ready_list)
    BY <1>1, Zenon DEF SemaDown, SemaRecheck, AcqDown, sema_down, thread_block, ThreadExit,
       do_schedule, cpuVars
  <2> QED BY <1>0, <2>1, ScheduleIdle
<1>2. CASE \/ \E s \in Semas : SemaUp(t, s)
           \/ RelUp(t)
  <2>1. PICK s \in Sema : sema_up(s)
    BY <1>2 DEF SemaUp, RelUp, CallsConsistent, LockPcs, Sema
  <2> QED BY <1>0, <2>1, SemaUpIdle
<1>3. CASE Compare(t) \/ CreateCompare(t) \/ ThreadYield(t)
  <2>1. \/ compare_cur_next_priority(status, ready_list)
        \/ thread_yield(status, ready_list)
        \/ cur' = cur
    BY <1>3, Zenon DEF Compare, CreateCompare, ThreadYield, cpuVars
  <2> QED BY <1>0, <2>1, CompareIdle, YieldIdle
<1>4. CASE \/ \E s \in Semas : SemaTryDown(t, s)
           \/ \E l \in Locks : LockAcquire(t, l) \/ LockTryAcquire(t, l) \/ LockRelease(t, l)
           \/ \E p \in SetPrio : SetPriority(t, p)
           \/ \E u \in Threads, p \in NewPrio : ThreadCreate(t, u, p)
           \/ AcqRead(t) \/ AcqDonate(t) \/ AcqRaise(t) \/ AcqSort(t) \/ PrioStep(t)
           \/ AcqSet(t) \/ TrySet(t) \/ recalc_priority(t) \/ RelNull(t)
           \/ CreateRel(t) \/ CreateReady(t)
  <2>1. cur' = cur
    BY <1>4, PrioStepQuiet, Zenon DEF SemaTryDown, LockAcquire, lock_acquire, LockTryAcquire, LockRelease,
       lock_release, SetPriority, ThreadCreate, AcqRead, AcqDonate, AcqRaise, AcqSort,
       AcqSet, TrySet, recalc_priority, RelNull, CreateRel, CreateReady, cpuVars
  <2> QED BY <1>0, <2>1
<1> QED BY <1>1, <1>2, <1>3, <1>4 DEF Call, Continue, PrioStep

\* Every step leaves the idle thread halting only with an empty run queue.
LEMMA IdleStep ==
  ASSUME TypeOK, CallsConsistent, HaltOnlyWhenIdle, [Next]_vars
  PROVE  HaltOnlyWhenIdle'
<1>1. CASE UNCHANGED vars
  BY <1>1 DEF vars, HaltOnlyWhenIdle
<1>2. CASE IdleBlock
  <2>1. PICK st : schedule(st, ready_list)
    BY <1>2 DEF IdleBlock, thread_block
  <2> QED BY <2>1, ScheduleIdle DEF HaltOnlyWhenIdle, TypeOK
<1>3. CASE Interrupt
  <2>1. WakeHlt
    BY <1>3 DEF Interrupt, TimerTick, IntrSemaUp
  <2>2. pc \in [Thread -> Labels] /\ Idle \in Thread /\ ready_list \in Seq(Threads)
    BY DEF TypeOK, Thread
  <2>3. CASE cur = Idle
    BY <2>1, <2>2, <2>3 DEF WakeHlt, HaltOnlyWhenIdle
  <2>4. CASE cur # Idle
    <3>1. CASE TimerTick
      <4>1. thread_yield(status, ready_list) \/ cur' = cur
        BY <3>1 DEF TimerTick
      <4> QED BY <2>2, <2>4, <4>1, YieldIdle DEF HaltOnlyWhenIdle
    <3>2. ASSUME NEW s \in IntrSemas, IntrSemaUp(s) PROVE HaltOnlyWhenIdle'
      <4>1. sema_up(s) /\ s \in Sema
        BY <3>2, SyncAssumption DEF IntrSemaUp, Sema
      <4> QED BY <2>4, <4>1, SemaUpIdle DEF HaltOnlyWhenIdle
    <3> QED BY <1>3, <3>1, <3>2 DEF Interrupt
  <2> QED BY <2>3, <2>4
<1>4. ASSUME NEW t \in Threads, cur = t, Call(t) \/ Continue(t)
      PROVE  HaltOnlyWhenIdle'
  BY <1>4, ThreadIdle DEF HaltOnlyWhenIdle
<1> QED BY <1>1, <1>2, <1>3, <1>4 DEF Next

\* The CPU is never halted with a thread ready to run: whatever woke a thread
\* after the idle thread blocked also got the idle thread out of hlt.
THEOREM IdleCorrect == Spec => []HaltOnlyWhenIdle
<1> DEFINE I == TypeOK /\ CallsConsistent /\ HaltOnlyWhenIdle
<1>1. Init => I
  BY TypedInit, ThreadsAssumption DEF Init, HaltOnlyWhenIdle
<1>2. I /\ [Next]_vars => I'
  BY TypedStep, IdleStep
<1> QED BY <1>1, <1>2, PTL DEF Spec
=============================================================================
