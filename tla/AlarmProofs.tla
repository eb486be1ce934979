---------------------------- MODULE AlarmProofs ----------------------------
(***************************************************************************)
(* The sleeping list of devices/timer.c implements the alarm clock, for    *)
(* any number of threads, as long as every deadline lies in the future.    *)
(***************************************************************************)
EXTENDS Alarm, TLAPS

\* Every argument of timer_sleep is at least one tick, as real_time_sleep
\* ensures; with it, no deadline equals the NULL of closet_tick.
Positive == Durations \subseteq Nat \ {0}

Sorted(q, wake) ==
  \A i, j \in 1 .. Len(q) : i < j => wake[q[i]] <= wake[q[j]]

\* Comparing negated deadlines reverses the order.
LEMMA NegatedOrder ==
  ASSUME NEW a \in Int, NEW b \in Int
  PROVE  (0 - a > 0 - b) <=> a < b
  OBVIOUS

\* The position of an element after the first k ones are taken away.
LEMMA ShiftedIndex ==
  ASSUME NEW n \in Nat, NEW k \in 0 .. n, NEW j \in 1 .. n, j > k
  PROVE  j \in Int /\ k \in Int /\ j - k \in 1 .. n - k /\ (j - k) + k = j
  OBVIOUS

\* list_insert_ordered adds its element and keeps the others; a list without
\* duplicates that does not hold the element stays without duplicates.
LEMMA InsertOrderedFacts ==
  ASSUME NEW S, NEW q \in Seq(S), NEW x \in S, NEW key,
         NEW r \in InsertOrdered(q, x, key)
  PROVE  /\ r \in Seq(S)
         /\ r # <<>>
         /\ Len(r) = Len(q) + 1
         /\ Range(r) = Range(q) \cup {x}
         /\ NoDup(q) /\ x \notin Range(q) => NoDup(r)
<1>1. PICK k \in 0 .. Len(q) : r = PutAfter(q, k, x)
  BY DEF InsertOrdered
<1>2. /\ Len(q) \in Nat
      /\ DOMAIN q = 1 .. Len(q)
      /\ \A i \in 1 .. Len(q) : q[i] \in S
  OBVIOUS
<1>3. /\ DOMAIN r = 1 .. Len(q) + 1
      /\ \A i \in 1 .. Len(q) + 1 :
           r[i] = IF i <= k THEN q[i] ELSE IF i = k + 1 THEN x ELSE q[i - 1]
  BY <1>1 DEF PutAfter
<1>4. r \in Seq(S) /\ Len(r) = Len(q) + 1
  <2>1. r = [i \in 1 .. Len(q) + 1 |-> r[i]]
    BY <1>1, <1>3 DEF PutAfter
  <2>2. \A i \in 1 .. Len(q) + 1 : r[i] \in S
    BY <1>2, <1>3
  <2>3. r \in [1 .. Len(q) + 1 -> S]
    BY <2>1, <2>2, Zenon
  <2>4. Len(q) + 1 \in Nat
    BY <1>2
  <2>5. r \in Seq(S)
    BY <2>3, <2>4
  <2> QED BY <2>3, <2>4, <2>5
<1>5. Range(r) = Range(q) \cup {x}
  <2>1. ASSUME NEW y \in Range(r) PROVE y \in Range(q) \cup {x}
    BY <1>2, <1>3 DEF Range
  <2>2. ASSUME NEW y \in Range(q) PROVE y \in Range(r)
    <3>1. PICK i \in 1 .. Len(q) : y = q[i]
      BY <1>2 DEF Range
    <3>2. CASE i <= k
      <4>1. i \in 1 .. Len(q) + 1 /\ r[i] = y
        BY <1>2, <1>3, <3>1, <3>2
      <4> QED BY <4>1, <1>3, Zenon DEF Range
    <3>3. CASE i > k
      <4>1. i + 1 \in 1 .. Len(q) + 1 /\ r[i + 1] = y
        BY <1>2, <1>3, <3>1, <3>3
      <4> QED BY <4>1, <1>3, Zenon DEF Range
    <3> QED BY <1>2, <3>2, <3>3
  <2>3. x \in Range(r)
    <3>1. k + 1 \in 1 .. Len(q) + 1 /\ r[k + 1] = x
      BY <1>2, <1>3
    <3> QED BY <3>1, <1>3, Zenon DEF Range
  <2> QED BY <2>1, <2>2, <2>3, Zenon
<1>6. ASSUME NoDup(q), x \notin Range(q) PROVE NoDup(r)
  <2>1. \A i \in 1 .. Len(q) : q[i] # x
    BY <1>2, <1>6 DEF Range
  <2>2. \A i, j \in 1 .. Len(q) : q[i] = q[j] => i = j
    BY <1>6 DEF NoDup
  <2>3. SUFFICES ASSUME NEW i \in 1 .. Len(q) + 1, NEW j \in 1 .. Len(q) + 1,
                        r[i] = r[j]
                 PROVE  i = j
    BY <1>4 DEF NoDup
  <2> QED BY <1>2, <1>3, <2>1, <2>2, <2>3
<1> QED BY <1>2, <1>4, <1>5, <1>6

\* list_insert_ordered keeps a sorted list sorted, and its front is the new
\* element or the old front, whichever is due first.
LEMMA InsertSorted ==
  ASSUME NEW S, NEW q \in Seq(S), NEW x \in S, NEW wake \in [S -> Int],
         NEW key, key = [t \in S |-> 0 - wake[t]],
         NEW r \in InsertOrdered(q, x, key), Sorted(q, wake)
  PROVE  /\ Sorted(r, wake)
         /\ r[1] = IF q = <<>> \/ wake[q[1]] > wake[x] THEN x ELSE q[1]
<1>1. PICK k \in 0 .. Len(q) :
        /\ r = PutAfter(q, k, x)
        /\ \A i \in 1 .. k : ~(key[x] > key[q[i]])
        /\ k < Len(q) => key[x] > key[q[k + 1]]
  BY DEF InsertOrdered
<1>2. /\ Len(q) \in Nat
      /\ DOMAIN q = 1 .. Len(q)
      /\ \A i \in 1 .. Len(q) : q[i] \in S
  OBVIOUS
<1>0. /\ \A y \in S : wake[y] \in Int /\ key[y] = 0 - wake[y]
      /\ \A i \in 1 .. Len(q) : wake[q[i]] \in Int /\ key[q[i]] = 0 - wake[q[i]]
      /\ wake[x] \in Int /\ key[x] = 0 - wake[x]
  BY <1>2
<1>3. /\ \A i \in 1 .. k : wake[q[i]] <= wake[x]
      /\ k < Len(q) => wake[x] < wake[q[k + 1]]
  <2>1. \A i \in 1 .. k : i \in 1 .. Len(q) /\ ~(key[x] > key[q[i]])
    BY <1>1, <1>2
  <2>2. k < Len(q) => k + 1 \in 1 .. Len(q) /\ key[x] > key[q[k + 1]]
    BY <1>1, <1>2
  <2>3. ASSUME NEW i \in 1 .. k PROVE wake[q[i]] <= wake[x]
    <3>1. /\ wake[q[i]] \in Int /\ wake[x] \in Int
          /\ ~(0 - wake[x] > 0 - wake[q[i]])
      BY <1>0, <2>1
    <3>2. ~(wake[x] < wake[q[i]])
      BY <3>1, NegatedOrder
    <3> QED BY <3>1, <3>2
  <2>4. ASSUME k < Len(q) PROVE wake[x] < wake[q[k + 1]]
    <3>1. wake[q[k + 1]] \in Int /\ 0 - wake[x] > 0 - wake[q[k + 1]]
      BY <1>0, <2>2, <2>4
    <3> QED BY <1>0, <3>1
  <2> QED BY <2>3, <2>4
<1>4. /\ Len(r) = Len(q) + 1
      /\ \A i \in 1 .. Len(q) + 1 :
           r[i] = IF i <= k THEN q[i] ELSE IF i = k + 1 THEN x ELSE q[i - 1]
  BY <1>1, <1>2, InsertOrderedFacts DEF PutAfter
<1>5. \A i \in 1 .. Len(q) : i > k => wake[x] < wake[q[i]]
  <2> SUFFICES ASSUME NEW i \in 1 .. Len(q), i > k PROVE wake[x] < wake[q[i]]
    OBVIOUS
  <2>1. k < Len(q) /\ k + 1 \in 1 .. Len(q)
    BY <1>2
  <2>2. wake[q[k + 1]] <= wake[q[i]]
    <3>1. CASE i = k + 1
      BY <1>0, <3>1
    <3>2. CASE i > k + 1
      BY <2>1, <3>2 DEF Sorted
    <3> QED BY <3>1, <3>2
  <2> QED BY <1>0, <1>2, <1>3, <2>1, <2>2
<1>6. Sorted(r, wake)
  <2> SUFFICES ASSUME NEW i \in 1 .. Len(q) + 1, NEW j \in 1 .. Len(q) + 1, i < j
               PROVE  wake[r[i]] <= wake[r[j]]
    BY <1>4 DEF Sorted
  <2>1. CASE j <= k
    <3>1. i \in 1 .. Len(q) /\ j \in 1 .. Len(q) /\ r[i] = q[i] /\ r[j] = q[j]
      BY <1>2, <1>4, <2>1
    <3> QED BY <3>1 DEF Sorted
  <2>2. CASE j = k + 1
    <3>1. i \in 1 .. k /\ r[i] = q[i] /\ r[j] = x
      BY <1>2, <1>4, <2>2
    <3> QED BY <1>3, <3>1
  <2>3. CASE j > k + 1
    <3>1. j - 1 \in 1 .. Len(q) /\ r[j] = q[j - 1] /\ wake[x] < wake[q[j - 1]]
      BY <1>2, <1>4, <1>5, <2>3
    <3>2. wake[x] < wake[q[j - 1]]
      BY <3>1
    <3>3. CASE i <= k
      <4>1. i \in 1 .. k /\ i \in 1 .. Len(q)
        BY <1>2, <3>3
      <4>2. r[i] = q[i]
        BY <1>4, <3>3
      <4>3. wake[q[i]] <= wake[x]
        BY <1>3, <4>1
      <4>4. wake[q[i]] \in Int /\ wake[x] \in Int /\ wake[q[j - 1]] \in Int
        BY <1>0, <3>1, <4>1
      <4>5. \A a, b, c \in Int : a <= b /\ b < c => a <= c
        OBVIOUS
      <4>6. wake[q[i]] <= wake[q[j - 1]]
        BY <3>2, <4>3, <4>4, <4>5, Zenon
      <4> QED BY <3>1, <4>2, <4>6
    <3>4. CASE i = k + 1
      <4>1. r[i] = x
        BY <1>4, <3>4
      <4>2. wake[x] \in Int /\ wake[q[j - 1]] \in Int
        BY <1>0, <3>1
      <4>3. \A a, b \in Int : a < b => a <= b
        OBVIOUS
      <4>4. wake[x] <= wake[q[j - 1]]
        BY <3>2, <4>2, <4>3, Zenon
      <4> QED BY <3>1, <4>1, <4>4
    <3>5. CASE i > k + 1
      <4>1. i - 1 \in 1 .. Len(q) /\ r[i] = q[i - 1] /\ i - 1 < j - 1
        BY <1>2, <1>4, <3>5
      <4> QED BY <3>1, <4>1 DEF Sorted
    <3> QED BY <3>3, <3>4, <3>5
  <2> QED BY <2>1, <2>2, <2>3
<1>7. r[1] = IF q = <<>> \/ wake[q[1]] > wake[x] THEN x ELSE q[1]
  <2>1. CASE k = 0
    <3>1. r[1] = x
      BY <1>2, <1>4, <2>1
    <3>2. q = <<>> \/ wake[q[1]] > wake[x]
      BY <1>2, <1>3, <2>1
    <3> QED BY <3>1, <3>2
  <2>2. CASE k > 0
    <3>1. r[1] = q[1] /\ wake[q[1]] <= wake[x] /\ q # <<>>
      BY <1>2, <1>3, <1>4, <2>2
    <3>2. ~(wake[q[1]] > wake[x])
      BY <1>2, <2>2, <3>1
    <3> QED BY <3>1, <3>2
  <2> QED BY <2>1, <2>2
<1> QED BY <1>6, <1>7

\* What is left of a list after its first k elements were removed.
LEMMA SuffixFacts ==
  ASSUME NEW S, NEW q \in Seq(S), NEW k \in 0 .. Len(q), NEW r,
         r = SubSeq(q, k + 1, Len(q))
  PROVE  /\ r \in Seq(S)
         /\ Len(r) = Len(q) - k
         /\ \A i \in 1 .. Len(r) : r[i] = q[i + k]
  OBVIOUS

-----------------------------------------------------------------------------
\* SleepListConsistent is inductive together with the types and with every
\* deadline in use being a real tick, never the NULL of closet_tick.
DeadlinesReal == \A t \in Threads : phase[t] # "run" => wakeup_tick[t] > 0

AlarmInv == TypeOK /\ SleepListConsistent /\ DeadlinesReal

\* Nobody sleeps at the start.
LEMMA AlarmInit == Init => AlarmInv
  BY AlarmAssumption DEF Init, AlarmInv, TypeOK, SleepListConsistent, DeadlinesReal, NoDup, Range, NULL

\* The first step of timer_sleep touches no list entry.
LEMMA SleepStep ==
  ASSUME Positive, AlarmInv, NEW t \in Threads, NEW d \in Durations, timer_sleep(t, d)
  PROVE  AlarmInv'
<1>1. /\ phase[t] = "run" /\ ticks + d <= MaxTick
      /\ wakeup_tick' = [wakeup_tick EXCEPT ![t] = ticks + d]
      /\ phase' = [phase EXCEPT ![t] = "armed"]
      /\ UNCHANGED <<ticks, closet_tick, block_thread_list>>
  BY DEF timer_sleep
<1>2. /\ ticks + d \in Int /\ ticks + d > 0
      /\ phase \in [Threads -> {"run", "armed", "asleep"}]
      /\ wakeup_tick \in [Threads -> Int]
  BY DEF Positive, AlarmInv, TypeOK
<1>3. TypeOK'
  BY <1>1, <1>2 DEF AlarmInv, TypeOK
<1>4. DeadlinesReal'
  BY <1>1, <1>2 DEF AlarmInv, DeadlinesReal
<1>5. /\ \A i \in 1 .. Len(block_thread_list) :
           /\ block_thread_list[i] \in Threads
           /\ block_thread_list[i] \in Range(block_thread_list)
      /\ Len(block_thread_list) \in Nat
  BY DEF AlarmInv, TypeOK, Range
<1>6. \A i \in 1 .. Len(block_thread_list) :
        block_thread_list[i] # t /\ wakeup_tick'[block_thread_list[i]] = wakeup_tick[block_thread_list[i]]
  BY <1>1, <1>2, <1>5 DEF AlarmInv, SleepListConsistent
<1>7. \A u \in Threads : phase'[u] = "asleep" <=> phase[u] = "asleep"
  BY <1>1, <1>2
<1>8. block_thread_list # <<>> => 1 \in 1 .. Len(block_thread_list)
  BY <1>5 DEF AlarmInv, TypeOK
<1>9. SleepListConsistent'
  BY <1>1, <1>6, <1>7, <1>8 DEF AlarmInv, SleepListConsistent
<1> QED BY <1>3, <1>4, <1>9 DEF AlarmInv

\* The second step inserts in order and keeps the cached tick at the front.
LEMMA BlockStep ==
  ASSUME AlarmInv, NEW t \in Threads, SleepBlock(t)
  PROVE  AlarmInv'
<1> DEFINE q == block_thread_list
           r == block_thread_list'
<1>1. /\ phase[t] = "armed"
      /\ closet_tick' = IF closet_tick = NULL \/ closet_tick > wakeup_tick[t]
                        THEN wakeup_tick[t] ELSE closet_tick
      /\ r \in InsertOrdered(q, t, compare_tick)
      /\ phase' = [phase EXCEPT ![t] = "asleep"]
      /\ UNCHANGED <<ticks, wakeup_tick>>
  BY DEF SleepBlock
<1>2. /\ q \in Seq(Threads) /\ wakeup_tick \in [Threads -> Int]
      /\ phase \in [Threads -> {"run", "armed", "asleep"}]
      /\ wakeup_tick[t] \in Int /\ wakeup_tick[t] > 0
      /\ NoDup(q) /\ Sorted(q, wakeup_tick)
      /\ t \notin Range(q)
  BY <1>1 DEF AlarmInv, TypeOK, SleepListConsistent, DeadlinesReal, Sorted
<1>3. compare_tick = [u \in Threads |-> 0 - wakeup_tick[u]]
  BY DEF compare_tick
<1>4. /\ r \in Seq(Threads) /\ r # <<>> /\ NoDup(r)
      /\ Range(r) = Range(q) \cup {t}
  BY <1>1, <1>2, InsertOrderedFacts
<1>5. /\ Sorted(r, wakeup_tick)
      /\ r[1] = IF q = <<>> \/ wakeup_tick[q[1]] > wakeup_tick[t] THEN t ELSE q[1]
  BY <1>1, <1>2, <1>3, InsertSorted
<1>6. \A u \in Threads : phase'[u] = IF u = t THEN "asleep" ELSE phase[u]
  BY <1>1, <1>2
<1>7. closet_tick' = wakeup_tick[r[1]]
  <2>1. CASE q = <<>>
    <3>1. closet_tick = NULL
      BY <2>1 DEF AlarmInv, SleepListConsistent
    <3> QED BY <1>1, <1>5, <2>1, <3>1
  <2>2. CASE q # <<>>
    <3>1. q[1] \in Threads /\ q[1] \in Range(q)
      BY <1>2, <2>2 DEF Range
    <3>2. closet_tick = wakeup_tick[q[1]] /\ phase[q[1]] = "asleep"
      BY <2>2, <3>1 DEF AlarmInv, SleepListConsistent
    <3>3. closet_tick # NULL
      BY <3>1, <3>2 DEF AlarmInv, DeadlinesReal, NULL
    <3>4. CASE wakeup_tick[q[1]] > wakeup_tick[t]
      BY <1>1, <1>5, <3>2, <3>4
    <3>5. CASE ~(wakeup_tick[q[1]] > wakeup_tick[t])
      BY <1>1, <1>5, <2>2, <3>2, <3>3, <3>5
    <3> QED BY <3>4, <3>5
  <2> QED BY <2>1, <2>2
<1>8. closet_tick' \in Int
  BY <1>1, <1>2 DEF AlarmInv, TypeOK
<1>9. TypeOK'
  BY <1>1, <1>2, <1>4, <1>8 DEF AlarmInv, TypeOK
<1>10. DeadlinesReal'
  BY <1>1, <1>2, <1>6 DEF AlarmInv, DeadlinesReal
<1>11. \A u \in Threads : u \in Range(r) <=> phase'[u] = "asleep"
  BY <1>4, <1>6 DEF AlarmInv, SleepListConsistent
<1>12. SleepListConsistent'
  BY <1>1, <1>4, <1>5, <1>7, <1>11 DEF SleepListConsistent, Sorted
<1> QED BY <1>9, <1>10, <1>12 DEF AlarmInv

\* What a tick does to the phases, which is also the step of AlarmClock.
TickPhase ==
  phase' = [t \in Threads |->
              IF phase[t] = "asleep" /\ wakeup_tick[t] <= ticks' THEN "run" ELSE phase[t]]

\* A tick that skips the list skips nobody who is due.
LEMMA QuietTick ==
  ASSUME AlarmInv, ticks' = ticks + 1, closet_tick = NULL \/ ticks' < closet_tick,
         UNCHANGED <<closet_tick, block_thread_list, phase, wakeup_tick>>
  PROVE  TickPhase
<1> DEFINE q == block_thread_list
<1>1. /\ q \in Seq(Threads) /\ wakeup_tick \in [Threads -> Int] /\ ticks \in Int
      /\ phase \in [Threads -> {"run", "armed", "asleep"}]
  BY DEF AlarmInv, TypeOK
<1>2. ASSUME NEW t \in Threads, phase[t] = "asleep" PROVE ~(wakeup_tick[t] <= ticks')
  <2>1. PICK i \in 1 .. Len(q) : q[i] = t
    BY <1>1, <1>2 DEF AlarmInv, SleepListConsistent, Range
  <2>2. q # <<>> /\ 1 \in 1 .. Len(q) /\ q[1] \in Threads /\ q[1] \in Range(q)
    BY <1>1, <2>1 DEF Range
  <2>3. closet_tick = wakeup_tick[q[1]] /\ phase[q[1]] = "asleep"
    BY <2>2 DEF AlarmInv, SleepListConsistent
  <2>4. closet_tick # NULL
    BY <2>2, <2>3 DEF AlarmInv, DeadlinesReal, NULL
  <2>5. wakeup_tick[q[1]] <= wakeup_tick[t]
    <3>1. CASE i = 1
      BY <1>1, <2>1, <3>1
    <3>2. CASE i # 1
      BY <2>1, <2>2, <3>2 DEF AlarmInv, SleepListConsistent
    <3> QED BY <3>1, <3>2
  <2> QED BY <1>1, <2>2, <2>3, <2>4, <2>5
<1>3. \A t \in Threads :
        phase[t] = IF phase[t] = "asleep" /\ wakeup_tick[t] <= ticks' THEN "run" ELSE phase[t]
  BY <1>2
<1>4. phase' = [t \in Threads |-> phase[t]]
  BY <1>1
<1> QED BY <1>3, <1>4 DEF TickPhase

\* wake_up removes exactly the due sleepers: the list is sorted, so nobody due
\* is behind the first entry that is not.
LEMMA WakeTick ==
  ASSUME AlarmInv, ticks < MaxTick, ticks' = ticks + 1, wake_up(ticks'),
         UNCHANGED wakeup_tick
  PROVE  TickPhase /\ SleepListConsistent' /\ TypeOK'
<1> DEFINE q == block_thread_list
           r == block_thread_list'
<1>0. PICK k \in DuePrefix(ticks') :
        /\ r = SubSeq(q, k + 1, Len(q))
        /\ phase' = [t \in Threads |->
                       IF \E i \in 1 .. k : q[i] = t THEN "run" ELSE phase[t]]
        /\ closet_tick' = IF r = <<>> THEN NULL ELSE wakeup_tick[Head(r)]
  BY DEF wake_up
<1>1. /\ q \in Seq(Threads) /\ wakeup_tick \in [Threads -> Int] /\ ticks \in Int
      /\ phase \in [Threads -> {"run", "armed", "asleep"}]
      /\ Len(q) \in Nat
      /\ \A i \in 1 .. Len(q) : q[i] \in Threads /\ wakeup_tick[q[i]] \in Int
  <2>1. /\ q \in Seq(Threads) /\ wakeup_tick \in [Threads -> Int] /\ ticks \in Int
        /\ phase \in [Threads -> {"run", "armed", "asleep"}]
    BY DEF AlarmInv, TypeOK
  <2>2. Len(q) \in Nat /\ \A i \in 1 .. Len(q) : q[i] \in Threads
    BY <2>1
  <2> QED BY <2>1, <2>2
<1>2. /\ k \in 0 .. Len(q)
      /\ \A i \in 1 .. k : wakeup_tick[q[i]] <= ticks'
      /\ k < Len(q) => wakeup_tick[q[k + 1]] > ticks'
  BY <1>0 DEF DuePrefix
<1>3. /\ NoDup(q)
      /\ \A t \in Threads : t \in Range(q) <=> phase[t] = "asleep"
      /\ \A i, j \in 1 .. Len(q) : i < j => wakeup_tick[q[i]] <= wakeup_tick[q[j]]
  BY DEF AlarmInv, SleepListConsistent
<1>4. \A i \in 1 .. Len(q) : i > k => ~(wakeup_tick[q[i]] <= ticks')
  <2> SUFFICES ASSUME NEW i \in 1 .. Len(q), i > k PROVE ~(wakeup_tick[q[i]] <= ticks')
    OBVIOUS
  <2>1. k < Len(q) /\ k + 1 \in 1 .. Len(q) /\ wakeup_tick[q[k + 1]] > ticks'
    BY <1>1, <1>2
  <2>2. wakeup_tick[q[k + 1]] <= wakeup_tick[q[i]]
    <3>1. CASE i = k + 1
      BY <1>1, <3>1
    <3>2. CASE i > k + 1
      BY <1>3, <2>1, <3>2
    <3> QED BY <1>2, <3>1, <3>2
  <2> QED BY <1>1, <2>1, <2>2
<1>5. /\ r \in Seq(Threads)
      /\ Len(r) = Len(q) - k
      /\ \A i \in 1 .. Len(r) : r[i] = q[i + k] /\ i + k \in 1 .. Len(q)
  <2>1. r \in Seq(Threads) /\ Len(r) = Len(q) - k /\ \A i \in 1 .. Len(r) : r[i] = q[i + k]
    BY <1>0, <1>1, <1>2, SuffixFacts
  <2>2. \A i \in 1 .. Len(r) : i + k \in 1 .. Len(q)
    BY <1>1, <1>2, <2>1
  <2> QED BY <2>1, <2>2
<1>6. ASSUME NEW t \in Threads
      PROVE  (\E i \in 1 .. k : q[i] = t)
               <=> (phase[t] = "asleep" /\ wakeup_tick[t] <= ticks')
  <2>1. ASSUME NEW i \in 1 .. k, q[i] = t
        PROVE  phase[t] = "asleep" /\ wakeup_tick[t] <= ticks'
    <3>1. i \in 1 .. Len(q)
      BY <1>1, <1>2
    <3>2. t \in Range(q)
      BY <1>1, <2>1, <3>1 DEF Range
    <3> QED BY <1>2, <1>3, <2>1, <3>2
  <2>2. ASSUME phase[t] = "asleep", wakeup_tick[t] <= ticks'
        PROVE  \E i \in 1 .. k : q[i] = t
    <3>1. PICK i \in 1 .. Len(q) : q[i] = t
      BY <1>1, <1>3, <2>2 DEF Range
    <3>2. ~(i > k)
      BY <1>4, <2>2, <3>1
    <3> QED BY <1>2, <3>1, <3>2
  <2> QED BY <2>1, <2>2
<1>7. TickPhase
  BY <1>0, <1>6 DEF TickPhase
<1>8. /\ \A t \in Threads : phase'[t] = "asleep" <=>
             (phase[t] = "asleep" /\ ~(wakeup_tick[t] <= ticks'))
      /\ phase' \in [Threads -> {"run", "armed", "asleep"}]
  BY <1>1, <1>7 DEF TickPhase
<1>9. NoDup(r)
  <2> SUFFICES ASSUME NEW i \in 1 .. Len(r), NEW j \in 1 .. Len(r), r[i] = r[j]
               PROVE  i = j
    BY DEF NoDup
  <2>1. i + k = j + k
    BY <1>3, <1>5 DEF NoDup
  <2> QED BY <1>2, <2>1
<1>10. ASSUME NEW t \in Threads PROVE t \in Range(r) <=> phase'[t] = "asleep"
  <2>1. ASSUME t \in Range(r) PROVE phase'[t] = "asleep"
    <3>1. PICK i \in 1 .. Len(r) : t = r[i]
      BY <1>5, <2>1 DEF Range
    <3>2. i + k \in 1 .. Len(q) /\ t = q[i + k] /\ i + k > k
      BY <1>2, <1>5, <3>1
    <3>3. t \in Range(q) /\ ~(wakeup_tick[t] <= ticks')
      BY <1>1, <1>4, <3>2 DEF Range
    <3> QED BY <1>3, <1>8, <3>3
  <2>2. ASSUME phase'[t] = "asleep" PROVE t \in Range(r)
    <3>1. phase[t] = "asleep" /\ ~(wakeup_tick[t] <= ticks')
      BY <1>8, <2>2
    <3>2. PICK j \in 1 .. Len(q) : q[j] = t
      BY <1>1, <1>3, <3>1 DEF Range
    <3>3. j > k
      BY <1>2, <3>1, <3>2
    <3>6. j \in Int /\ k \in Int /\ j - k \in 1 .. Len(r) /\ (j - k) + k = j
      <4>1. Len(q) \in Nat /\ k \in 0 .. Len(q) /\ Len(r) = Len(q) - k
        BY <1>1, <1>2, <1>5
      <4> QED BY <3>2, <3>3, <4>1, ShiftedIndex
    <3>4. j - k \in 1 .. Len(r) /\ r[j - k] = t
      <4>1. r[j - k] = q[(j - k) + k]
        BY <1>5, <3>6
      <4> QED BY <3>2, <3>6, <4>1
    <3>5. DOMAIN r = 1 .. Len(r)
      BY <1>5
    <3> QED BY <3>4, <3>5, Zenon DEF Range
  <2> QED BY <2>1, <2>2
<1>11. \A i, j \in 1 .. Len(r) : i < j => wakeup_tick[r[i]] <= wakeup_tick[r[j]]
  <2> SUFFICES ASSUME NEW i \in 1 .. Len(r), NEW j \in 1 .. Len(r), i < j
               PROVE  wakeup_tick[r[i]] <= wakeup_tick[r[j]]
    OBVIOUS
  <2>1. i + k < j + k
    BY <1>2
  <2> QED BY <1>3, <1>5, <2>1
<1>12. closet_tick' = IF r = <<>> THEN NULL ELSE wakeup_tick[r[1]]
  <2>1. r # <<>> => Head(r) = r[1]
    BY <1>5
  <2> QED BY <1>0, <2>1
<1>13. SleepListConsistent'
  BY <1>9, <1>10, <1>11, <1>12 DEF SleepListConsistent
<1>14. closet_tick' \in Int
  <2>1. r # <<>> => r[1] \in Threads
    BY <1>5
  <2> QED BY <1>1, <1>12, <2>1 DEF NULL
<1>15. TypeOK'
  <2>1. ticks' \in 0 .. MaxTick
    BY AlarmAssumption DEF AlarmInv, TypeOK
  <2> QED BY <1>1, <1>5, <1>8, <1>14, <2>1 DEF TypeOK
<1> QED BY <1>7, <1>13, <1>15

\* A timer interrupt keeps the list of sleepers consistent.
LEMMA TickStep ==
  ASSUME AlarmInv, timer_interrupt
  PROVE  AlarmInv' /\ TickPhase
<1>1. ticks < MaxTick /\ ticks' = ticks + 1 /\ wakeup_tick' = wakeup_tick
  BY DEF timer_interrupt
<1>2. TickPhase /\ SleepListConsistent' /\ TypeOK'
  <2>1. CASE wake_up(ticks')
    BY <1>1, <2>1, WakeTick
  <2>2. CASE /\ closet_tick = NULL \/ ticks' < closet_tick
             /\ UNCHANGED <<closet_tick, block_thread_list, phase>>
    <3>1. TickPhase
      BY <1>1, <2>2, QuietTick
    <3>2. SleepListConsistent'
      BY <1>1, <2>2 DEF AlarmInv, SleepListConsistent
    <3>3. TypeOK'
      BY <1>1, <2>2, AlarmAssumption DEF AlarmInv, TypeOK
    <3> QED BY <3>1, <3>2, <3>3
  <2> QED BY <2>1, <2>2 DEF timer_interrupt
<1>3. DeadlinesReal'
  BY <1>1, <1>2 DEF TickPhase, AlarmInv, DeadlinesReal
<1> QED BY <1>2, <1>3 DEF AlarmInv

\* Every step keeps the list of sleepers consistent.
LEMMA AlarmStep ==
  ASSUME Positive, AlarmInv, [Next]_vars
  PROVE  AlarmInv'
<1>1. CASE UNCHANGED vars
  BY <1>1 DEF vars, AlarmInv, TypeOK, SleepListConsistent, DeadlinesReal
<1>2. CASE timer_interrupt
  BY <1>2, TickStep
<1>3. ASSUME NEW t \in Threads, SleepBlock(t) PROVE AlarmInv'
  BY <1>3, BlockStep
<1>4. ASSUME NEW t \in Threads, NEW d \in Durations, timer_sleep(t, d) PROVE AlarmInv'
  BY <1>4, SleepStep
<1> QED BY <1>1, <1>2, <1>3, <1>4 DEF Next

\* The list of sleepers stays sorted and complete and the cached tick is the
\* deadline at its front, whatever ticks fall between reading the clock and
\* joining the list.
THEOREM SleepListCorrect ==
  ASSUME Positive
  PROVE  Spec => [](TypeOK /\ SleepListConsistent)
<1>1. Init => AlarmInv
  BY AlarmInit
<1>2. AlarmInv /\ [Next]_vars => AlarmInv'
  BY AlarmStep
<1>3. AlarmInv => TypeOK /\ SleepListConsistent
  BY DEF AlarmInv
<1> QED BY <1>1, <1>2, <1>3, PTL DEF Spec

\* timer.c implements the alarm clock: every tick wakes exactly the threads
\* whose deadline has come, neither earlier nor at a later tick.
THEOREM ClockImplemented ==
  ASSUME Positive
  PROVE  Spec => ImplementsClock
<1>1. Init => AlarmInv
  BY AlarmInit
<1>2. AlarmInv /\ [Next]_vars => AlarmInv'
  BY AlarmStep
<1>3. Init => Clock!Init
  BY DEF Init, Clock!Init
<1>4. AlarmInv /\ [Next]_vars => [Clock!Next]_(Clock!vars)
  <2> SUFFICES ASSUME AlarmInv, [Next]_vars PROVE [Clock!Next]_(Clock!vars)
    OBVIOUS
  <2>1. CASE UNCHANGED vars
    BY <2>1 DEF vars, Clock!vars
  <2>2. CASE timer_interrupt
    <3>1. Clock!Tick
      BY <2>2, TickStep DEF Clock!Tick, TickPhase, timer_interrupt
    <3> QED BY <3>1 DEF Clock!Next
  <2>3. ASSUME NEW t \in Threads, SleepBlock(t) PROVE Clock!Next
    <3>1. Clock!FallAsleep(t)
      BY <2>3 DEF SleepBlock, Clock!FallAsleep
    <3> QED BY <3>1 DEF Clock!Next
  <2>4. ASSUME NEW t \in Threads, NEW d \in Durations, timer_sleep(t, d) PROVE Clock!Next
    <3>1. Clock!Arm(t, d)
      BY <2>4 DEF timer_sleep, Clock!Arm
    <3> QED BY <3>1 DEF Clock!Next
  <2> QED BY <2>1, <2>2, <2>3, <2>4 DEF Next
<1> QED BY <1>1, <1>2, <1>3, <1>4, PTL DEF Spec, ImplementsClock, Clock!Spec
=============================================================================
