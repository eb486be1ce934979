-------------------------------- MODULE Mlfqs --------------------------------
(***************************************************************************)
(* The multi-level feedback queue scheduler (threads/thread.c with         *)
(* fixed-point.c, driven by devices/timer.c): recent_cpu and load_avg in   *)
(* fixed point, priorities recomputed every fourth tick.  Each thread may  *)
(* be running, ready or asleep at a tick; threads are not made or ended.   *)
(* The locks donate and give back priorities under this scheduler too.     *)
(* Which thread holds and wants which lock is not kept here (Sched has     *)
(* the locks): any thread may donate to any other and may release at any   *)
(* time, donations[t] being the priorities ever donated to t.              *)
(***************************************************************************)
EXTENDS Integers, FiniteSets

CONSTANTS MThreads,
          F,            \* 2^14 in the code
          TIMER_FREQ,   \* ticks in a second
          Nices,        \* values of nice
          MaxTicks,     \* bound on time
          MaxCalls      \* bound on the calls that write a priority

VARIABLES ticks, cur, nice, recent_cpu, load_avg, priority,
          donations,
          local,        \* of a thread inside thread_set_nice
          touched,      \* threads not judged by the scheduler since the last recomputation
          calls         \* how many calls have begun

mlfqsVars == <<ticks, cur, nice, recent_cpu, load_avg, priority, donations, local, touched, calls>>

PRI_MIN == 0
PRI_MAX == 63
PRI_DEFAULT == 31
idle_thread == "idle"
NoCall == [op |-> "none", p |-> 0, at |-> 0]

-----------------------------------------------------------------------------
(* Fixed point; division truncates towards zero *)

div(x, n) == IF x >= 0 THEN x \div n ELSE -((-x) \div n)
int_to_fp(n) == n * F
fp_to_int_round(x) == IF x >= 0 THEN div(x + F \div 2, F) ELSE div(x - F \div 2, F)
mul_fp(x, y) == div(x * y, F)
div_fp(x, y) == div(x * F, y)

new_load_avg(load, ready_threads) == div(load * 59, 60) + div(int_to_fp(1), 60) * ready_threads

decayed(load, cpu, n) == mul_fp(div_fp(2 * load, 2 * load + int_to_fp(1)), cpu) + int_to_fp(n)

priority_of(cpu, n) ==
    LET p == PRI_MAX - fp_to_int_round(div(cpu, 4)) - n * 2
    IN IF p > PRI_MAX THEN PRI_MAX ELSE IF p < PRI_MIN THEN PRI_MIN ELSE p

-----------------------------------------------------------------------------
MInit == /\ ticks = 0
         /\ cur \in MThreads
         /\ nice = [t \in MThreads |-> 0]
         /\ recent_cpu = [t \in MThreads |-> 0]
         /\ load_avg = 0
         /\ priority = [t \in MThreads |-> PRI_DEFAULT]
         /\ donations = [t \in MThreads |-> {}]
         /\ local = [t \in MThreads |-> NoCall]
         /\ touched = {}
         /\ calls = 0

\* A wrong tick: the priorities before the decay of the same tick.
mlfqs_on_tick_Order(ready) ==
    LET now == ticks + 1
        used == IF cur = idle_thread THEN recent_cpu ELSE [recent_cpu EXCEPT ![cur] = @ + int_to_fp(1)]
        load == new_load_avg(load_avg, Cardinality(ready \cup ({cur} \ {idle_thread})))
    IN /\ ticks < MaxTicks
       /\ ticks' = now
       /\ load_avg' = IF now % TIMER_FREQ = 0 THEN load ELSE load_avg
       /\ recent_cpu' = IF now % TIMER_FREQ = 0
                        THEN [t \in MThreads |-> decayed(load, used[t], nice[t])] ELSE used
       /\ priority' = IF now % 4 = 0 THEN [t \in MThreads |-> priority_of(used[t], nice[t])] ELSE priority
       /\ touched' = IF now % 4 = 0 THEN {} ELSE touched
       /\ UNCHANGED <<cur, nice, donations, local, calls>>

\* update_recent_cpu; every second load_avg and then every recent_cpu; every
\* fourth tick every priority.  ready is ready_list.
mlfqs_on_tick(ready) ==
    LET now == ticks + 1
        used == IF cur = idle_thread THEN recent_cpu ELSE [recent_cpu EXCEPT ![cur] = @ + int_to_fp(1)]
        load == new_load_avg(load_avg, Cardinality(ready \cup ({cur} \ {idle_thread})))
    IN /\ ticks < MaxTicks
       /\ ticks' = now
       /\ load_avg' = IF now % TIMER_FREQ = 0 THEN load ELSE load_avg
       /\ recent_cpu' = IF now % TIMER_FREQ = 0
                        THEN [t \in MThreads |-> decayed(load, used[t], nice[t])] ELSE used
       /\ priority' = IF now % 4 = 0 THEN [t \in MThreads |-> priority_of(recent_cpu'[t], nice[t])]
                      ELSE priority
       /\ touched' = IF now % 4 = 0 THEN {} ELSE touched
       /\ UNCHANGED <<cur, nice, donations, local, calls>>

\* The running thread sleeps, ends its slice or is preempted, and any other
\* thread may be the one that runs next.
dispatch(t) ==
    /\ cur # t
    /\ cur' = t
    /\ UNCHANGED <<ticks, nice, recent_cpu, load_avg, priority, donations, local, touched, calls>>

\* thread_set_nice and update_priority run with interrupts on: nice is stored,
\* the priority is computed, and then it is stored.
thread_set_nice(n) ==
    /\ cur # idle_thread /\ local[cur] = NoCall
    /\ calls < MaxCalls /\ calls' = calls + 1
    /\ nice' = [nice EXCEPT ![cur] = n]
    /\ local' = [local EXCEPT ![cur].op = "nice"]
    /\ touched' = touched \cup {cur}
    /\ UNCHANGED <<ticks, cur, recent_cpu, load_avg, priority, donations>>

update_priority ==
    /\ cur # idle_thread /\ local[cur].op = "nice"
    /\ local' = [local EXCEPT ![cur] = [op |-> "store", p |-> priority_of(recent_cpu[cur], nice[cur]),
                                        at |-> ticks]]
    /\ UNCHANGED <<ticks, cur, nice, recent_cpu, load_avg, priority, donations, touched, calls>>

\* A tick since the computation makes the stored priority a stale one.
update_store ==
    /\ cur # idle_thread /\ local[cur].op = "store"
    /\ priority' = [priority EXCEPT ![cur] = local[cur].p]
    /\ touched' = IF local[cur].at = ticks THEN touched \ {cur} ELSE touched \cup {cur}
    /\ local' = [local EXCEPT ![cur] = NoCall]
    /\ UNCHANGED <<ticks, cur, nice, recent_cpu, load_avg, donations, calls>>

\* The running thread wants a lock of holder and donates its priority.
lock_acquire(holder) ==
    /\ cur \notin {idle_thread, holder} /\ local[cur] = NoCall
    /\ calls < MaxCalls /\ calls' = calls + 1
    /\ priority' = [priority EXCEPT ![holder] = priority[cur]]
    /\ donations' = [donations EXCEPT ![holder] = @ \cup {priority[cur]}]
    /\ touched' = touched \cup {holder}
    /\ UNCHANGED <<ticks, cur, nice, recent_cpu, load_avg, local>>

\* recalc_priority writes the priority the thread was made with, which mlfqs
\* never changes, and then the first donation of another lock.
lock_release(p) ==
    /\ cur # idle_thread /\ local[cur] = NoCall
    /\ calls < MaxCalls /\ calls' = calls + 1
    /\ p \in {PRI_DEFAULT} \cup donations[cur]
    /\ priority' = [priority EXCEPT ![cur] = p]
    /\ touched' = touched \cup {cur}
    /\ UNCHANGED <<ticks, cur, nice, recent_cpu, load_avg, donations, local>>

MNext == \/ \E ready \in SUBSET (MThreads \ {cur}) : mlfqs_on_tick(ready)
         \/ \E t \in MThreads \cup {idle_thread} : dispatch(t)
         \/ \E n \in Nices : thread_set_nice(n)
         \/ update_priority
         \/ update_store
         \/ \E t \in MThreads : lock_acquire(t)
         \/ \E p \in PRI_MIN..PRI_MAX : lock_release(p)

-----------------------------------------------------------------------------
(* Properties *)

LessCpu(t, u) == recent_cpu[t] <= recent_cpu[u] /\ nice[t] <= nice[u]

\* After a tick that recomputes the priorities, of two threads the scheduler
\* has judged since (no lock and no thread_set_nice under way or finished
\* late has written theirs), the one that used no more CPU and is no nicer has
\* at least the other's priority; and load_avg lies between 0 and the number of
\* threads.  Rounding, truncation and the clamp keep the order, also for
\* negative recent_cpu, and no thread is judged by a recent_cpu from before
\* the decay of the same tick.
CpuLowersPriority ==
    /\ load_avg \in 0..int_to_fp(Cardinality(MThreads))
    /\ ticks > 0 /\ ticks % 4 = 0 => \A t, u \in MThreads \ touched :
           LessCpu(t, u) => priority[t] >= priority[u]

\* "Donation is only valid for the basic scheduler" (thread.c:461): with no
\* thread inside thread_set_nice the order holds for all threads.  It does
\* not: lock_acquire and lock_release write priorities under mlfqs too.
DonationOnlyBasic ==
    ticks > 0 /\ ticks % 4 = 0 /\ (\A t \in MThreads : local[t] = NoCall) =>
       \A t, u \in MThreads : LessCpu(t, u) => priority[t] >= priority[u]
=============================================================================
