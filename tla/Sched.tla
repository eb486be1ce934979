------------------------------- MODULE Sched -------------------------------
(***************************************************************************)
(* The scheduler (threads/thread.c) and the semaphores and locks with      *)
(* priority donation (threads/synch.c) of one CPU.                         *)
(*                                                                         *)
(* Only the running thread takes steps, plus interrupts while they are     *)
(* enabled.  A step is a piece of C code that no interrupt can divide in a *)
(* way another thread could notice: code between intr_disable and          *)
(* intr_set_level is one step, and the code of lock_acquire, lock_release, *)
(* thread_create and thread_set_priority, which runs with interrupts on,   *)
(* is divided where another thread can change what it has read: the test   *)
(* and the store of a priority, and every reading of a pending_lock, are   *)
(* steps of their own.  Two things stay undivided: the manipulation of one *)
(* list with interrupts on (a sort, an insertion, a removal), and the      *)
(* malloc of create_donation, whose descriptor lock is not taken here.     *)
(*                                                                         *)
(* A plain semaphore is a member of Semas; the semaphore inside a lock is  *)
(* named by the lock itself.  IntrSemas are the ones an external interrupt *)
(* handler ups (disk completion, keyboard, serial).                        *)
(***************************************************************************)
EXTENDS KernelList, FiniteSets

CONSTANTS
  Threads,     \* slots for struct thread, the idle thread excepted
  Main,        \* initial_thread
  Idle,        \* idle_thread
  Locks,       \* struct lock objects
  TidLock,     \* tid_lock, taken by allocate_tid
  Semas,       \* other struct semaphore objects
  IntrSemas,   \* those an interrupt handler may up
  Prio,        \* the priorities in use
  NewPrio,     \* those given to thread_create
  SetPrio,     \* those given to thread_set_priority
  MainPrio,    \* PRI_DEFAULT
  IdlePrio,    \* PRI_MIN
  TIME_SLICE,  \* timer ticks per time slice
  MaxValue,    \* bound on the value of a plain semaphore
  None         \* the null pointer

ASSUME ThreadsAssumption ==
  /\ IsFiniteSet(Threads)
  /\ Main \in Threads /\ Idle \notin Threads
  /\ None \notin Threads /\ None # Idle

ASSUME SyncAssumption ==
  /\ TidLock \in Locks
  /\ Locks \cap Semas = {}
  /\ None \notin Locks \cup Semas
  /\ IntrSemas \subseteq Semas

ASSUME PrioAssumption ==
  /\ Prio \subseteq Nat
  /\ MainPrio \in Prio /\ IdlePrio \in Prio
  /\ NewPrio \subseteq Prio /\ SetPrio \subseteq Prio

ASSUME BoundsAssumption ==
  TIME_SLICE \in Nat \ {0} /\ MaxValue \in Nat

VARIABLES
  cur,                \* the running thread
  status,             \* thread->status; "NONE" is a page not in use
  ready_list,
  thread_ticks,       \* ticks since the last schedule()
  priority,           \* thread->priority, donations included
  original_priority,
  donations,          \* what thread->donations holds: lock and priority
  pending_lock,
  value,              \* sema->value
  waiters,            \* sema->waiters
  holder,             \* lock->holder
  pc,                 \* where the thread is
  op,                 \* the semaphore or lock its call is about
  ret,                \* where a lock call returns to
  pending,            \* local `pending' of lock_acquire
  hldr,               \* local `holder' of lock_acquire
  gift,               \* a priority read and not yet stored: in create_donation,
                      \* recalc_priority and thread_set_priority
  child               \* the thread that thread_create is making

Thread == Threads \cup {Idle}
Sema   == Locks \cup Semas

cpuVars   == <<cur, status, ready_list, thread_ticks>>
prioVars  == <<priority, original_priority, donations>>
lockVars  == <<holder, pending_lock>>
semaVars  == <<value, waiters>>
localVars == <<pending, hldr, gift>>
callVars  == <<op, ret, child>>
vars == <<cur, status, ready_list, thread_ticks, priority, original_priority,
          donations, pending_lock, value, waiters, holder, pc, op, ret,
          pending, hldr, gift, child>>

Labels == {"run", "hlt", "loop", "acq_read", "acq_cmp", "acq_donate",
           "acq_raise", "acq_store", "acq_insert", "acq_test", "acq_sort",
           "acq_next", "acq_down", "down_wait", "acq_set", "try_set",
           "rel_recalc", "rel_front", "rel_raise", "rel_store", "rel_null",
           "rel_up", "set_read", "set_store", "cmp",
           "create_rel", "create_ready", "create_cmp", "panic"}

Returns == {"run", "create_rel", "create_ready"}

Donation == [lock : Locks, priority : Prio]

Status == {"NONE", "RUNNING", "READY", "BLOCKED", "DYING"}

TypeOK ==
  /\ cur \in Thread
  /\ status \in [Thread -> Status]
  /\ ready_list \in Seq(Threads)
  /\ thread_ticks \in 0 .. TIME_SLICE
  /\ priority \in [Thread -> Prio]
  /\ original_priority \in [Thread -> Prio]
  /\ donations \in [Threads -> SUBSET Donation]
  /\ pending_lock \in [Threads -> Locks \cup {None}]
  /\ value \in [Sema -> Nat]
  /\ waiters \in [Sema -> Seq(Threads)]
  /\ holder \in [Locks -> Threads \cup {None}]
  /\ pc \in [Thread -> Labels]
  /\ op \in [Threads -> Sema \cup {None}]
  /\ ret \in [Threads -> Returns]
  /\ pending \in [Threads -> Locks \cup {None}]
  /\ hldr \in [Threads -> Threads \cup {None}]
  /\ gift \in [Threads -> Prio]
  /\ child \in [Threads -> Threads \cup {None}]

\* After thread_init and thread_start: main runs, idle waits to be dispatched.
Init ==
  /\ cur = Main
  /\ status = [t \in Thread |-> IF t = Main THEN "RUNNING"
                                ELSE IF t = Idle THEN "BLOCKED" ELSE "NONE"]
  /\ ready_list = <<>>
  /\ thread_ticks = 0
  /\ priority = [t \in Thread |-> IF t = Main THEN MainPrio ELSE IdlePrio]
  /\ original_priority = priority
  /\ donations = [t \in Threads |-> {}]
  /\ pending_lock = [t \in Threads |-> None]
  /\ value = [s \in Sema |-> IF s \in Locks THEN 1 ELSE 0]
  /\ waiters = [s \in Sema |-> <<>>]
  /\ holder = [l \in Locks |-> None]
  /\ pc = [t \in Thread |-> IF t = Idle THEN "hlt" ELSE "run"]
  /\ op = [t \in Threads |-> None]
  /\ ret = [t \in Threads |-> "run"]
  /\ pending = [t \in Threads |-> None]
  /\ hldr = [t \in Threads |-> None]
  /\ gift = [t \in Threads |-> IdlePrio]
  /\ child = [t \in Threads |-> None]

-----------------------------------------------------------------------------
(* Dispatching.  st and rl are the statuses and the run queue at the point *)
(* of the call, which may already differ from the variables in this step.  *)

next_thread_to_run(rl) == IF rl = <<>> THEN Idle ELSE Head(rl)

schedule(st, rl) ==
  /\ cur' = next_thread_to_run(rl)
  /\ ready_list' = IF rl = <<>> THEN rl ELSE Tail(rl)
  /\ status' = [st EXCEPT ![next_thread_to_run(rl)] = "RUNNING"]
  /\ thread_ticks' = 0

\* do_schedule first frees the pages on destruction_req: every dying thread
\* but the initial one was put there when it was switched away from.
reap(st) ==
  [t \in Thread |-> IF st[t] = "DYING" /\ t # Main THEN "NONE" ELSE st[t]]

do_schedule(new, st, rl) == schedule([reap(st) EXCEPT ![cur] = new], rl)

thread_block == schedule([status EXCEPT ![cur] = "BLOCKED"], ready_list)

\* The idle thread is never on the run queue.
thread_yield(st, rl) ==
  \E q \in IF cur = Idle THEN {rl} ELSE InsertOrdered(rl, cur, priority) :
    do_schedule("READY", st, q)

\* compare_cur_next_priority; in an interrupt handler the yield is deferred
\* to the return from the interrupt, which is the end of the same step.
compare_cur_next_priority(st, rl) ==
  \E q \in ListSort(rl, priority) :
    IF q # <<>> /\ priority[next_thread_to_run(q)] > priority[cur]
    THEN thread_yield(st, q)
    ELSE /\ ready_list' = q
         /\ status' = st
         /\ UNCHANGED <<cur, thread_ticks>>

-----------------------------------------------------------------------------
(* Semaphores: each body runs with interrupts off.                         *)

\* One pass of the loop of sema_down; a woken thread tests the value again.
sema_down(t, s, done) ==
  \/ /\ value[s] = 0
     /\ \E w \in InsertOrdered(waiters[s], t, priority) :
          waiters' = [waiters EXCEPT ![s] = w]
     /\ thread_block
     /\ pc' = [pc EXCEPT ![t] = "down_wait"]
     /\ op' = [op EXCEPT ![t] = s]
     /\ UNCHANGED value
  \/ /\ value[s] > 0
     /\ value' = [value EXCEPT ![s] = @ - 1]
     /\ pc' = [pc EXCEPT ![t] = done]
     /\ op' = [op EXCEPT ![t] = IF s \in Locks THEN s ELSE None]
     /\ UNCHANGED <<waiters, cpuVars>>

\* Mutant: the woken thread stays in the queue (no list_pop_front).
sema_up_NoPop(s) ==
  /\ value' = [value EXCEPT ![s] = @ + 1]
  /\ UNCHANGED waiters
  /\ \/ /\ waiters[s] = <<>>
        /\ compare_cur_next_priority(status, ready_list)
     \/ /\ waiters[s] # <<>>
        /\ \E w \in ListSort(waiters[s], priority) :
             \E rl \in InsertOrdered(ready_list, Head(w), priority) :
               compare_cur_next_priority([status EXCEPT ![Head(w)] = "READY"], rl)

\* Mutant: the value is raised and nobody is woken.
sema_up_NoWake(s) ==
  /\ value' = [value EXCEPT ![s] = @ + 1]
  /\ compare_cur_next_priority(status, ready_list)
  /\ UNCHANGED waiters

\* The value is raised even when a waiter is woken: nothing is handed over.
sema_up(s) ==
  /\ value' = [value EXCEPT ![s] = @ + 1]
  /\ \/ /\ waiters[s] = <<>>
        /\ compare_cur_next_priority(status, ready_list)
        /\ UNCHANGED waiters
     \/ /\ waiters[s] # <<>>
        /\ \E w \in ListSort(waiters[s], priority) :
             /\ waiters' = [waiters EXCEPT ![s] = Tail(w)]
             /\ \E rl \in InsertOrdered(ready_list, Head(w), priority) :
                  compare_cur_next_priority(
                    [status EXCEPT ![Head(w)] = "READY"], rl)

SemaDown(t, s) ==
  /\ pc[t] = "run"
  /\ sema_down(t, s, "run")
  /\ UNCHANGED <<prioVars, lockVars, localVars, ret, child>>

\* Mutant: `if' instead of `while', the woken thread takes the unit untested.
SemaRecheck_NoRetest(t) ==
  /\ pc[t] = "down_wait"
  /\ value' = [value EXCEPT ![op[t]] = IF @ = 0 THEN 0 ELSE @ - 1]
  /\ pc' = [pc EXCEPT ![t] = IF op[t] \in Locks THEN "acq_set" ELSE "run"]
  /\ op' = [op EXCEPT ![t] = IF @ \in Locks THEN @ ELSE None]
  /\ UNCHANGED <<waiters, cpuVars, prioVars, lockVars, localVars, ret, child>>

SemaRecheck(t) ==
  /\ pc[t] = "down_wait"
  /\ sema_down(t, op[t], IF op[t] \in Locks THEN "acq_set" ELSE "run")
  /\ UNCHANGED <<prioVars, lockVars, localVars, ret, child>>

\* Mutant: the value is not tested.
SemaTryDown_NoTest(t, s) ==
  /\ pc[t] = "run"
  /\ value' = [value EXCEPT ![s] = @ - 1]
  /\ UNCHANGED <<cpuVars, prioVars, lockVars, localVars, callVars, waiters, pc>>

SemaTryDown(t, s) ==
  /\ pc[t] = "run"
  /\ value[s] > 0
  /\ value' = [value EXCEPT ![s] = @ - 1]
  /\ UNCHANGED <<cpuVars, prioVars, lockVars, localVars, callVars, waiters, pc>>

SemaUp(t, s) ==
  /\ pc[t] = "run"
  /\ value[s] < MaxValue
  /\ sema_up(s)
  /\ UNCHANGED <<prioVars, lockVars, localVars, callVars, pc>>

-----------------------------------------------------------------------------
(* Locks.                                                                  *)

\* lock_acquire up to the start of its loop.
lock_acquire(t, l, r) ==
  /\ holder[l] # t
  /\ op' = [op EXCEPT ![t] = l]
  /\ ret' = [ret EXCEPT ![t] = r]
  /\ \/ /\ holder[l] = None
        /\ pc' = [pc EXCEPT ![t] = "acq_down"]
        /\ UNCHANGED <<pending, pending_lock>>
     \/ /\ holder[l] # None
        /\ pending_lock' = [pending_lock EXCEPT ![t] = l]
        /\ pending' = [pending EXCEPT ![t] = l]
        /\ pc' = [pc EXCEPT ![t] = "acq_read"]
  /\ UNCHANGED <<cpuVars, semaVars, holder, hldr, gift>>

LockAcquire(t, l) ==
  /\ pc[t] = "run"
  /\ lock_acquire(t, l, "run")
  /\ UNCHANGED <<prioVars, child>>

\* Loop head: read the holder, stop if there is none.
AcqRead(t) ==
  /\ pc[t] = "acq_read"
  /\ LET h == holder[pending[t]] IN
     \/ /\ h = None
        /\ pc' = [pc EXCEPT ![t] = "acq_down"]
        /\ pending' = [pending EXCEPT ![t] = None]
        /\ UNCHANGED hldr
     \/ /\ h # None
        /\ pc' = [pc EXCEPT ![t] = "acq_cmp"]
        /\ hldr' = [hldr EXCEPT ![t] = h]
        /\ UNCHANGED pending
  /\ UNCHANGED <<cpuVars, prioVars, lockVars, semaVars, callVars, gift>>

\* The other half of the test: stop if the thread read as the holder is above.
AcqCompare(t) ==
  /\ pc[t] = "acq_cmp"
  /\ \/ /\ priority[t] < priority[hldr[t]]
        /\ pc' = [pc EXCEPT ![t] = "acq_down"]
        /\ pending' = [pending EXCEPT ![t] = None]
        /\ hldr' = [hldr EXCEPT ![t] = None]
     \/ /\ priority[t] >= priority[hldr[t]]
        /\ pc' = [pc EXCEPT ![t] = "acq_donate"]
        /\ UNCHANGED <<pending, hldr>>
  /\ UNCHANGED <<cpuVars, prioVars, lockVars, semaVars, callVars, gift>>

\* create_donation records the priority of the moment.
AcqDonate(t) ==
  /\ pc[t] = "acq_donate"
  /\ gift' = [gift EXCEPT ![t] = priority[t]]
  /\ pc' = [pc EXCEPT ![t] = "acq_raise"]
  /\ UNCHANGED <<cpuVars, prioVars, lockVars, semaVars, callVars, pending, hldr>>

\* Is the thread read as the holder below us?
AcqRaise(t) ==
  /\ pc[t] = "acq_raise"
  /\ pc' = [pc EXCEPT ![t] = IF priority[hldr[t]] < priority[t]
                             THEN "acq_store" ELSE "acq_insert"]
  /\ UNCHANGED <<cpuVars, prioVars, lockVars, semaVars, localVars, callVars>>

\* It was a moment ago: it gets our priority, whatever its own is by now.
AcqStore(t) ==
  /\ pc[t] = "acq_store"
  /\ priority' = [priority EXCEPT ![hldr[t]] = priority[t]]
  /\ pc' = [pc EXCEPT ![t] = "acq_insert"]
  /\ UNCHANGED <<cpuVars, lockVars, semaVars, localVars, callVars,
                 original_priority, donations>>

\* Record the donation.
AcqInsert(t) ==
  /\ pc[t] = "acq_insert"
  /\ donations' = [donations EXCEPT ![hldr[t]] =
                     @ \cup {[lock |-> pending[t], priority |-> gift[t]]}]
  /\ gift' = [gift EXCEPT ![t] = IdlePrio]
  /\ pc' = [pc EXCEPT ![t] = "acq_test"]
  /\ UNCHANGED <<cpuVars, lockVars, callVars, semaVars, priority,
                 original_priority, pending, hldr>>

\* First reading of the holder's pending_lock: does it wait for a lock?
AcqTest(t) ==
  /\ pc[t] = "acq_test"
  /\ pc' = [pc EXCEPT ![t] = IF pending_lock[hldr[t]] # None
                             THEN "acq_sort" ELSE "acq_next"]
  /\ UNCHANGED <<cpuVars, prioVars, lockVars, semaVars, localVars, callVars>>

\* Second reading: sort the queue it waits in.  If it has got its lock since
\* the test, the list is at the null pointer, and sorting it is a page fault in
\* the kernel: a panic, after which nothing runs.
AcqSort(t) ==
  /\ pc[t] = "acq_sort"
  /\ LET next == pending_lock[hldr[t]] IN
     \/ /\ next = None
        /\ pc' = [pc EXCEPT ![t] = "panic"]
        /\ UNCHANGED waiters
     \/ /\ next # None
        /\ pc' = [pc EXCEPT ![t] = "acq_next"]
        /\ \E w \in ListSort(waiters[next], priority) :
             waiters' = [waiters EXCEPT ![next] = w]
  /\ UNCHANGED <<cpuVars, prioVars, lockVars, localVars, callVars, value>>

\* Third reading: the lock to go on with.
AcqNext(t) ==
  /\ pc[t] = "acq_next"
  /\ pending' = [pending EXCEPT ![t] = pending_lock[hldr[t]]]
  /\ hldr' = [hldr EXCEPT ![t] = None]
  /\ pc' = [pc EXCEPT ![t] = IF pending_lock[hldr[t]] = None
                             THEN "acq_down" ELSE "acq_read"]
  /\ UNCHANGED <<cpuVars, prioVars, lockVars, semaVars, callVars, gift>>

AcqDown(t) ==
  /\ pc[t] = "acq_down"
  /\ sema_down(t, op[t], "acq_set")
  /\ UNCHANGED <<prioVars, lockVars, localVars, ret, child>>

AcqSet(t) ==
  /\ pc[t] = "acq_set"
  /\ pending_lock' = [pending_lock EXCEPT ![t] = None]
  /\ holder' = [holder EXCEPT ![op[t]] = t]
  /\ op' = [op EXCEPT ![t] = None]
  /\ pc' = [pc EXCEPT ![t] = ret[t]]
  /\ UNCHANGED <<cpuVars, prioVars, semaVars, localVars, ret, child>>

\* lock_try_acquire when it succeeds: the down, then the holder.
LockTryAcquire(t, l) ==
  /\ pc[t] = "run"
  /\ holder[l] # t
  /\ value[l] > 0
  /\ value' = [value EXCEPT ![l] = @ - 1]
  /\ op' = [op EXCEPT ![t] = l]
  /\ pc' = [pc EXCEPT ![t] = "try_set"]
  /\ UNCHANGED <<cpuVars, prioVars, lockVars, localVars, waiters, ret, child>>

TrySet(t) ==
  /\ pc[t] = "try_set"
  /\ holder' = [holder EXCEPT ![op[t]] = t]
  /\ op' = [op EXCEPT ![t] = None]
  /\ pc' = [pc EXCEPT ![t] = "run"]
  /\ UNCHANGED <<cpuVars, prioVars, semaVars, localVars, pending_lock, ret, child>>

\* lock_release starts with remove_donation_for_lock.
lock_release(t, l, r) ==
  /\ holder[l] = t
  /\ donations' = [donations EXCEPT ![t] = {d \in @ : d.lock # l}]
  /\ op' = [op EXCEPT ![t] = l]
  /\ ret' = [ret EXCEPT ![t] = r]
  /\ pc' = [pc EXCEPT ![t] = "rel_recalc"]
  /\ UNCHANGED <<cpuVars, lockVars, semaVars, localVars, child,
                 priority, original_priority>>

LockRelease(t, l) ==
  /\ pc[t] = "run"
  /\ lock_release(t, l, "run")

\* recalc_priority starts from the thread's own priority.
recalc_priority(t) ==
  /\ pc[t] = "rel_recalc"
  /\ priority' = [priority EXCEPT ![t] = original_priority[t]]
  /\ pc' = [pc EXCEPT ![t] = "rel_front"]
  /\ UNCHANGED <<cpuVars, lockVars, semaVars, localVars, callVars,
                 original_priority, donations>>

\* The sorted list of donations: its front has the greatest priority.
RecalcFront(t) ==
  /\ pc[t] = "rel_front"
  /\ \/ /\ donations[t] = {}
        /\ pc' = [pc EXCEPT ![t] = "rel_null"]
        /\ UNCHANGED gift
     \/ /\ \E d \in donations[t] :
             /\ \A e \in donations[t] : e.priority <= d.priority
             /\ gift' = [gift EXCEPT ![t] = d.priority]
        /\ pc' = [pc EXCEPT ![t] = "rel_raise"]
  /\ UNCHANGED <<cpuVars, prioVars, lockVars, semaVars, callVars, pending, hldr>>

RecalcRaise(t) ==
  /\ pc[t] = "rel_raise"
  /\ \/ /\ priority[t] < gift[t]
        /\ pc' = [pc EXCEPT ![t] = "rel_store"]
        /\ UNCHANGED gift
     \/ /\ priority[t] >= gift[t]
        /\ pc' = [pc EXCEPT ![t] = "rel_null"]
        /\ gift' = [gift EXCEPT ![t] = IdlePrio]
  /\ UNCHANGED <<cpuVars, prioVars, lockVars, semaVars, callVars, pending, hldr>>

RecalcStore(t) ==
  /\ pc[t] = "rel_store"
  /\ priority' = [priority EXCEPT ![t] = gift[t]]
  /\ gift' = [gift EXCEPT ![t] = IdlePrio]
  /\ pc' = [pc EXCEPT ![t] = "rel_null"]
  /\ UNCHANGED <<cpuVars, lockVars, semaVars, callVars, original_priority,
                 donations, pending, hldr>>

\* Mutant: the holder field is not cleared.
RelNull_Keep(t) ==
  /\ pc[t] = "rel_null"
  /\ pc' = [pc EXCEPT ![t] = "rel_up"]
  /\ UNCHANGED <<cpuVars, prioVars, semaVars, localVars, callVars, lockVars>>

RelNull(t) ==
  /\ pc[t] = "rel_null"
  /\ holder' = [holder EXCEPT ![op[t]] = None]
  /\ pc' = [pc EXCEPT ![t] = "rel_up"]
  /\ UNCHANGED <<cpuVars, prioVars, semaVars, localVars, callVars, pending_lock>>

RelUp(t) ==
  /\ pc[t] = "rel_up"
  /\ sema_up(op[t])
  /\ op' = [op EXCEPT ![t] = None]
  /\ pc' = [pc EXCEPT ![t] = "cmp"]
  /\ UNCHANGED <<prioVars, lockVars, localVars, ret, child>>

\* compare_cur_next_priority called with interrupts on.  The sort of the run
\* queue takes effect at one instant; an interrupt in the middle of it is not
\* modelled.
Compare(t) ==
  /\ pc[t] = "cmp"
  /\ compare_cur_next_priority(status, ready_list)
  /\ pc' = [pc EXCEPT ![t] = ret[t]]
  /\ ret' = [ret EXCEPT ![t] = "run"]
  /\ UNCHANGED <<prioVars, lockVars, semaVars, localVars, op, child>>

-----------------------------------------------------------------------------
(* Threads.                                                                *)

\* thread_set_priority: the own priority first.
SetPriority(t, new) ==
  /\ pc[t] = "run"
  /\ original_priority' = [original_priority EXCEPT ![t] = new]
  /\ pc' = [pc EXCEPT ![t] = "set_read"]
  /\ UNCHANGED <<cpuVars, lockVars, semaVars, localVars, callVars,
                 priority, donations>>

\* m is the greatest of t's own priority and the ones donated to it.
IsEffective(t, own, m) ==
  LET all == {own} \cup {d.priority : d \in donations[t]} IN
  m \in all /\ \A x \in all : x <= m

\* Then what the list of donations says at this moment ...
SetRead(t) ==
  /\ pc[t] = "set_read"
  /\ \E m \in Prio :
       /\ IsEffective(t, original_priority[t], m)
       /\ gift' = [gift EXCEPT ![t] = m]
  /\ pc' = [pc EXCEPT ![t] = "set_store"]
  /\ UNCHANGED <<cpuVars, prioVars, lockVars, semaVars, callVars, pending, hldr>>

\* ... is stored, whatever was donated in between.
SetStore(t) ==
  /\ pc[t] = "set_store"
  /\ priority' = [priority EXCEPT ![t] = gift[t]]
  /\ gift' = [gift EXCEPT ![t] = IdlePrio]
  /\ pc' = [pc EXCEPT ![t] = "cmp"]
  /\ UNCHANGED <<cpuVars, lockVars, semaVars, callVars, original_priority,
                 donations, pending, hldr>>

\* thread_create: a fresh page, init_thread, then allocate_tid's lock.
ThreadCreate(t, u, p) ==
  /\ pc[t] = "run"
  /\ status[u] = "NONE"
  /\ holder[TidLock] # t
  /\ op' = [op EXCEPT ![t] = TidLock]
  /\ ret' = [ret EXCEPT ![t] = "create_rel"]
  /\ status' = [status EXCEPT ![u] = "BLOCKED"]
  /\ priority' = [priority EXCEPT ![u] = p]
  /\ original_priority' = [original_priority EXCEPT ![u] = p]
  /\ donations' = [donations EXCEPT ![u] = {}]
  /\ child' = [child EXCEPT ![t] = u]
  /\ \/ /\ holder[TidLock] = None
        /\ pc' = [pc EXCEPT ![t] = "acq_down"]
        /\ pending_lock' = [pending_lock EXCEPT ![u] = None]
        /\ UNCHANGED pending
     \/ /\ holder[TidLock] # None
        /\ pc' = [pc EXCEPT ![t] = "acq_read"]
        /\ pending_lock' = [pending_lock EXCEPT ![u] = None, ![t] = TidLock]
        /\ pending' = [pending EXCEPT ![t] = TidLock]
  /\ UNCHANGED <<cur, ready_list, thread_ticks, semaVars, holder, hldr, gift>>

CreateRel(t) ==
  /\ pc[t] = "create_rel"
  /\ lock_release(t, TidLock, "create_ready")

\* thread_unblock of the new thread.
CreateReady(t) ==
  /\ pc[t] = "create_ready"
  /\ ready_list' \in InsertOrdered(ready_list, child[t], priority)
  /\ status' = [status EXCEPT ![child[t]] = "READY"]
  /\ pc' = [pc EXCEPT ![t] = "create_cmp"]
  /\ UNCHANGED <<cur, thread_ticks, prioVars, lockVars, semaVars, localVars, callVars>>

\* The comparison at the end of thread_create reads the new thread again.
CreateCompare(t) ==
  /\ pc[t] = "create_cmp"
  /\ \/ /\ priority[child[t]] > priority[t]
        /\ thread_yield(status, ready_list)
     \/ /\ priority[child[t]] <= priority[t]
        /\ UNCHANGED cpuVars
  /\ pc' = [pc EXCEPT ![t] = "run"]
  /\ child' = [child EXCEPT ![t] = None]
  /\ UNCHANGED <<prioVars, lockVars, semaVars, localVars, op, ret>>

ThreadYield(t) ==
  /\ pc[t] = "run"
  /\ thread_yield(status, ready_list)
  /\ UNCHANGED <<prioVars, lockVars, semaVars, localVars, callVars, pc>>

\* process_exit, which thread_exit calls first, ends in sema_down(&free_sema),
\* and only process_wait of the parent ups it: by then the parent has left the
\* thread_create that made this thread.  (The comment of thread_create, that the
\* new thread "could even exit before thread_create() returns", is about the
\* kernel built without user programs.)
process_exit(t) == \A u \in Threads : child[u] # t

\* thread_exit.  A thread gives back its locks before it exits.
ThreadExit(t) ==
  /\ pc[t] = "run"
  /\ \A l \in Locks : holder[l] # t
  /\ process_exit(t)
  /\ do_schedule("DYING", status, ready_list)
  /\ UNCHANGED <<prioVars, lockVars, semaVars, localVars, callVars, pc>>

-----------------------------------------------------------------------------
(* Interrupts and the idle thread.                                         *)

\* A thread that resumes inside sema_down has interrupts off; so has a kernel
\* that panicked.
IntrOn == pc[cur] \notin {"down_wait", "panic"}

\* hlt returns after any interrupt.
WakeHlt == pc' = [pc EXCEPT ![Idle] = IF cur = Idle THEN "loop" ELSE @]

\* timer_interrupt with thread_tick: the end of a time slice yields on return.
\* Threads of this model do not call timer_sleep, so wake_up has nothing to do
\* (module Alarm).
TimerTick ==
  /\ IntrOn
  /\ \/ /\ thread_ticks + 1 >= TIME_SLICE
        /\ thread_yield(status, ready_list)
     \/ /\ thread_ticks + 1 < TIME_SLICE
        /\ thread_ticks' = thread_ticks + 1
        /\ UNCHANGED <<cur, status, ready_list>>
  /\ WakeHlt
  /\ UNCHANGED <<prioVars, lockVars, semaVars, localVars, callVars>>

\* Any other external interrupt whose handler ups a semaphore.
IntrSemaUp(s) ==
  /\ IntrOn
  /\ value[s] < MaxValue
  /\ sema_up(s)
  /\ WakeHlt
  /\ UNCHANGED <<prioVars, lockVars, localVars, callVars>>

\* Mutant: the idle thread halts again without blocking first.
IdleBlock_HaltOnly ==
  /\ cur = Idle
  /\ pc[Idle] = "loop"
  /\ pc' = [pc EXCEPT ![Idle] = "hlt"]
  /\ UNCHANGED <<cpuVars, prioVars, lockVars, semaVars, localVars, callVars>>

\* The loop of idle(): block, and when dispatched again, sti; hlt.
IdleBlock ==
  /\ cur = Idle
  /\ pc[Idle] = "loop"
  /\ thread_block
  /\ pc' = [pc EXCEPT ![Idle] = "hlt"]
  /\ UNCHANGED <<prioVars, lockVars, semaVars, localVars, callVars>>

-----------------------------------------------------------------------------
\* A call that running code may make.
Call(t) ==
  \/ \E s \in Semas : SemaDown(t, s) \/ SemaTryDown(t, s) \/ SemaUp(t, s)
  \/ \E l \in Locks \ {TidLock} :
       LockAcquire(t, l) \/ LockTryAcquire(t, l) \/ LockRelease(t, l)
  \/ \E p \in SetPrio : SetPriority(t, p)
  \/ \E u \in Threads, p \in NewPrio : ThreadCreate(t, u, p)
  \/ ThreadYield(t)
  \/ ThreadExit(t)

\* The next step of a call in progress.
Continue(t) ==
  \/ SemaRecheck(t)
  \/ AcqRead(t) \/ AcqCompare(t) \/ AcqDonate(t) \/ AcqRaise(t) \/ AcqStore(t)
  \/ AcqInsert(t) \/ AcqTest(t) \/ AcqSort(t) \/ AcqNext(t)
  \/ AcqDown(t) \/ AcqSet(t) \/ TrySet(t)
  \/ recalc_priority(t) \/ RecalcFront(t) \/ RecalcRaise(t) \/ RecalcStore(t)
  \/ RelNull(t) \/ RelUp(t) \/ SetRead(t) \/ SetStore(t) \/ Compare(t)
  \/ CreateRel(t) \/ CreateReady(t) \/ CreateCompare(t)

Interrupt == TimerTick \/ \E s \in IntrSemas : IntrSemaUp(s)

Next ==
  \/ \E t \in Threads : cur = t /\ (Call(t) \/ Continue(t))
  \/ IdleBlock
  \/ Interrupt

Spec == Init /\ [][Next]_vars

-----------------------------------------------------------------------------
(* Properties.                                                             *)

\* How the program counter, the operand and the return point of a thread
\* belong together: what the locals of a C function in progress hold.
DonatePcs == {"acq_cmp", "acq_donate", "acq_raise", "acq_store", "acq_insert",
              "acq_test", "acq_sort", "acq_next"}
ReleasePcs == {"rel_recalc", "rel_front", "rel_raise", "rel_store", "rel_null"}
LockPcs == DonatePcs \cup ReleasePcs
             \cup {"acq_read", "acq_down", "acq_set", "try_set", "rel_up"}

CallsConsistent ==
  /\ pc[Idle] \in {"hlt", "loop"}
  /\ \A t \in Threads :
       /\ pc[t] \notin {"hlt", "loop"}
       /\ pc[t] \in LockPcs => op[t] \in Locks
       /\ pc[t] = "down_wait" => op[t] \in Sema
       /\ pc[t] \in DonatePcs \cup {"acq_read"} => pending[t] \in Locks
       /\ pc[t] \in DonatePcs => hldr[t] \in Threads
       /\ pc[t] \in {"run", "try_set", "create_ready", "create_cmp",
                     "set_read", "set_store"}
            => ret[t] = "run"
       /\ pc[t] = "down_wait" /\ op[t] \in Semas => ret[t] = "run"
       /\ pc[t] = "create_rel" => ret[t] = "create_rel"
       /\ pc[t] \in ReleasePcs \cup {"rel_up", "cmp"} => ret[t] # "create_rel"
       /\ ret[t] = "create_ready" => pc[t] \in ReleasePcs \cup {"rel_up", "cmp"}
       /\ child[t] # None <=>
            \/ ret[t] # "run"
            \/ pc[t] \in {"create_ready", "create_cmp"}

\* A thread that does not exist, or is about to cease to, is in no call.
DeadAtRest ==
  \A t \in Threads : status[t] \in {"NONE", "DYING"} => pc[t] = "run"

\* The claim of the comment on `elem' in include/threads/thread.h: the one
\* list element of a thread is shared by the run queue and all semaphore
\* queues because no thread is ever on two of them, nor twice on one; the
\* ready threads are exactly those on the run queue, and a thread is in the
\* queue of a semaphore exactly while it is blocked in a sema_down on it.
ElemExclusive ==
  /\ \A t \in Thread : status[t] = "RUNNING" <=> cur = t
  /\ NoDup(ready_list)
  /\ \A t \in Threads : t \in Range(ready_list) <=> status[t] = "READY"
  /\ \A s \in Sema :
       /\ NoDup(waiters[s])
       /\ \A t \in Threads : t \in Range(waiters[s]) <=>
            status[t] = "BLOCKED" /\ pc[t] = "down_wait" /\ op[t] = s

\* t is past the sema_down of l and not yet past its sema_up; the holder field
\* is late by a few instructions at both ends.
Owns(t, l) ==
  \/ holder[l] = t
  \/ op[t] = l /\ pc[t] \in {"acq_set", "try_set", "rel_up"}

\* A lock has at most one owner, whatever the interleaving of lock_acquire,
\* lock_try_acquire and lock_release, and its semaphore is 0 exactly while it
\* has one (synch.c, the comment above lock_init).
LockExclusive ==
  \A l \in Locks :
    /\ value[l] \in {0, 1}
    /\ value[l] = 0 <=> \E t \in Threads : Owns(t, l)
    /\ \A t, u \in Threads : Owns(t, l) /\ Owns(u, l) => t = u

\* A thread inside lock_release still is the holder until it clears the field,
\* and is not any more when it ups the semaphore.
ReleaseConsistent ==
  \A t \in Threads :
    /\ pc[t] \in ReleasePcs => holder[op[t]] = t
    /\ pc[t] \in {"acq_set", "try_set", "rel_up"} => holder[op[t]] # t

\* The threads that were woken from the queue of s and have not yet tested
\* the value again.
Woken(s) ==
  {t \in Threads : pc[t] = "down_wait" /\ op[t] = s /\ status[t] # "BLOCKED"}

\* No wakeup of sema_up is lost: while threads sleep in the queue of s, every
\* unit of its value is one that an already woken thread will come to take
\* (or that a thread that never slept takes in its place).
NoLostWakeup ==
  \A s \in Sema : waiters[s] # <<>> => value[s] <= Cardinality(Woken(s))

\* The idle thread halts the CPU only when no thread is ready: the run queue
\* is not filled between its last look at it and the hlt instruction.
HaltOnlyWhenIdle == cur = Idle /\ pc[Idle] = "hlt" => ready_list = <<>>

\* A thread being made by thread_create is in no queue and on no CPU until
\* thread_create unblocks it, and its page is not freed before thread_create
\* has read it for the last time: process_exit sees to that.
NewbornProtected ==
  \A t \in Threads : child[t] # None =>
    /\ status[child[t]] \notin {"NONE", "DYING"}
    /\ pc[t] # "create_cmp" => status[child[t]] = "BLOCKED" /\ pc[child[t]] = "run"
    /\ \A u \in Threads : child[u] = child[t] => u = t

\* The holder field only goes from nobody to the running thread and from the
\* running thread to nobody: no step takes a lock away from a thread.
HolderHandover ==
  [][\A l \in Locks : holder'[l] # holder[l] =>
       \/ holder[l] = None /\ holder'[l] = cur
       \/ holder[l] = cur /\ holder'[l] = None]_vars

-----------------------------------------------------------------------------
(* Liveness.  The timer keeps interrupting: a tick that arrives while       *)
(* interrupts are off is delivered when they are on again, which is strong  *)
(* fairness.  A CPU with interrupts off goes on executing.                  *)

FairSpec ==
  /\ Spec
  /\ SF_vars(TimerTick)
  /\ WF_vars(\E t \in Threads : cur = t /\ SemaRecheck(t))

\* Round robin: among threads of equal priority every ready thread runs
\* sooner or later, because thread_tick ends every time slice and
\* thread_yield queues behind the threads of the same priority - unless the
\* kernel panicked (NeverPanics).
ReadyRuns == \A t \in Threads : status[t] = "READY" ~> cur = t \/ pc[cur] = "panic"

-----------------------------------------------------------------------------
(* What comments and tests of the repository say of this code, and the code *)
(* does not do.                                                             *)

\* thread_unblock: "stored in the ready queue in priority order", and
\* priority-donate-chain.c: a thread of lower priority does not run before one
\* that received a higher donation.  The thread dispatched has the greatest
\* priority among the ready ones.
DispatchHighest ==
  [][cur' # cur /\ cur' # Idle =>
       \A u \in Range(ready_list') : priority'[u] <= priority'[cur']]_vars

\* create_donation: the priority is stored "for restoring".  A thread that has
\* released every lock and is not inside any call is back at its own priority.
DonationReturned ==
  \A t \in Threads :
    pc[t] = "run" /\ (\A l \in Locks : ~Owns(t, l))
      => priority[t] = original_priority[t]

\* thread_set_priority: "Sets the current thread's priority to NEW_PRIORITY".  A
\* donation may raise a thread above that, but outside the call it is not below.
NeverBelowOwn ==
  \A t \in Threads :
    pc[t] \notin {"set_read", "set_store"} => priority[t] >= original_priority[t]

\* lock_acquire does not follow a null pending_lock it has tested before.
NeverPanics == pc[cur] # "panic"
=============================================================================
