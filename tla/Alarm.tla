------------------------------- MODULE Alarm -------------------------------
(***************************************************************************)
(* timer_sleep, the timer interrupt and the list of sleeping threads of    *)
(* devices/timer.c.                                                        *)
(*                                                                         *)
(* A thread that is not asleep may be the one running at any moment; which *)
(* one the scheduler picks is the subject of module Sched.  timer_sleep is *)
(* two steps because it reads the tick count before it turns interrupts    *)
(* off: ticks may pass in between.                                         *)
(***************************************************************************)
EXTENDS Integers, KernelList

CONSTANTS
  Threads,
  Durations,   \* arguments of timer_sleep
  MaxTick      \* bound on the tick count: deadlines lie within it, and nobody
               \* falls asleep after the last tick

ASSUME AlarmAssumption == Durations \subseteq Int /\ MaxTick \in Nat

VARIABLES
  ticks,
  closet_tick,        \* the next tick at which somebody must be woken
  block_thread_list,  \* the sleeping threads, by deadline
  wakeup_tick,        \* deadline in the list entry of each thread
  phase               \* "run", "armed" (deadline chosen) or "asleep"

vars == <<ticks, closet_tick, block_thread_list, wakeup_tick, phase>>

\* closet_tick uses NULL, which is 0, for "nobody sleeps".
NULL == 0

TypeOK ==
  /\ ticks \in 0 .. MaxTick
  /\ closet_tick \in Int
  /\ block_thread_list \in Seq(Threads)
  /\ wakeup_tick \in [Threads -> Int]
  /\ phase \in [Threads -> {"run", "armed", "asleep"}]

Init ==
  /\ ticks = 0
  /\ closet_tick = NULL
  /\ block_thread_list = <<>>
  /\ wakeup_tick = [t \in Threads |-> 0]
  /\ phase = [t \in Threads |-> "run"]

\* compare_tick: the earlier deadline goes first.
compare_tick == [t \in Threads |-> 0 - wakeup_tick[t]]

\* timer_sleep up to the call of timer_ticks.
timer_sleep(t, d) ==
  /\ phase[t] = "run"
  /\ ticks + d <= MaxTick
  /\ wakeup_tick' = [wakeup_tick EXCEPT ![t] = ticks + d]
  /\ phase' = [phase EXCEPT ![t] = "armed"]
  /\ UNCHANGED <<ticks, closet_tick, block_thread_list>>

\* Mutant: the list is a plain queue (list_push_back).
SleepBlock_PushBack(t) ==
  /\ phase[t] = "armed"
  /\ ticks < MaxTick
  /\ closet_tick' = IF closet_tick = NULL \/ closet_tick > wakeup_tick[t]
                    THEN wakeup_tick[t] ELSE closet_tick
  /\ block_thread_list' = Append(block_thread_list, t)
  /\ phase' = [phase EXCEPT ![t] = "asleep"]
  /\ UNCHANGED <<ticks, wakeup_tick>>

\* The rest of timer_sleep, with interrupts off.
SleepBlock(t) ==
  /\ phase[t] = "armed"
  /\ ticks < MaxTick
  /\ closet_tick' = IF closet_tick = NULL \/ closet_tick > wakeup_tick[t]
                    THEN wakeup_tick[t] ELSE closet_tick
  /\ block_thread_list' \in InsertOrdered(block_thread_list, t, compare_tick)
  /\ phase' = [phase EXCEPT ![t] = "asleep"]
  /\ UNCHANGED <<ticks, wakeup_tick>>

\* The loop of wake_up stops at the first entry that is not due yet.
DuePrefix(now) ==
  {k \in 0 .. Len(block_thread_list) :
     /\ \A i \in 1 .. k : wakeup_tick[block_thread_list[i]] <= now
     /\ k < Len(block_thread_list) => wakeup_tick[block_thread_list[k + 1]] > now}

\* Mutant: the next wakeup is forgotten although threads still sleep.
wake_up_Forget(now) ==
  \E k \in DuePrefix(now) :
    /\ block_thread_list' = SubSeq(block_thread_list, k + 1, Len(block_thread_list))
    /\ phase' = [t \in Threads |->
                   IF \E i \in 1 .. k : block_thread_list[i] = t THEN "run"
                   ELSE phase[t]]
    /\ closet_tick' = NULL

wake_up(now) ==
  \E k \in DuePrefix(now) :
    /\ block_thread_list' = SubSeq(block_thread_list, k + 1, Len(block_thread_list))
    /\ phase' = [t \in Threads |->
                   IF \E i \in 1 .. k : block_thread_list[i] = t THEN "run"
                   ELSE phase[t]]
    /\ closet_tick' = IF block_thread_list' = <<>> THEN NULL
                      ELSE wakeup_tick[Head(block_thread_list')]

\* Mutant: the test for the next wakeup is off by one.
timer_interrupt_Late ==
  /\ ticks < MaxTick
  /\ ticks' = ticks + 1
  /\ \/ /\ closet_tick # NULL /\ ticks' > closet_tick
        /\ wake_up(ticks')
     \/ /\ closet_tick = NULL \/ ticks' <= closet_tick
        /\ UNCHANGED <<closet_tick, block_thread_list, phase>>
  /\ UNCHANGED wakeup_tick

\* timer_interrupt; thread_tick is part of module Sched.
timer_interrupt ==
  /\ ticks < MaxTick
  /\ ticks' = ticks + 1
  /\ \/ /\ closet_tick # NULL /\ ticks' >= closet_tick
        /\ wake_up(ticks')
     \/ /\ closet_tick = NULL \/ ticks' < closet_tick
        /\ UNCHANGED <<closet_tick, block_thread_list, phase>>
  /\ UNCHANGED wakeup_tick

Next ==
  \/ timer_interrupt
  \/ \E t \in Threads : SleepBlock(t) \/ \E d \in Durations : timer_sleep(t, d)

Spec == Init /\ [][Next]_vars

-----------------------------------------------------------------------------
(* Properties.                                                             *)

\* The list is in the order of the deadlines and holds exactly the sleepers,
\* and the cached tick is the deadline at its front: what wake_up's early exit
\* and timer_interrupt's shortcut rely on.
SleepListConsistent ==
  /\ NoDup(block_thread_list)
  /\ \A t \in Threads : t \in Range(block_thread_list) <=> phase[t] = "asleep"
  /\ \A i, j \in 1 .. Len(block_thread_list) :
       i < j => wakeup_tick[block_thread_list[i]] <= wakeup_tick[block_thread_list[j]]
  /\ closet_tick = IF block_thread_list = <<>> THEN NULL
                   ELSE wakeup_tick[block_thread_list[1]]

\* The promise of timer_sleep: every tick wakes exactly the sleepers that are
\* due, in spite of the cached tick and the early exit from the list.
Clock == INSTANCE AlarmClock WITH deadline <- wakeup_tick

ImplementsClock == Clock!Spec

\* The PIT keeps interrupting.
FairSpec == Spec /\ WF_vars(timer_interrupt)

\* "Suspends execution for approximately TICKS timer ticks": no thread that
\* called timer_sleep sleeps forever.
SleepersWake == \A t \in Threads : phase[t] = "asleep" ~> phase[t] # "asleep"
=============================================================================
