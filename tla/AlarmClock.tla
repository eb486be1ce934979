----------------------------- MODULE AlarmClock -----------------------------
(***************************************************************************)
(* What timer_sleep promises (devices/timer.c): a thread that asks to      *)
(* sleep stays blocked until the first timer tick at or after its deadline *)
(* and is runnable again after that tick.  There is no list and no cached  *)
(* tick here: a tick wakes exactly the sleepers that are due.              *)
(***************************************************************************)
EXTENDS Integers

CONSTANTS
  Threads,
  Durations    \* arguments of timer_sleep

VARIABLES
  ticks,
  phase,       \* "run", "armed" (deadline chosen) or "asleep"
  deadline

vars == <<ticks, phase, deadline>>

Init ==
  /\ ticks = 0
  /\ phase = [t \in Threads |-> "run"]
  /\ deadline = [t \in Threads |-> 0]

Arm(t, d) ==
  /\ phase[t] = "run"
  /\ phase' = [phase EXCEPT ![t] = "armed"]
  /\ deadline' = [deadline EXCEPT ![t] = ticks + d]
  /\ UNCHANGED ticks

FallAsleep(t) ==
  /\ phase[t] = "armed"
  /\ phase' = [phase EXCEPT ![t] = "asleep"]
  /\ UNCHANGED <<ticks, deadline>>

Tick ==
  /\ ticks' = ticks + 1
  /\ phase' = [t \in Threads |->
                 IF phase[t] = "asleep" /\ deadline[t] <= ticks' THEN "run"
                 ELSE phase[t]]
  /\ UNCHANGED deadline

Next ==
  \/ Tick
  \/ \E t \in Threads : FallAsleep(t) \/ \E d \in Durations : Arm(t, d)

Spec == Init /\ [][Next]_vars
=============================================================================
