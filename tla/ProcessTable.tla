---------------------------- MODULE ProcessTable ----------------------------
(***************************************************************************)
(* What fork, exit and wait promise (userprog/process.c): a process ends   *)
(* once with one exit code, and its mother, while she lives, learns that   *)
(* code exactly once, a negative one as -1.  There are no pages, lists or  *)
(* semaphores here, only thread identifiers.                               *)
(***************************************************************************)
EXTENDS Integers

CONSTANTS
  Tids,
  First,      \* the initial thread, which never ends
  Codes,      \* exit codes
  NoCode      \* not an exit code

VARIABLES
  mother,     \* who created the thread; 0 when it does not exist yet
  code,       \* the exit code, NoCode while the process lives
  told        \* the answer of the mother's wait, NoCode before

vars == <<mother, code, told>>

Init ==
  /\ mother = [t \in Tids |-> 0]
  /\ code = [t \in Tids |-> NoCode]
  /\ told = [t \in Tids |-> NoCode]

Exists(t) == t = First \/ mother[t] # 0

Spawn(m, t) ==
  /\ Exists(m) /\ code[m] = NoCode
  /\ ~Exists(t)
  /\ mother' = [mother EXCEPT ![t] = m]
  /\ UNCHANGED <<code, told>>

Finish(t) ==
  /\ Exists(t) /\ code[t] = NoCode
  /\ \E s \in Codes : code' = [code EXCEPT ![t] = s]
  /\ UNCHANGED <<mother, told>>

Collect(t) ==
  /\ Exists(t) /\ code[t] # NoCode /\ told[t] = NoCode
  /\ code[mother[t]] = NoCode
  /\ told' = [told EXCEPT ![t] = IF code[t] < 0 THEN -1 ELSE code[t]]
  /\ UNCHANGED <<mother, code>>

Next == \E t \in Tids : Finish(t) \/ Collect(t) \/ \E m \in Tids : Spawn(m, t)

Spec == Init /\ [][Next]_vars
=============================================================================
