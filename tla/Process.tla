------------------------------ MODULE Process ------------------------------
(***************************************************************************)
(* fork, exit, wait and the life of a process (userprog/process.c, with    *)
(* thread_create and thread_exit of threads/thread.c).                     *)
(*                                                                         *)
(* A process is the page that holds its struct thread: pages are reused,   *)
(* thread identifiers are not.  Mother and child meet on three semaphores: *)
(* fork_sema of the mother (the child has finished copying), wait_sema of  *)
(* the child (its exit status is there) and free_sema of the child (its    *)
(* page may go).  One thread waits on each, so a semaphore is its value;   *)
(* the queues are the subject of module Sched.  pc[p] is the place in the  *)
(* kernel where p is, "user" in user mode.                                 *)
(***************************************************************************)
EXTENDS Integers, FiniteSets

CONSTANTS
  NPages,      \* pages for threads besides the initial one's
  ExitCodes,   \* arguments of exit
  MaxTid,      \* bound on thread identifiers
  NoCode       \* not an exit code

ASSUME ProcessAssumption ==
  /\ NPages \in Nat /\ ExitCodes \subseteq Int /\ MaxTid \in Nat \ {0}
  /\ NoCode \notin ExitCodes \cup {-1, 0}

VARIABLES
  pc,
  tid,           \* thread identifier in the page
  next_tid,
  parent,        \* fork_info.parent of a forked process
  children,      \* children_list
  exit_status,
  wait_sema,
  free_sema,
  fork_sema,
  arg,           \* local child_tid of process_fork and process_wait
  child,         \* local child of process_wait
  off,           \* powered off or panicked
  mother, code, told,  \* by thread identifier: what ProcessTable speaks of
  copied, forked       \* did the child copy everything; what fork answered

history == <<mother, code, told, copied, forked>>
ids == <<tid, next_tid, parent>>
locals == <<arg, child>>
vars == <<pc, tid, next_tid, parent, children, exit_status, wait_sema, free_sema,
          fork_sema, arg, child, off, history>>

Slots == 1 .. NPages
Main == 0
Threads == Slots \cup {Main}
Tids == 1 .. MaxTid
TID_ERROR == -1

Init ==
  /\ pc = [p \in Threads |-> IF p = Main THEN "boot" ELSE "free"]
  /\ tid = [p \in Threads |-> IF p = Main THEN 1 ELSE 0]
  /\ next_tid = 2
  /\ parent = [p \in Threads |-> Main]
  /\ children = [p \in Threads |-> {}]
  /\ exit_status = [p \in Threads |-> 0]
  /\ wait_sema = [p \in Threads |-> 0]
  /\ free_sema = [p \in Threads |-> 0]
  /\ fork_sema = [p \in Threads |-> 0]
  /\ arg = [p \in Threads |-> 0]
  /\ child = [p \in Threads |-> Main]
  /\ off = FALSE
  /\ mother = [t \in Tids |-> 0]
  /\ code = [t \in Tids |-> NoCode]
  /\ told = [t \in Tids |-> NoCode]
  /\ copied = {}
  /\ forked = [t \in Tids |-> 0]

sema_up(sema, p) == sema' = [sema EXCEPT ![p] = @ + 1]

sema_down(sema, p) == sema[p] > 0 /\ sema' = [sema EXCEPT ![p] = @ - 1]

Goto(p, from, to) == pc[p] = from /\ pc' = [pc EXCEPT ![p] = to]

\* thread_create by p in c, the first free page: init_thread, the new identifier, the
\* entry in the creator's children_list.  With no free page the caller gets
\* TID_ERROR and nothing changes.
thread_create(p, c, from, to, entry) ==
  /\ pc[p] = from /\ next_tid <= MaxTid
  /\ pc[c] = "free" /\ \A s \in Slots : s < c => pc[s] # "free"
  /\ pc' = [pc EXCEPT ![p] = to, ![c] = entry]
  /\ tid' = [tid EXCEPT ![c] = next_tid]
  /\ next_tid' = next_tid + 1
  /\ parent' = [parent EXCEPT ![c] = p]
  /\ children' = [children EXCEPT ![p] = @ \cup {c}, ![c] = {}]
  /\ exit_status' = [exit_status EXCEPT ![c] = 0]
  /\ wait_sema' = [wait_sema EXCEPT ![c] = 0]
  /\ free_sema' = [free_sema EXCEPT ![c] = 0]
  /\ arg' = [arg EXCEPT ![p] = next_tid]
  /\ mother' = [mother EXCEPT ![next_tid] = tid[p]]
  /\ UNCHANGED <<fork_sema, child, off, code, told, copied, forked>>

\* The pages get_my_child can return for identifier t; {} stands for NULL.
get_my_child(p, t) == {c \in children[p] : tid[c] = t}

process_create_initd(c) == thread_create(Main, c, "boot", "done", "initd")

\* initd up to user mode, or the panic when its program cannot be loaded.
initd(c) ==
  /\ \/ Goto(c, "initd", "user") /\ fork_sema' = [fork_sema EXCEPT ![c] = 0] /\ UNCHANGED off
     \/ pc[c] = "initd" /\ off' = TRUE /\ UNCHANGED <<pc, fork_sema>>
  /\ UNCHANGED <<ids, locals, children, exit_status, wait_sema, free_sema, history>>

process_fork(p, c) == thread_create(p, c, "user", "fork_down", "do_fork")

ForkDown(p) ==
  /\ Goto(p, "fork_down", "fork_read")
  /\ sema_down(fork_sema, p)
  /\ UNCHANGED <<ids, locals, children, exit_status, wait_sema, free_sema, off, history>>

\* The end of process_fork: the answer depends on the child's exit status.
ForkRead(p) ==
  /\ Goto(p, "fork_read", "user")
  /\ \E c \in get_my_child(p, arg[p]) :
       forked' = [forked EXCEPT ![arg[p]] =
                    IF exit_status[c] = TID_ERROR THEN TID_ERROR ELSE arg[p]]
  /\ UNCHANGED <<ids, locals, children, exit_status, wait_sema, free_sema, fork_sema, off>>
  /\ UNCHANGED <<mother, code, told, copied>>

\* Mutant: the mother is released before the descriptors are copied.
do_fork_Early(c) ==
  /\ Goto(c, "do_fork", "copy_fds") \/ Goto(c, "copy_fds", "fork_done")
  /\ fork_sema' = IF pc[c] = "do_fork" THEN [fork_sema EXCEPT ![parent[c]] = 1] ELSE fork_sema
  /\ UNCHANGED <<ids, locals, children, exit_status, wait_sema, free_sema, off, history>>

\* __do_fork: the page tables, then (after process_init) the descriptors; each
\* may fail.
do_fork(c) ==
  /\ \/ Goto(c, "do_fork", "copy_fds") \/ Goto(c, "do_fork", "fork_error")
     \/ Goto(c, "copy_fds", "fork_done") \/ Goto(c, "copy_fds", "fork_error")
  /\ fork_sema' = IF pc[c] = "copy_fds" THEN [fork_sema EXCEPT ![c] = 0] ELSE fork_sema
  /\ UNCHANGED <<ids, locals, children, exit_status, wait_sema, free_sema, off, history>>

ForkUp(c) ==
  /\ \/ Goto(c, "fork_done", "user") /\ copied' = copied \cup {tid[c]}
     \/ Goto(c, "fork_error", "error_exit") /\ UNCHANGED copied
  /\ sema_up(fork_sema, parent[c])
  /\ UNCHANGED <<ids, locals, children, exit_status, wait_sema, free_sema, off, mother, code, told, forked>>

\* sys_exit as far as process_exit, which comes last in the exiting thread.
sys_exit(p, from, status) ==
  /\ Goto(p, from, "process_exit")
  /\ exit_status' = [exit_status EXCEPT ![p] = status]
  /\ code' = [code EXCEPT ![tid[p]] = status]
  /\ UNCHANGED <<ids, locals, children, wait_sema, free_sema, fork_sema, off, mother, told, copied, forked>>

\* An exception in user mode.
kill(p) == sys_exit(p, "user", -1)

\* exec of a program that cannot be loaded; otherwise the process goes on in
\* user mode.
sys_exec(p) == sys_exit(p, "user", -1)

\* An unknown system call number ends the thread with the status it has.
syscall_handler(p) == sys_exit(p, "user", exit_status[p])

\* Mutant: the exit status is announced to nobody.
ExitUp_Silent(p) ==
  /\ Goto(p, "process_exit", "zombie")
  /\ UNCHANGED <<ids, locals, children, exit_status, wait_sema, free_sema, fork_sema, off, history>>

\* process_exit up to sema_up(&curr->wait_sema); what it closes and frees
\* first is the subject of modules Files and Frames.
ExitUp(p) ==
  /\ Goto(p, "process_exit", "zombie")
  /\ sema_up(wait_sema, p)
  /\ UNCHANGED <<ids, locals, children, exit_status, free_sema, fork_sema, off, history>>

\* Mutant: the exiting thread does not wait for free_sema.
ExitDown_NoWait(p) ==
  /\ Goto(p, "zombie", "dying")
  /\ UNCHANGED <<ids, locals, children, exit_status, wait_sema, free_sema, fork_sema, off, history>>

ExitDown(p) ==
  /\ Goto(p, "zombie", "dying")
  /\ sema_down(free_sema, p)
  /\ UNCHANGED <<ids, locals, children, exit_status, wait_sema, fork_sema, off, history>>

\* do_schedule frees the page of a dead thread; what it held is gone.
reap(p) ==
  /\ Goto(p, "dying", "free")
  /\ tid' = [tid EXCEPT ![p] = 0]
  /\ exit_status' = [exit_status EXCEPT ![p] = 0]
  /\ children' = [children EXCEPT ![p] = {}]
  /\ arg' = [arg EXCEPT ![p] = 0]
  /\ child' = [child EXCEPT ![p] = Main]
  /\ UNCHANGED <<next_tid, parent, wait_sema, free_sema, fork_sema, off, history>>

\* Mutant: wait reads the exit status at once.
process_wait_NoDown(p, t) ==
  /\ pc[p] = IF p = Main THEN "done" ELSE "user"
  /\ \E c \in get_my_child(p, t) :
       /\ pc' = [pc EXCEPT ![p] = "wait_read"]
       /\ child' = [child EXCEPT ![p] = c]
  /\ arg' = [arg EXCEPT ![p] = t]
  /\ UNCHANGED <<ids, children, exit_status, wait_sema, free_sema, fork_sema, off, history>>

\* process_wait: a thread that is not in the list is answered -1 at once, which
\* changes nothing.
process_wait(p, t) ==
  /\ pc[p] = IF p = Main THEN "done" ELSE "user"
  /\ \E c \in get_my_child(p, t) :
       /\ pc' = [pc EXCEPT ![p] = "wait_down"]
       /\ child' = [child EXCEPT ![p] = c]
  /\ arg' = [arg EXCEPT ![p] = t]
  /\ UNCHANGED <<ids, children, exit_status, wait_sema, free_sema, fork_sema, off, history>>

WaitDown(p) ==
  /\ Goto(p, "wait_down", "wait_read")
  /\ sema_down(wait_sema, child[p])
  /\ UNCHANGED <<ids, locals, children, exit_status, free_sema, fork_sema, off, history>>

WaitRead(p) ==
  /\ Goto(p, "wait_read", "wait_up")
  /\ told' = [told EXCEPT ![arg[p]] =
                IF exit_status[child[p]] < 0 THEN -1 ELSE exit_status[child[p]]]
  /\ children' = [children EXCEPT ![p] = @ \ {child[p]}]
  /\ UNCHANGED <<ids, locals, exit_status, wait_sema, free_sema, fork_sema, off, mother, code, copied, forked>>

WaitUp(p) ==
  /\ Goto(p, "wait_up", IF p = Main THEN "done" ELSE "user")
  /\ sema_up(free_sema, child[p])
  /\ UNCHANGED <<ids, locals, children, exit_status, wait_sema, fork_sema, off, history>>

\* halt, and the end of run_actions in the initial thread once its wait for
\* initd has returned.
power_off(p) ==
  /\ \/ pc[p] = "user"
     \/ p = Main /\ pc[p] = "done" /\ get_my_child(p, arg[p]) = {}
  /\ off' = TRUE
  /\ UNCHANGED <<ids, locals, pc, children, exit_status, wait_sema, free_sema, fork_sema, history>>

\* The initial thread waits only for initd.
run_task == process_wait(Main, arg[Main])

User(p) ==
  \/ \E c \in Slots : process_fork(p, c)
  \/ \E s \in ExitCodes : sys_exit(p, "user", s)
  \/ \E t \in Tids : process_wait(p, t)
  \/ kill(p) \/ sys_exec(p) \/ syscall_handler(p)

\* What a process does inside the kernel, without waiting for user code.
Kernel(p) ==
  \/ initd(p) \/ do_fork(p) \/ ForkUp(p) \/ sys_exit(p, "error_exit", TID_ERROR)
  \/ ForkDown(p) \/ ForkRead(p)
  \/ ExitUp(p) \/ ExitDown(p) \/ reap(p)
  \/ WaitDown(p) \/ WaitRead(p) \/ WaitUp(p)

Next ==
  \/ /\ ~off
     /\ \/ run_task \/ \E c \in Slots : process_create_initd(c)
        \/ \E p \in Threads : Kernel(p) \/ power_off(p)
        \/ \E p \in Slots : User(p)
  \/ off /\ UNCHANGED vars

Spec == Init /\ [][Next]_vars

\* A thread that is ready runs (module Sched), and a user program ends at
\* some point: by itself, or killed.
FairSpec ==
  /\ Spec
  /\ \A p \in Threads : WF_vars(~off /\ Kernel(p))
  /\ \A p \in Slots : WF_vars(~off /\ kill(p))

-----------------------------------------------------------------------------
(* Properties.                                                             *)

\* Every wait answers the code the child really ended with, once per child and
\* to its mother, although pages of dead children are reused.
Table == INSTANCE ProcessTable WITH First <- 1, Codes <- ExitCodes \cup {-1, 0}

ImplementsTable == Table!Spec

\* A process on the list of a living one, and the child a waiting process
\* holds a pointer to, still occupy their page: the exit waits on free_sema.
NoStalePtr ==
  \A p \in Threads : pc[p] \notin {"free", "dying"} =>
    /\ \A c \in children[p] : pc[c] \notin {"free", "dying"} /\ mother[tid[c]] = tid[p]
    /\ pc[p] \in {"wait_down", "wait_read", "wait_up"} => tid[child[p]] = arg[p]

\* "The parent must not return from fork() before this function has duplicated
\* its resources": while the child copies, its mother is still in fork.
ForkHandover ==
  \A c \in Slots : pc[c] \in {"do_fork", "copy_fds", "fork_done", "fork_error"} =>
    /\ pc[parent[c]] = "fork_down" /\ fork_sema[parent[c]] = 0
    /\ tid[parent[c]] = mother[tid[c]] /\ arg[parent[c]] = tid[c]

\* When every user program ends, fork and wait return, and the page of a child
\* whose status was collected is given back, however forks, exits and waits
\* interleave.
CallsReturn ==
  /\ \A p \in Threads :
       pc[p] \in {"fork_down", "wait_down"} ~> off \/ pc[p] \in {"user", "done"}
  /\ \A t \in Tids : told[t] # NoCode ~> off \/ \A p \in Slots : tid[p] # t

\* process_fork "returns the thread id of the new process, or TID_ERROR if it
\* cannot be created" (userprog/process.c:99).
ForkTruth ==
  \A t \in Tids : forked[t] # 0 => (forked[t] = TID_ERROR <=> t \notin copied)
=============================================================================
