--------------------------- MODULE ProcessProofs ---------------------------
(***************************************************************************)
(* Theorems about fork, exit and wait, for any number of pages and thread  *)
(* identifiers: no pointer to a freed page is used, the mother stays in    *)
(* fork while her child copies, and the three semaphores implement the     *)
(* abstract table of exit codes.                                           *)
(***************************************************************************)
EXTENDS Process, TLAPS

WaitPcs == {"wait_down", "wait_read", "wait_up"}
ForkPcs == {"do_fork", "copy_fds", "fork_done", "fork_error"}
ExitPcs == {"process_exit", "zombie", "dying"}
MainPcs == {"boot", "done"} \cup WaitPcs
SlotPcs == {"free", "initd", "user", "fork_down", "fork_read", "error_exit"}
             \cup WaitPcs \cup ForkPcs \cup ExitPcs
Statuses == ExitCodes \cup {-1, 0}
Living(p) == pc[p] \notin {"free", "dying"}

\* Types; the initial thread never forks and never exits.
TypeInv ==
  /\ pc \in [Threads -> MainPcs \cup SlotPcs]
  /\ pc[Main] \in MainPcs /\ \A p \in Slots : pc[p] \in SlotPcs
  /\ tid \in [Threads -> 0 .. MaxTid]
  /\ next_tid \in 2 .. MaxTid + 1
  /\ parent \in [Threads -> Threads]
  /\ children \in [Threads -> SUBSET Slots]
  /\ exit_status \in [Threads -> Statuses]
  /\ wait_sema \in [Threads -> Nat]
  /\ free_sema \in [Threads -> Nat]
  /\ fork_sema \in [Threads -> Nat]
  /\ arg \in [Threads -> 0 .. MaxTid]
  /\ child \in [Threads -> Threads]
  /\ mother \in [Tids -> 0 .. MaxTid]
  /\ code \in [Tids -> Statuses \cup {NoCode}]
  /\ told \in [Tids -> Statuses \cup {NoCode}]

\* A thread identifier belongs to one page, and identifiers not given out yet
\* have no history.
IdsInv ==
  /\ \A p \in Threads : (tid[p] = 0 <=> pc[p] = "free") /\ tid[p] < next_tid
  /\ \A p, q \in Threads : tid[p] = tid[q] /\ tid[p] # 0 => p = q
  /\ tid[Main] = 1
  /\ \A t \in Tids : mother[t] = 0 <=> (t = 1 \/ t >= next_tid)
  /\ \A t \in Tids : t >= next_tid => code[t] = NoCode /\ told[t] = NoCode

\* The exit code on record is the one in the page of an exiting thread; a
\* thread that has not called exit has none.
CodeInv ==
  \A p \in Threads : tid[p] # 0 =>
    code[tid[p]] = IF pc[p] \in ExitPcs THEN exit_status[p] ELSE NoCode

\* A child on the list of a living thread occupies its page, nobody has
\* collected its status and nobody has told it to go.
ChildInv ==
  \A p \in Threads : Living(p) => \A c \in children[p] :
    /\ Living(c)
    /\ mother[tid[c]] = tid[p]
    /\ told[tid[c]] = NoCode
    /\ free_sema[c] = 0

\* What process_wait knows of its child: on the list until the status is read,
\* a zombie from then on and until free_sema is raised.
WaitInv ==
  \A p \in Threads : pc[p] \in WaitPcs =>
    /\ tid[child[p]] = arg[p] /\ arg[p] # 0
    /\ pc[p] # "wait_up" => child[p] \in children[p]
    /\ pc[p] # "wait_down" => pc[child[p]] = "zombie"
    /\ pc[p] = "wait_up" => /\ child[p] \notin children[p]
                            /\ mother[arg[p]] = tid[p]
                            /\ free_sema[child[p]] = 0

\* wait_sema is raised by process_exit only, fork_sema by the child only, and
\* once for each fork.
SemaInv ==
  /\ \A p \in Threads : pc[p] \notin {"zombie", "dying", "free"} => wait_sema[p] = 0
  /\ \A p \in Slots : pc[p] \in WaitPcs \cup {"user", "fork_read", "fork_done"}
                        => fork_sema[p] = 0
  /\ \A p \in Slots : pc[p] = "fork_down" => fork_sema[p] <= 1

ProcessInv ==
  /\ TypeInv
  /\ IdsInv
  /\ CodeInv
  /\ ChildInv
  /\ WaitInv
  /\ SemaInv
  /\ ForkHandover

-----------------------------------------------------------------------------
(* The invariant holds in the initial state.                               *)

\* At boot the initial process is alone and every slot is free.
LEMMA ProcessInit == Init => ProcessInv
<1> SUFFICES ASSUME Init PROVE ProcessInv
  OBVIOUS
<1> USE ProcessAssumption DEF Init, Threads, Slots, Main, Tids
<1>1. TypeInv
  BY DEF TypeInv, MainPcs, SlotPcs, WaitPcs, Statuses
<1>2. IdsInv
  BY DEF IdsInv
<1>3. CodeInv
  BY DEF CodeInv, ExitPcs
<1>4. ChildInv /\ WaitInv /\ SemaInv
  BY DEF ChildInv, WaitInv, WaitPcs, SemaInv
<1>5. ForkHandover
  BY DEF ForkHandover
<1> QED BY <1>1, <1>2, <1>3, <1>4, <1>5 DEF ProcessInv

-----------------------------------------------------------------------------
(* One lemma for each action: it preserves the invariant.                  *)

\* The page of the initial thread is no slot.
LEMMA Places ==
  /\ Slots \subseteq Threads /\ Main \in Threads /\ Main \notin Slots
  /\ \A p \in Threads : p = Main \/ p \in Slots
  BY ProcessAssumption DEF Slots, Threads, Main

\* The types, value by value.
LEMMA TypeFacts ==
  ASSUME TypeInv
  PROVE  /\ \A p \in Threads : /\ tid[p] \in Nat /\ (tid[p] # 0 => tid[p] \in Tids)
                               /\ arg[p] \in Nat /\ (arg[p] # 0 => arg[p] \in Tids)
                               /\ parent[p] \in Threads /\ child[p] \in Threads
                               /\ children[p] \subseteq Threads
                               /\ wait_sema[p] \in Nat /\ free_sema[p] \in Nat
                               /\ fork_sema[p] \in Nat
         /\ next_tid \in Nat /\ next_tid > 1 /\ Tids \subseteq Nat
         /\ pc[Main] \in MainPcs
<1>1. MaxTid \in Nat
  BY ProcessAssumption
<1>2. \A p \in Threads : tid[p] \in 0 .. MaxTid /\ arg[p] \in 0 .. MaxTid
  BY DEF TypeInv
<1>3. \A p \in Threads : /\ tid[p] \in Nat /\ (tid[p] # 0 => tid[p] \in Tids)
                         /\ arg[p] \in Nat /\ (arg[p] # 0 => arg[p] \in Tids)
  BY <1>1, <1>2 DEF Tids
<1>4. \A p \in Threads : /\ parent[p] \in Threads /\ child[p] \in Threads
                         /\ children[p] \subseteq Threads
  BY Places DEF TypeInv
<1>5. \A p \in Threads : wait_sema[p] \in Nat /\ free_sema[p] \in Nat /\ fork_sema[p] \in Nat
  BY DEF TypeInv
<1>6. next_tid \in Nat /\ next_tid > 1 /\ Tids \subseteq Nat /\ pc[Main] \in MainPcs
  BY <1>1 DEF TypeInv, Tids
<1> QED BY <1>3, <1>4, <1>5, <1>6

\* thread_create, for initd and for a fork.
LEMMA CreateStep ==
  ASSUME ProcessInv, NEW p \in Threads, NEW c \in Slots,
         NEW from \in {"boot", "user"}, NEW to \in {"done", "fork_down"},
         NEW entry \in {"initd", "do_fork"},
         from = "boot" <=> to = "done", from = "boot" <=> entry = "initd",
         thread_create(p, c, from, to, entry)
  PROVE  ProcessInv'
<1> USE Places, TypeFacts DEF ProcessInv
<1>0. MaxTid \in Nat /\ 0 \in Statuses
  BY ProcessAssumption DEF Statuses
<1>1. /\ \A q \in Threads : pc'[q] = IF q = c THEN entry ELSE IF q = p THEN to ELSE pc[q]
      /\ \A q \in Threads : tid'[q] = IF q = c THEN next_tid ELSE tid[q]
      /\ next_tid' = next_tid + 1
      /\ \A q \in Threads : parent'[q] = IF q = c THEN p ELSE parent[q]
      /\ \A q \in Threads : children'[q] = IF q = c THEN {} ELSE
                               IF q = p THEN children[p] \cup {c} ELSE children[q]
      /\ \A q \in Threads : exit_status'[q] = IF q = c THEN 0 ELSE exit_status[q]
      /\ \A q \in Threads : wait_sema'[q] = IF q = c THEN 0 ELSE wait_sema[q]
      /\ \A q \in Threads : free_sema'[q] = IF q = c THEN 0 ELSE free_sema[q]
      /\ \A q \in Threads : arg'[q] = IF q = p THEN next_tid ELSE arg[q]
      /\ \A q \in Tids : mother'[q] = IF q = next_tid THEN tid[p] ELSE mother[q]
      /\ UNCHANGED <<fork_sema, child, code, told>>
  BY DEF TypeInv, thread_create, Tids
<1>2. /\ pc[p] = from /\ pc[c] = "free" /\ p # c
      /\ next_tid \in 2 .. MaxTid /\ next_tid \in Tids
  BY <1>0 DEF thread_create, TypeInv, Tids
<1>3. TypeInv'
  <2>0. to \in MainPcs \cup SlotPcs /\ entry \in MainPcs \cup SlotPcs
    BY DEF MainPcs, SlotPcs, ForkPcs
  <2>1. pc' \in [Threads -> MainPcs \cup SlotPcs] /\ children' \in [Threads -> SUBSET Slots]
    BY <2>0 DEF TypeInv, thread_create
  <2>2. pc'[Main] \in MainPcs /\ \A q \in Slots : pc'[q] \in SlotPcs
    BY <1>1, <1>2 DEF TypeInv, MainPcs, SlotPcs, ForkPcs, WaitPcs, ExitPcs
  <2>3. /\ tid' \in [Threads -> 0 .. MaxTid] /\ next_tid' \in 2 .. MaxTid + 1
        /\ mother' \in [Tids -> 0 .. MaxTid] /\ arg' \in [Threads -> 0 .. MaxTid]
        /\ parent' \in [Threads -> Threads] /\ exit_status' \in [Threads -> Statuses]
        /\ wait_sema' \in [Threads -> Nat] /\ free_sema' \in [Threads -> Nat]
    BY <1>0, <1>1, <1>2 DEF TypeInv, thread_create
  <2> QED BY <1>1, <2>1, <2>2, <2>3 DEF TypeInv
<1>4. IdsInv'
  <2>1. \A q \in Threads : (tid'[q] = 0 <=> pc'[q] = "free") /\ tid'[q] < next_tid'
    BY <1>0, <1>1, <1>2 DEF IdsInv, TypeInv
  <2>2. \A q, r \in Threads : tid'[q] = tid'[r] /\ tid'[q] # 0 => q = r
    BY <1>0, <1>1, <1>2 DEF IdsInv, TypeInv
  <2>3. tid'[Main] = 1
    BY <1>1 DEF IdsInv
  <2>4. \A t \in Tids : mother'[t] = 0 <=> (t = 1 \/ t >= next_tid')
    <3>1. tid[p] # 0 /\ \A t \in Tids : mother[t] = 0 <=> (t = 1 \/ t >= next_tid)
      BY <1>2 DEF IdsInv
    <3> QED BY <1>1, <1>2, <3>1
  <2>5. \A t \in Tids : t >= next_tid' => code'[t] = NoCode /\ told'[t] = NoCode
    BY <1>0, <1>1, <1>2 DEF IdsInv, Tids
  <2> QED BY <2>1, <2>2, <2>3, <2>4, <2>5 DEF IdsInv
<1>5. CodeInv'
  BY <1>1, <1>2 DEF CodeInv, ExitPcs, IdsInv
<1>6. ChildInv'
  <2> SUFFICES ASSUME NEW q \in Threads, Living(q)', NEW k \in children'[q]
               PROVE  /\ Living(k)' /\ mother'[tid'[k]] = tid'[q]
                      /\ told'[tid'[k]] = NoCode /\ free_sema'[k] = 0
    BY DEF ChildInv
  <2>1. CASE k = c
    <3>1. q = p
      BY <1>1, <1>2, <2>1 DEF ChildInv, Living
    <3> QED BY <1>0, <1>1, <1>2, <2>1, <3>1 DEF Living, IdsInv, Tids
  <2>2. CASE k # c
    <3>1. q # c /\ k \in children[q] /\ k \in Threads /\ Living(q)
      BY <1>1, <1>2, <2>2 DEF Living
    <3>2. tid[k] \in Tids /\ tid[k] # next_tid
      BY <3>1 DEF ChildInv, Living, IdsInv
    <3> QED BY <1>1, <1>2, <2>2, <3>1, <3>2 DEF ChildInv, Living
  <2> QED BY <2>1, <2>2
<1>7. WaitInv'
  <2> SUFFICES ASSUME NEW q \in Threads, pc'[q] \in WaitPcs
               PROVE  /\ tid'[child'[q]] = arg'[q] /\ arg'[q] # 0
                      /\ pc'[q] # "wait_up" => child'[q] \in children'[q]
                      /\ pc'[q] # "wait_down" => pc'[child'[q]] = "zombie"
                      /\ pc'[q] = "wait_up" => /\ child'[q] \notin children'[q]
                                               /\ mother'[arg'[q]] = tid'[q]
                                               /\ free_sema'[child'[q]] = 0
    BY DEF WaitInv
  <2>1. pc[q] \in WaitPcs /\ pc'[q] = pc[q] /\ q # c /\ q # p
    BY <1>1, <1>2 DEF WaitPcs
  <2>2. child[q] # c /\ child[q] \in Threads
    BY <1>2, <2>1 DEF WaitInv, WaitPcs, IdsInv
  <2>3. arg[q] # next_tid /\ arg[q] \in Tids
    BY <1>2, <2>1, <2>2 DEF WaitInv, IdsInv
  <2>4. pc[child[q]] = "zombie" => pc'[child[q]] = "zombie"
    BY <1>1, <1>2, <2>2
  <2> QED BY <1>1, <1>2, <2>1, <2>2, <2>3, <2>4 DEF WaitInv
<1>8. SemaInv'
  BY <1>1, <1>2 DEF SemaInv, WaitPcs, MainPcs
<1>9. ForkHandover'
  <2> SUFFICES ASSUME NEW k \in Slots,
                      pc'[k] \in {"do_fork", "copy_fds", "fork_done", "fork_error"}
               PROVE  /\ pc'[parent'[k]] = "fork_down" /\ fork_sema'[parent'[k]] = 0
                      /\ tid'[parent'[k]] = mother'[tid'[k]] /\ arg'[parent'[k]] = tid'[k]
    BY DEF ForkHandover
  <2>1. CASE k = c
    <3>1. from = "user" /\ p \in Slots
      BY <1>1, <1>2, <2>1 DEF TypeInv, MainPcs, WaitPcs
    <3> QED BY <1>1, <1>2, <2>1, <3>1 DEF SemaInv
  <2>2. CASE k # c
    <3>1. pc[k] \in {"do_fork", "copy_fds", "fork_done", "fork_error"} /\ k # p
      BY <1>1, <1>2, <2>2
    <3>2. parent[k] \in Threads /\ parent[k] # c /\ parent[k] # p /\ tid[k] \in Tids /\ tid[k] # next_tid
      BY <1>2, <3>1 DEF ForkHandover, IdsInv
    <3> QED BY <1>1, <1>2, <2>2, <3>1, <3>2 DEF ForkHandover
  <2> QED BY <2>1, <2>2
<1> QED BY <1>3, <1>4, <1>5, <1>6, <1>7, <1>8, <1>9

\* initd reaches user mode or panics.
LEMMA InitdStep ==
  ASSUME ProcessInv, NEW p \in Threads, initd(p)
  PROVE  ProcessInv'
<1> USE Places, TypeFacts DEF ProcessInv
<1>1. /\ \A q \in Threads : pc'[q] = IF q = p /\ pc' # pc THEN "user" ELSE pc[q]
      /\ \A q \in Threads : fork_sema'[q] = IF q = p /\ pc' # pc THEN 0 ELSE fork_sema[q]
      /\ UNCHANGED <<tid, next_tid, parent, children, exit_status, wait_sema, free_sema, arg, child,
                     mother, code, told>>
  BY DEF TypeInv, initd, Goto, ids, locals, history
<1>2. pc[p] = "initd"
  BY DEF initd, Goto
<1>3. TypeInv'
  <2>1. /\ \A q \in Threads : pc'[q] \in MainPcs \cup SlotPcs
        /\ pc'[Main] \in MainPcs /\ \A q \in Slots : pc'[q] \in SlotPcs
    BY <1>1, <1>2 DEF TypeInv, MainPcs, SlotPcs, WaitPcs, ForkPcs, ExitPcs
  <2>2. pc' \in [Threads -> MainPcs \cup SlotPcs]
    BY <2>1 DEF TypeInv, initd, Goto, ids, locals, history
  <2> QED BY <1>1, <1>2, <2>1, <2>2 DEF TypeInv, initd, Goto, ids, locals, history
<1>4. IdsInv'
  BY <1>1, <1>2 DEF IdsInv, WaitPcs
<1>5. CodeInv'
  BY <1>1, <1>2 DEF CodeInv, ExitPcs, WaitPcs, IdsInv
<1>6. ChildInv'
  BY <1>1, <1>2 DEF ChildInv, Living, WaitPcs, IdsInv
<1>7. WaitInv'
  BY <1>1, <1>2 DEF WaitInv, WaitPcs, IdsInv, ChildInv, Living
<1>8. SemaInv'
  BY <1>1, <1>2 DEF SemaInv, WaitPcs, MainPcs
<1>9. ForkHandover'
  BY <1>1, <1>2 DEF ForkHandover, WaitPcs, IdsInv, SemaInv, MainPcs
<1> QED BY <1>3, <1>4, <1>5, <1>6, <1>7, <1>8, <1>9

\* The mother takes up fork_sema.
LEMMA ForkDownStep ==
  ASSUME ProcessInv, NEW p \in Threads, ForkDown(p)
  PROVE  ProcessInv'
<1> USE Places, TypeFacts DEF ProcessInv
<1>1. /\ \A q \in Threads : pc'[q] = IF q = p THEN "fork_read" ELSE pc[q]
      /\ \A q \in Threads : fork_sema'[q] = IF q = p THEN fork_sema[p] - 1 ELSE fork_sema[q]
      /\ UNCHANGED <<tid, next_tid, parent, children, exit_status, wait_sema, free_sema, arg, child,
                     mother, code, told>>
  BY DEF TypeInv, ForkDown, Goto, sema_down, ids, locals, history
<1>2. pc[p] = "fork_down" /\ fork_sema[p] > 0
  BY DEF ForkDown, Goto, sema_down
<1>3. TypeInv'
  <2>1. /\ \A q \in Threads : pc'[q] \in MainPcs \cup SlotPcs
        /\ pc'[Main] \in MainPcs /\ \A q \in Slots : pc'[q] \in SlotPcs
    BY <1>1, <1>2 DEF TypeInv, MainPcs, SlotPcs, WaitPcs, ForkPcs, ExitPcs
  <2>2. pc' \in [Threads -> MainPcs \cup SlotPcs]
    BY <2>1 DEF TypeInv, ForkDown, Goto, sema_down, ids, locals, history
  <2> QED BY <1>1, <1>2, <2>1, <2>2 DEF TypeInv, ForkDown, Goto, sema_down, ids, locals, history
<1>4. IdsInv'
  BY <1>1, <1>2 DEF IdsInv, WaitPcs
<1>5. CodeInv'
  BY <1>1, <1>2 DEF CodeInv, ExitPcs, WaitPcs, IdsInv
<1>6. ChildInv'
  BY <1>1, <1>2 DEF ChildInv, Living, WaitPcs, IdsInv
<1>7. WaitInv'
  BY <1>1, <1>2 DEF WaitInv, WaitPcs, IdsInv, ChildInv, Living
<1>8. SemaInv'
  BY <1>1, <1>2 DEF SemaInv, WaitPcs, MainPcs
<1>9. ForkHandover'
  BY <1>1, <1>2 DEF ForkHandover, WaitPcs, IdsInv, SemaInv, MainPcs
<1> QED BY <1>3, <1>4, <1>5, <1>6, <1>7, <1>8, <1>9

\* The mother reads the exit status of her new child.
LEMMA ForkReadStep ==
  ASSUME ProcessInv, NEW p \in Threads, ForkRead(p)
  PROVE  ProcessInv'
<1> USE Places, TypeFacts DEF ProcessInv
<1>1. /\ \A q \in Threads : pc'[q] = IF q = p THEN "user" ELSE pc[q]
      /\ UNCHANGED <<tid, next_tid, parent, children, exit_status, wait_sema, free_sema, fork_sema,
                     arg, child, mother, code, told>>
  BY DEF TypeInv, ForkRead, Goto, get_my_child, TID_ERROR, ids, locals
<1>2. pc[p] = "fork_read"
  BY DEF ForkRead, Goto
<1>3. TypeInv'
  <2>1. /\ \A q \in Threads : pc'[q] \in MainPcs \cup SlotPcs
        /\ pc'[Main] \in MainPcs /\ \A q \in Slots : pc'[q] \in SlotPcs
    BY <1>1, <1>2 DEF TypeInv, MainPcs, SlotPcs, WaitPcs, ForkPcs, ExitPcs
  <2>2. pc' \in [Threads -> MainPcs \cup SlotPcs]
    BY <2>1 DEF TypeInv, ForkRead, Goto, get_my_child, TID_ERROR, ids, locals
  <2> QED BY <1>1, <1>2, <2>1, <2>2 DEF TypeInv, ForkRead, Goto, get_my_child, TID_ERROR, ids, locals
<1>4. IdsInv'
  BY <1>1, <1>2 DEF IdsInv, WaitPcs
<1>5. CodeInv'
  BY <1>1, <1>2 DEF CodeInv, ExitPcs, WaitPcs, IdsInv
<1>6. ChildInv'
  BY <1>1, <1>2 DEF ChildInv, Living, WaitPcs, IdsInv
<1>7. WaitInv'
  BY <1>1, <1>2 DEF WaitInv, WaitPcs, IdsInv, ChildInv, Living
<1>8. SemaInv'
  BY <1>1, <1>2 DEF SemaInv, WaitPcs, MainPcs
<1>9. ForkHandover'
  BY <1>1, <1>2 DEF ForkHandover, WaitPcs, IdsInv, SemaInv, MainPcs
<1> QED BY <1>3, <1>4, <1>5, <1>6, <1>7, <1>8, <1>9

\* The child copies, or fails to.
LEMMA DoForkStep ==
  ASSUME ProcessInv, NEW p \in Threads, do_fork(p)
  PROVE  ProcessInv'
<1> USE Places, TypeFacts DEF ProcessInv
<1>1. /\ \A q \in Threads : pc'[q] = IF q = p THEN pc'[p] ELSE pc[q]
      /\ \A q \in Threads : fork_sema'[q] = IF q = p /\ pc[p] = "copy_fds" THEN 0 ELSE fork_sema[q]
      /\ UNCHANGED <<tid, next_tid, parent, children, exit_status, wait_sema, free_sema, arg, child,
                     mother, code, told>>
  BY DEF TypeInv, do_fork, Goto, ids, locals, history
<1>2. /\ pc[p] \in {"do_fork", "copy_fds"}
      /\ pc'[p] \in {"copy_fds", "fork_done", "fork_error"}
      /\ pc'[p] = "fork_done" => pc[p] = "copy_fds"
  BY DEF do_fork, Goto, TypeInv
<1>3. TypeInv'
  <2>1. /\ \A q \in Threads : pc'[q] \in MainPcs \cup SlotPcs
        /\ pc'[Main] \in MainPcs /\ \A q \in Slots : pc'[q] \in SlotPcs
    BY <1>1, <1>2 DEF TypeInv, MainPcs, SlotPcs, WaitPcs, ForkPcs, ExitPcs
  <2>2. pc' \in [Threads -> MainPcs \cup SlotPcs]
    BY <2>1 DEF TypeInv, do_fork, Goto, ids, locals, history
  <2> QED BY <1>1, <1>2, <2>1, <2>2 DEF TypeInv, do_fork, Goto, ids, locals, history
<1>4. IdsInv'
  BY <1>1, <1>2 DEF IdsInv, WaitPcs
<1>5. CodeInv'
  BY <1>1, <1>2 DEF CodeInv, ExitPcs, WaitPcs, IdsInv
<1>6. ChildInv'
  BY <1>1, <1>2 DEF ChildInv, Living, WaitPcs, IdsInv
<1>7. WaitInv'
  BY <1>1, <1>2 DEF WaitInv, WaitPcs, IdsInv, ChildInv, Living
<1>8. SemaInv'
  BY <1>1, <1>2 DEF SemaInv, WaitPcs, ForkHandover, MainPcs
<1>9. ForkHandover'
  BY <1>1, <1>2 DEF ForkHandover, WaitPcs, IdsInv, SemaInv, MainPcs
<1> QED BY <1>3, <1>4, <1>5, <1>6, <1>7, <1>8, <1>9

\* The child releases its mother.
LEMMA ForkUpStep ==
  ASSUME ProcessInv, NEW p \in Threads, ForkUp(p)
  PROVE  ProcessInv'
<1> USE Places, TypeFacts DEF ProcessInv
<1>1. /\ \A q \in Threads : pc'[q] = IF q = p THEN pc'[p] ELSE pc[q]
      /\ \A q \in Threads : fork_sema'[q] = IF q = parent[p] THEN fork_sema[q] + 1 ELSE fork_sema[q]
      /\ UNCHANGED <<tid, next_tid, parent, children, exit_status, wait_sema, free_sema, arg, child,
                     mother, code, told>>
  BY DEF TypeInv, ForkUp, Goto, sema_up, ids, locals
<1>2. \/ pc[p] = "fork_done" /\ pc'[p] = "user"
      \/ pc[p] = "fork_error" /\ pc'[p] = "error_exit"
  BY DEF ForkUp, Goto, TypeInv
<1>3. TypeInv'
  <2>1. /\ \A q \in Threads : pc'[q] \in MainPcs \cup SlotPcs
        /\ pc'[Main] \in MainPcs /\ \A q \in Slots : pc'[q] \in SlotPcs
    BY <1>1, <1>2 DEF TypeInv, MainPcs, SlotPcs, WaitPcs, ForkPcs, ExitPcs
  <2>2. pc' \in [Threads -> MainPcs \cup SlotPcs]
    BY <2>1 DEF TypeInv, ForkUp, Goto, sema_up, ids, locals
  <2> QED BY <1>1, <1>2, <2>1, <2>2 DEF TypeInv, ForkUp, Goto, sema_up, ids, locals
<1>4. IdsInv'
  BY <1>1, <1>2 DEF IdsInv, WaitPcs
<1>5. CodeInv'
  BY <1>1, <1>2 DEF CodeInv, ExitPcs, WaitPcs, IdsInv
<1>6. ChildInv'
  BY <1>1, <1>2 DEF ChildInv, Living, WaitPcs, IdsInv
<1>7. WaitInv'
  BY <1>1, <1>2 DEF WaitInv, WaitPcs, IdsInv, ChildInv, Living
<1>8. SemaInv'
  BY <1>1, <1>2 DEF SemaInv, WaitPcs, ForkHandover, MainPcs
<1>9. ForkHandover'
  BY <1>1, <1>2 DEF ForkHandover, WaitPcs, IdsInv, SemaInv, MainPcs
<1> QED BY <1>3, <1>4, <1>5, <1>6, <1>7, <1>8, <1>9

\* exit, a kill, a failed exec and a failed fork.
LEMMA SysExitStep ==
  ASSUME ProcessInv, NEW p \in Slots, NEW from \in {"user", "error_exit"},
         NEW status \in Statuses, sys_exit(p, from, status)
  PROVE  ProcessInv'
<1> USE Places, TypeFacts DEF ProcessInv
<1>1. /\ \A q \in Threads : pc'[q] = IF q = p THEN "process_exit" ELSE pc[q]
      /\ \A q \in Threads : exit_status'[q] = IF q = p THEN status ELSE exit_status[q]
      /\ \A q \in Tids : code'[q] = IF q = tid[p] THEN status ELSE code[q]
      /\ UNCHANGED <<tid, next_tid, parent, children, wait_sema, free_sema, fork_sema, arg, child,
                     mother, told>>
  BY DEF TypeInv, sys_exit, Goto, ids, locals
<1>2. pc[p] \in {"user", "error_exit"}
  BY DEF sys_exit, Goto
<1>3. TypeInv'
  <2>1. /\ \A q \in Threads : pc'[q] \in MainPcs \cup SlotPcs
        /\ pc'[Main] \in MainPcs /\ \A q \in Slots : pc'[q] \in SlotPcs
    BY <1>1, <1>2 DEF TypeInv, MainPcs, SlotPcs, WaitPcs, ForkPcs, ExitPcs
  <2>2. pc' \in [Threads -> MainPcs \cup SlotPcs]
    BY <2>1 DEF TypeInv, sys_exit, Goto, ids, locals
  <2>3. code' \in [Tids -> Statuses \cup {NoCode}] /\ exit_status' \in [Threads -> Statuses]
    BY DEF TypeInv, sys_exit
  <2> QED BY <1>1, <2>1, <2>2, <2>3 DEF TypeInv
<1>4. IdsInv'
  BY <1>1, <1>2 DEF IdsInv, WaitPcs
<1>5. CodeInv'
  BY <1>1, <1>2 DEF CodeInv, ExitPcs, WaitPcs, IdsInv
<1>6. ChildInv'
  BY <1>1, <1>2 DEF ChildInv, Living, WaitPcs, IdsInv
<1>7. WaitInv'
  BY <1>1, <1>2 DEF WaitInv, WaitPcs, IdsInv, ChildInv, Living
<1>8. SemaInv'
  BY <1>1, <1>2 DEF SemaInv, WaitPcs, MainPcs
<1>9. ForkHandover'
  BY <1>1, <1>2 DEF ForkHandover, WaitPcs, IdsInv, SemaInv, MainPcs
<1> QED BY <1>3, <1>4, <1>5, <1>6, <1>7, <1>8, <1>9

\* The exiting thread raises its wait_sema.
LEMMA ExitUpStep ==
  ASSUME ProcessInv, NEW p \in Threads, ExitUp(p)
  PROVE  ProcessInv'
<1> USE Places, TypeFacts DEF ProcessInv
<1>1. /\ \A q \in Threads : pc'[q] = IF q = p THEN "zombie" ELSE pc[q]
      /\ \A q \in Threads : wait_sema'[q] = IF q = p THEN wait_sema[p] + 1 ELSE wait_sema[q]
      /\ UNCHANGED <<tid, next_tid, parent, children, exit_status, free_sema, fork_sema, arg, child,
                     mother, code, told>>
  BY DEF TypeInv, ExitUp, Goto, sema_up, ids, locals, history
<1>2. pc[p] = "process_exit"
  BY DEF ExitUp, Goto
<1>3. TypeInv'
  <2>1. /\ \A q \in Threads : pc'[q] \in MainPcs \cup SlotPcs
        /\ pc'[Main] \in MainPcs /\ \A q \in Slots : pc'[q] \in SlotPcs
    BY <1>1, <1>2 DEF TypeInv, MainPcs, SlotPcs, WaitPcs, ForkPcs, ExitPcs
  <2>2. pc' \in [Threads -> MainPcs \cup SlotPcs]
    BY <2>1 DEF TypeInv, ExitUp, Goto, sema_up, ids, locals, history
  <2> QED BY <1>1, <1>2, <2>1, <2>2 DEF TypeInv, ExitUp, Goto, sema_up, ids, locals, history
<1>4. IdsInv'
  BY <1>1, <1>2 DEF IdsInv, WaitPcs
<1>5. CodeInv'
  BY <1>1, <1>2 DEF CodeInv, ExitPcs, WaitPcs, IdsInv
<1>6. ChildInv'
  BY <1>1, <1>2 DEF ChildInv, Living, WaitPcs, IdsInv
<1>7. WaitInv'
  BY <1>1, <1>2 DEF WaitInv, WaitPcs, IdsInv, ChildInv, Living
<1>8. SemaInv'
  BY <1>1, <1>2 DEF SemaInv, WaitPcs, MainPcs
<1>9. ForkHandover'
  BY <1>1, <1>2 DEF ForkHandover, WaitPcs, IdsInv, SemaInv, MainPcs
<1> QED BY <1>3, <1>4, <1>5, <1>6, <1>7, <1>8, <1>9

\* The exiting thread takes up its free_sema: nobody points to it any more.
LEMMA ExitDownStep ==
  ASSUME ProcessInv, NEW p \in Threads, ExitDown(p)
  PROVE  ProcessInv'
<1> USE Places, TypeFacts DEF ProcessInv
<1>1. /\ \A q \in Threads : pc'[q] = IF q = p THEN "dying" ELSE pc[q]
      /\ \A q \in Threads : free_sema'[q] = IF q = p THEN free_sema[p] - 1 ELSE free_sema[q]
      /\ UNCHANGED <<tid, next_tid, parent, children, exit_status, wait_sema, fork_sema, arg, child,
                     mother, code, told>>
  BY DEF TypeInv, ExitDown, Goto, sema_down, ids, locals, history
<1>2. pc[p] = "zombie" /\ free_sema[p] > 0
  BY DEF ExitDown, Goto, sema_down
<1>3. TypeInv'
  <2>1. /\ \A q \in Threads : pc'[q] \in MainPcs \cup SlotPcs
        /\ pc'[Main] \in MainPcs /\ \A q \in Slots : pc'[q] \in SlotPcs
    BY <1>1, <1>2 DEF TypeInv, MainPcs, SlotPcs, WaitPcs, ForkPcs, ExitPcs
  <2>2. pc' \in [Threads -> MainPcs \cup SlotPcs]
    BY <2>1 DEF TypeInv, ExitDown, Goto, sema_down, ids, locals, history
  <2> QED BY <1>1, <1>2, <2>1, <2>2 DEF TypeInv, ExitDown, Goto, sema_down, ids, locals, history
<1>4. IdsInv'
  BY <1>1, <1>2 DEF IdsInv, WaitPcs
<1>5. CodeInv'
  BY <1>1, <1>2 DEF CodeInv, ExitPcs, WaitPcs, IdsInv
<1>6. ChildInv'
  BY <1>1, <1>2 DEF ChildInv, Living, WaitPcs, IdsInv
<1>7. WaitInv'
  BY <1>1, <1>2 DEF WaitInv, WaitPcs, IdsInv, ChildInv, Living
<1>8. SemaInv'
  BY <1>1, <1>2 DEF SemaInv, WaitPcs, MainPcs
<1>9. ForkHandover'
  BY <1>1, <1>2 DEF ForkHandover, WaitPcs, IdsInv, SemaInv, MainPcs
<1> QED BY <1>3, <1>4, <1>5, <1>6, <1>7, <1>8, <1>9

\* The page of a dead thread is freed.
LEMMA ReapStep ==
  ASSUME ProcessInv, NEW p \in Threads, reap(p)
  PROVE  ProcessInv'
<1> USE Places, TypeFacts DEF ProcessInv
<1>1. /\ \A q \in Threads : pc'[q] = IF q = p THEN "free" ELSE pc[q]
      /\ \A q \in Threads : tid'[q] = IF q = p THEN 0 ELSE tid[q]
      /\ \A q \in Threads : exit_status'[q] = IF q = p THEN 0 ELSE exit_status[q]
      /\ \A q \in Threads : children'[q] = IF q = p THEN {} ELSE children[q]
      /\ \A q \in Threads : arg'[q] = IF q = p THEN 0 ELSE arg[q]
      /\ \A q \in Threads : child'[q] = IF q = p THEN Main ELSE child[q]
      /\ UNCHANGED <<next_tid, parent, wait_sema, free_sema, fork_sema, mother, code, told>>
  BY DEF TypeInv, reap, Goto, history
<1>2. pc[p] = "dying"
  BY DEF reap, Goto
<1>3. TypeInv'
  <2>1. /\ \A q \in Threads : pc'[q] \in MainPcs \cup SlotPcs
        /\ pc'[Main] \in MainPcs /\ \A q \in Slots : pc'[q] \in SlotPcs
    BY <1>1, <1>2 DEF TypeInv, MainPcs, SlotPcs, WaitPcs, ForkPcs, ExitPcs
  <2>2. pc' \in [Threads -> MainPcs \cup SlotPcs]
    BY <2>1 DEF TypeInv, reap, Goto, history
  <2>3. 0 \in Statuses /\ 0 \in 0 .. MaxTid
    BY ProcessAssumption DEF Statuses
  <2>4. /\ tid' \in [Threads -> 0 .. MaxTid] /\ arg' \in [Threads -> 0 .. MaxTid]
        /\ exit_status' \in [Threads -> Statuses] /\ children' \in [Threads -> SUBSET Slots]
        /\ child' \in [Threads -> Threads]
    BY <2>3 DEF TypeInv, reap
  <2> QED BY <1>1, <2>1, <2>2, <2>4 DEF TypeInv
<1>4. IdsInv'
  BY <1>1, <1>2 DEF IdsInv, MainPcs, WaitPcs
<1>5. CodeInv'
  BY <1>1, <1>2 DEF CodeInv, ExitPcs, WaitPcs, IdsInv
<1>6. ChildInv'
  BY <1>1, <1>2 DEF ChildInv, Living, WaitPcs, IdsInv
<1>7. WaitInv'
  BY <1>1, <1>2 DEF WaitInv, WaitPcs, IdsInv, ChildInv, Living
<1>8. SemaInv'
  BY <1>1, <1>2 DEF SemaInv, WaitPcs, MainPcs
<1>9. ForkHandover'
  BY <1>1, <1>2 DEF ForkHandover, WaitPcs, IdsInv, SemaInv, MainPcs
<1> QED BY <1>3, <1>4, <1>5, <1>6, <1>7, <1>8, <1>9

\* process_wait finds its child.
LEMMA WaitStep ==
  ASSUME ProcessInv, NEW p \in Threads, NEW t \in 0 .. MaxTid, process_wait(p, t)
  PROVE  ProcessInv'
<1> USE Places, TypeFacts DEF ProcessInv
<1>1. /\ \A q \in Threads : pc'[q] = IF q = p THEN "wait_down" ELSE pc[q]
      /\ \A q \in Threads : arg'[q] = IF q = p THEN t ELSE arg[q]
      /\ \A q \in Threads : child'[q] = IF q = p THEN child'[p] ELSE child[q]
      /\ UNCHANGED <<tid, next_tid, parent, children, exit_status, wait_sema, free_sema, fork_sema,
                     mother, code, told>>
  BY DEF TypeInv, process_wait, get_my_child, ids, history
<1>2. /\ pc[p] = IF p = Main THEN "done" ELSE "user"
      /\ child'[p] \in children[p] /\ tid[child'[p]] = t
  BY DEF process_wait, get_my_child, TypeInv
<1>3. TypeInv'
  <2>1. /\ \A q \in Threads : pc'[q] \in MainPcs \cup SlotPcs
        /\ pc'[Main] \in MainPcs /\ \A q \in Slots : pc'[q] \in SlotPcs
    BY <1>1, <1>2 DEF TypeInv, MainPcs, SlotPcs, WaitPcs, ForkPcs, ExitPcs
  <2>2. pc' \in [Threads -> MainPcs \cup SlotPcs]
    BY <2>1 DEF TypeInv, process_wait, get_my_child, ids, history
  <2> QED BY <1>1, <1>2, <2>1, <2>2 DEF TypeInv, process_wait, get_my_child, ids, history
<1>4. IdsInv'
  BY <1>1, <1>2 DEF IdsInv, WaitPcs
<1>5. CodeInv'
  BY <1>1, <1>2 DEF CodeInv, ExitPcs, WaitPcs, IdsInv
<1>6. ChildInv'
  BY <1>1, <1>2 DEF ChildInv, Living, WaitPcs, IdsInv
<1>7. WaitInv'
  BY <1>1, <1>2 DEF WaitInv, WaitPcs, IdsInv, ChildInv, Living
<1>8. SemaInv'
  BY <1>1, <1>2 DEF SemaInv, WaitPcs, MainPcs
<1>9. ForkHandover'
  BY <1>1, <1>2 DEF ForkHandover, WaitPcs, IdsInv, SemaInv, MainPcs
<1> QED BY <1>3, <1>4, <1>5, <1>6, <1>7, <1>8, <1>9

\* The mother takes up wait_sema: the child is a zombie.
LEMMA WaitDownStep ==
  ASSUME ProcessInv, NEW p \in Threads, WaitDown(p)
  PROVE  ProcessInv'
<1> USE Places, TypeFacts DEF ProcessInv
<1>1. /\ \A q \in Threads : pc'[q] = IF q = p THEN "wait_read" ELSE pc[q]
      /\ \A q \in Threads : wait_sema'[q] = IF q = child[p] THEN wait_sema[q] - 1 ELSE wait_sema[q]
      /\ UNCHANGED <<tid, next_tid, parent, children, exit_status, free_sema, fork_sema, arg, child,
                     mother, code, told>>
  BY DEF TypeInv, WaitDown, Goto, sema_down, ids, locals, history
<1>2. pc[p] = "wait_down" /\ wait_sema[child[p]] > 0
  BY DEF WaitDown, Goto, sema_down
<1>3. TypeInv'
  <2>1. /\ \A q \in Threads : pc'[q] \in MainPcs \cup SlotPcs
        /\ pc'[Main] \in MainPcs /\ \A q \in Slots : pc'[q] \in SlotPcs
    BY <1>1, <1>2 DEF TypeInv, MainPcs, SlotPcs, WaitPcs, ForkPcs, ExitPcs
  <2>2. pc' \in [Threads -> MainPcs \cup SlotPcs]
    BY <2>1 DEF TypeInv, WaitDown, Goto, sema_down, ids, locals, history
  <2> QED BY <1>1, <1>2, <2>1, <2>2 DEF TypeInv, WaitDown, Goto, sema_down, ids, locals, history
<1>4. IdsInv'
  BY <1>1, <1>2 DEF IdsInv, WaitPcs
<1>5. CodeInv'
  BY <1>1, <1>2 DEF CodeInv, ExitPcs, WaitPcs, IdsInv
<1>6. ChildInv'
  BY <1>1, <1>2 DEF ChildInv, Living, WaitPcs, IdsInv
<1>7. WaitInv'
  BY <1>1, <1>2 DEF WaitInv, WaitPcs, IdsInv, ChildInv, Living, SemaInv
<1>8. SemaInv'
  BY <1>1, <1>2 DEF SemaInv, WaitPcs, MainPcs
<1>9. ForkHandover'
  BY <1>1, <1>2 DEF ForkHandover, WaitPcs, IdsInv, SemaInv, MainPcs
<1> QED BY <1>3, <1>4, <1>5, <1>6, <1>7, <1>8, <1>9

\* The mother reads the status and takes the child off her list.
LEMMA WaitReadStep ==
  ASSUME ProcessInv, NEW p \in Threads, WaitRead(p)
  PROVE  ProcessInv'
<1> USE Places, TypeFacts DEF ProcessInv
<1>1. /\ \A q \in Threads : pc'[q] = IF q = p THEN "wait_up" ELSE pc[q]
      /\ \A q \in Tids : told'[q] = IF q = arg[p] THEN told'[q] ELSE told[q]
      /\ \A q \in Threads : children'[q] = IF q = p THEN children[p] \ {child[p]} ELSE children[q]
      /\ UNCHANGED <<tid, next_tid, parent, exit_status, wait_sema, free_sema, fork_sema, arg, child,
                     mother, code>>
  BY DEF TypeInv, WaitRead, Goto, ids, locals
<1>2. pc[p] = "wait_read"
  BY DEF WaitRead, Goto
<1>3. TypeInv'
  <2>1. /\ \A q \in Threads : pc'[q] \in MainPcs \cup SlotPcs
        /\ pc'[Main] \in MainPcs /\ \A q \in Slots : pc'[q] \in SlotPcs
    BY <1>1, <1>2 DEF TypeInv, MainPcs, SlotPcs, WaitPcs, ForkPcs, ExitPcs
  <2>2. pc' \in [Threads -> MainPcs \cup SlotPcs]
    BY <2>1 DEF TypeInv, WaitInv, Statuses, WaitRead, Goto, ids, locals
  <2>3. exit_status[child[p]] \in Statuses /\ -1 \in Statuses
    BY DEF TypeInv, Statuses
  <2>4. told' \in [Tids -> Statuses \cup {NoCode}] /\ children' \in [Threads -> SUBSET Slots]
    BY <2>3 DEF TypeInv, WaitRead
  <2> QED BY <1>1, <2>1, <2>2, <2>4 DEF TypeInv
<1>4. IdsInv'
  BY <1>1, <1>2 DEF IdsInv, WaitPcs, WaitInv
<1>5. CodeInv'
  BY <1>1, <1>2 DEF CodeInv, ExitPcs, WaitPcs, IdsInv
<1>6. ChildInv'
  BY <1>1, <1>2 DEF ChildInv, Living, WaitPcs, IdsInv, WaitInv
<1>7. WaitInv'
  BY <1>1, <1>2 DEF WaitInv, WaitPcs, IdsInv, ChildInv, Living
<1>8. SemaInv'
  BY <1>1, <1>2 DEF SemaInv, WaitPcs, MainPcs
<1>9. ForkHandover'
  BY <1>1, <1>2 DEF ForkHandover, WaitPcs, IdsInv, SemaInv, MainPcs
<1> QED BY <1>3, <1>4, <1>5, <1>6, <1>7, <1>8, <1>9

\* The mother raises free_sema of a child that is on no list.
LEMMA WaitUpStep ==
  ASSUME ProcessInv, NEW p \in Threads, WaitUp(p)
  PROVE  ProcessInv'
<1> USE Places, TypeFacts DEF ProcessInv
<1>1. /\ \A q \in Threads : pc'[q] = IF q = p THEN IF p = Main THEN "done" ELSE "user" ELSE pc[q]
      /\ \A q \in Threads : free_sema'[q] = IF q = child[p] THEN free_sema[q] + 1 ELSE free_sema[q]
      /\ UNCHANGED <<tid, next_tid, parent, children, exit_status, wait_sema, fork_sema, arg, child,
                     mother, code, told>>
  BY DEF TypeInv, WaitUp, Goto, sema_up, ids, locals, history
<1>2. pc[p] = "wait_up"
  BY DEF WaitUp, Goto
<1>3. TypeInv'
  <2>1. /\ \A q \in Threads : pc'[q] \in MainPcs \cup SlotPcs
        /\ pc'[Main] \in MainPcs /\ \A q \in Slots : pc'[q] \in SlotPcs
    <3>1. "done" \in MainPcs /\ "user" \in SlotPcs
      BY DEF MainPcs, SlotPcs
    <3> QED BY <1>1, <3>1 DEF TypeInv
  <2>2. pc' \in [Threads -> MainPcs \cup SlotPcs]
    BY <2>1 DEF TypeInv, WaitUp, Goto, sema_up, ids, locals, history
  <2> QED BY SMTT(20), <1>1, <1>2, <2>1, <2>2 DEF TypeInv, WaitUp, Goto, sema_up, ids, locals, history
<1>4. IdsInv'
  BY <1>1, <1>2 DEF IdsInv, WaitPcs
<1>5. CodeInv'
  BY <1>1, <1>2 DEF CodeInv, ExitPcs, WaitPcs, IdsInv
<1>6. ChildInv'
  BY <1>1, <1>2 DEF ChildInv, Living, WaitPcs, IdsInv, WaitInv
<1>7. WaitInv'
  BY <1>1, <1>2 DEF WaitInv, WaitPcs, IdsInv, ChildInv, Living
<1>8. SemaInv'
  BY <1>1, <1>2 DEF SemaInv, WaitPcs, MainPcs
<1>9. ForkHandover'
  BY <1>1, <1>2 DEF ForkHandover, WaitPcs, IdsInv, SemaInv, MainPcs
<1> QED BY <1>3, <1>4, <1>5, <1>6, <1>7, <1>8, <1>9

\* Every step of the specification preserves the invariant.
LEMMA ProcessStep == ProcessInv /\ [Next]_vars => ProcessInv'
<1> SUFFICES ASSUME ProcessInv, [Next]_vars PROVE ProcessInv'
  OBVIOUS
<1> USE Places
<1>1. CASE UNCHANGED vars
  BY <1>1 DEF vars, history, ProcessInv, TypeInv, IdsInv, CodeInv, ChildInv, Living, WaitInv,
              SemaInv, ForkHandover
<1>2. CASE run_task
  <2>1. arg[Main] \in 0 .. MaxTid
    BY DEF ProcessInv, TypeInv
  <2> QED BY <1>2, <2>1, WaitStep DEF run_task
<1>3. ASSUME NEW c \in Slots, process_create_initd(c) PROVE ProcessInv'
  BY <1>3, CreateStep DEF process_create_initd
<1>4. ASSUME NEW p \in Threads, Kernel(p) PROVE ProcessInv'
  <2>1. CASE sys_exit(p, "error_exit", TID_ERROR)
    <3>1. p \in Slots
      BY <2>1 DEF sys_exit, Goto, ProcessInv, TypeInv, MainPcs, WaitPcs
    <3>2. TID_ERROR \in Statuses
      BY DEF TID_ERROR, Statuses
    <3> QED BY <2>1, <3>1, <3>2, SysExitStep
  <2> QED BY <1>4, <2>1, InitdStep, DoForkStep, ForkUpStep, ForkDownStep, ForkReadStep, ExitUpStep,
             ExitDownStep, ReapStep, WaitDownStep, WaitReadStep, WaitUpStep DEF Kernel
<1>5. ASSUME NEW p \in Threads, power_off(p) PROVE ProcessInv'
  BY <1>5, <1>1 DEF power_off, vars, ids, locals, history, ProcessInv, TypeInv, IdsInv, CodeInv,
     ChildInv, Living, WaitInv, SemaInv, ForkHandover
<1>6. ASSUME NEW p \in Slots, User(p) PROVE ProcessInv'
  <2>1. ASSUME NEW c \in Slots, process_fork(p, c) PROVE ProcessInv'
    BY <2>1, CreateStep DEF process_fork
  <2>2. ASSUME NEW s \in Statuses, sys_exit(p, "user", s) PROVE ProcessInv'
    BY <2>2, SysExitStep
  <2>3. ASSUME NEW t \in Tids, process_wait(p, t) PROVE ProcessInv'
    BY <2>3, WaitStep, ProcessAssumption DEF Tids
  <2>4. ExitCodes \subseteq Statuses /\ -1 \in Statuses /\ exit_status[p] \in Statuses
    BY DEF Statuses, ProcessInv, TypeInv
  <2> QED BY <1>6, <2>1, <2>2, <2>3, <2>4 DEF User, kill, sys_exec, syscall_handler
<1> QED BY <1>1, <1>2, <1>3, <1>4, <1>5, <1>6 DEF Next

-----------------------------------------------------------------------------
(* Theorems.                                                               *)

\* The inductive invariant holds in every reachable state.
THEOREM ProcessInvariant == Spec => []ProcessInv
  BY ProcessInit, ProcessStep, PTL DEF Spec

\* process_wait and the children lists never lead to a page that was freed, or
\* that another thread has taken over since: the exiting thread waits on
\* free_sema until its mother has let go of it.
THEOREM NoStalePointers == Spec => []NoStalePtr
<1>1. ProcessInv => NoStalePtr
  BY DEF ProcessInv, ChildInv, Living, WaitInv, WaitPcs, NoStalePtr
<1> QED BY <1>1, ProcessInvariant, PTL

\* While a child copies what fork duplicates, its mother is in process_fork and
\* waits on a fork_sema of 0, so she cannot change what is copied.
THEOREM ForkHandedOver == Spec => []ForkHandover
<1>1. ProcessInv => ForkHandover
  BY DEF ProcessInv
<1> QED BY <1>1, ProcessInvariant, PTL

\* The semaphore protocol on reused pages implements the table by identifier: a
\* process ends once, and its mother learns its exit code once.
THEOREM TableImplemented == Spec => ImplementsTable
<1>1. Init => Table!Init
  BY DEF Init, Table!Init
<1>2. ProcessInv /\ [Next]_vars => [Table!Next]_(Table!vars)
  <2> SUFFICES ASSUME ProcessInv, [Next]_vars PROVE Table!Next \/ UNCHANGED Table!vars
    BY DEF Table!vars
  <2> USE Places, TypeFacts DEF ProcessInv
  <2>1. ASSUME NEW p \in Threads, NEW c \in Slots, NEW from \in {"boot", "user"},
               NEW to, NEW entry, thread_create(p, c, from, to, entry)
        PROVE  Table!Next
    <3>1. pc[p] = from /\ next_tid \in Tids /\ mother' = [mother EXCEPT ![next_tid] = tid[p]]
      BY <2>1, ProcessAssumption DEF thread_create, TypeInv, Tids
    <3>2. tid[p] \in Tids /\ tid[p] < next_tid /\ code[tid[p]] = NoCode
      BY <3>1 DEF IdsInv, CodeInv, ExitPcs
    <3>3. mother[next_tid] = 0 /\ (tid[p] = 1 \/ mother[tid[p]] # 0)
      BY <3>1, <3>2 DEF IdsInv
    <3>4. Table!Spawn(tid[p], next_tid)
      BY <2>1, <3>1, <3>2, <3>3 DEF Table!Spawn, Table!Exists, thread_create
    <3> QED BY <3>1, <3>2, <3>4 DEF Table!Next
  <2>2. ASSUME NEW p \in Slots, NEW from \in {"user", "error_exit"}, NEW s \in Statuses,
               sys_exit(p, from, s)
        PROVE  Table!Next
    <3>1. tid[p] \in Tids /\ code[tid[p]] = NoCode /\ (tid[p] = 1 \/ mother[tid[p]] # 0)
      BY <2>2 DEF sys_exit, Goto, IdsInv, CodeInv, ExitPcs
    <3>2. Table!Finish(tid[p])
      BY <2>2, <3>1 DEF sys_exit, Table!Finish, Table!Exists, Statuses
    <3> QED BY <3>1, <3>2 DEF Table!Next
  <2>3. ASSUME NEW p \in Threads, WaitRead(p) PROVE Table!Next
    <3>1. /\ pc[p] = "wait_read" /\ child[p] \in children[p] /\ pc[child[p]] = "zombie"
          /\ tid[child[p]] = arg[p] /\ arg[p] \in Tids /\ arg[p] # 0
      BY <2>3 DEF WaitRead, Goto, WaitInv, WaitPcs
    <3>2. told[arg[p]] = NoCode /\ mother[arg[p]] = tid[p]
      BY <3>1 DEF ChildInv, Living
    <3>3. tid[p] \in Tids /\ code[tid[p]] = NoCode
      BY <3>1 DEF IdsInv, CodeInv, ExitPcs
    <3>4. code[arg[p]] = exit_status[child[p]] /\ exit_status[child[p]] \in Statuses
      BY <3>1 DEF CodeInv, ExitPcs, TypeInv
    <3>5. code[arg[p]] # NoCode
      BY <3>4, ProcessAssumption DEF Statuses
    <3>6. mother[arg[p]] # 0
      BY <3>2, <3>3, ProcessAssumption DEF Tids
    <3>7. Table!Collect(arg[p])
      BY <2>3, <3>2, <3>3, <3>4, <3>5, <3>6 DEF WaitRead, Table!Collect, Table!Exists
    <3> QED BY <3>1, <3>7 DEF Table!Next
  <2>4. ASSUME NEW p \in Threads, Kernel(p) PROVE Table!Next \/ UNCHANGED Table!vars
    <3>1. CASE sys_exit(p, "error_exit", TID_ERROR)
      <4>1. p \in Slots
        BY <3>1 DEF sys_exit, Goto, TypeInv, MainPcs, WaitPcs
      <4>2. TID_ERROR \in Statuses
        BY DEF TID_ERROR, Statuses
      <4> QED BY <2>2, <3>1, <4>1, <4>2
    <3>2. CASE initd(p) \/ do_fork(p) \/ ForkUp(p) \/ ForkDown(p) \/ ForkRead(p) \/ ExitUp(p)
               \/ ExitDown(p) \/ reap(p) \/ WaitDown(p) \/ WaitUp(p)
      BY <3>2 DEF initd, do_fork, ForkUp, ForkDown, ForkRead, ExitUp, ExitDown, reap, WaitDown,
                  WaitUp, history, Table!vars
    <3> QED BY <2>3, <2>4, <3>1, <3>2 DEF Kernel
  <2>5. ASSUME NEW p \in Slots, User(p) PROVE Table!Next \/ UNCHANGED Table!vars
    <3>1. ExitCodes \subseteq Statuses /\ -1 \in Statuses /\ exit_status[p] \in Statuses
      BY DEF Statuses, TypeInv
    <3>2. ASSUME NEW t \in Tids, process_wait(p, t) PROVE UNCHANGED Table!vars
      BY <3>2 DEF process_wait, history, Table!vars
    <3> QED BY <2>1, <2>2, <2>5, <3>1, <3>2 DEF User, process_fork, kill, sys_exec, syscall_handler
  <2>6. CASE UNCHANGED vars
    BY <2>6 DEF vars, history, Table!vars
  <2>7. CASE run_task \/ \E p \in Threads : power_off(p)
    BY <2>7 DEF run_task, process_wait, power_off, history, Table!vars
  <2>8. ASSUME NEW c \in Slots, process_create_initd(c) PROVE Table!Next
    BY <2>1, <2>8 DEF process_create_initd
  <2> QED BY <2>4, <2>5, <2>6, <2>7, <2>8 DEF Next
<1> QED BY <1>1, <1>2, ProcessInvariant, PTL DEF Spec, ImplementsTable, Table!Spec
=============================================================================
