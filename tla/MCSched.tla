------------------------------ MODULE MCSched ------------------------------
(***************************************************************************)
(* Small instances of Sched.  The threads other than Main, the locks other *)
(* than TidLock and the plain semaphores are interchangeable.              *)
(***************************************************************************)
EXTENDS Sched, TLC

Symmetry == Permutations(Threads \ {Main}) \cup Permutations(Locks \ {TidLock})
=============================================================================
