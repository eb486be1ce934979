------------------------------ MODULE MCFiles ------------------------------
(***************************************************************************)
(* Small instances of Files.                                               *)
(***************************************************************************)
EXTENDS Files

Path(abs, names) == [abs |-> abs, names |-> names]

\* A file or directory in the working directory and one below it.
SomePaths == {Path(FALSE, <<"a">>), Path(TRUE, <<"a", "b">>)}

\* With the name a directory has for itself.
DotPaths == {Path(FALSE, <<"a">>), Path(FALSE, <<"a", ".">>)}

\* A directory, and a name below one that is missing.
DirPaths == {Path(FALSE, <<"a">>), Path(FALSE, <<"c", "d">>)}

\* With Preempt, where the unlocked inode_close of sys_close is divided.
RaceSpec == Init /\ [][Next \/ \E p \in Procs : CloseEnd(p)]_vars
=============================================================================
