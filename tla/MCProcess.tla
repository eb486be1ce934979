----------------------------- MODULE MCProcess -----------------------------
(***************************************************************************)
(* Small instances of Process.                                             *)
(***************************************************************************)
EXTENDS Process

\* Negative numbers cannot be written in a configuration file.
Codes == {-2}
None == -100
=============================================================================
