------------------------------ MODULE MCAlarm ------------------------------
(***************************************************************************)
(* Small instances of Alarm.                                               *)
(***************************************************************************)
EXTENDS Alarm

\* Negative arguments cannot be written in a configuration file.
AnyDuration == -2 .. 2
=============================================================================
