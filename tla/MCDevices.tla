------------------------------ MODULE MCDevices ------------------------------
(***************************************************************************)
(* The disk channel and the terminal share no state: a run exercises one   *)
(* of them, which is chosen at the start.                                  *)
(***************************************************************************)
EXTENDS Disk

CONSTANTS Readers, Writers, INTQ_BUFSIZE, MaxIntr

ASSUME TerminalAssumption ==
    /\ Readers \cap Writers = {} /\ "null" \notin Readers \cup Writers
    /\ INTQ_BUFSIZE \in Nat \ {0, 1}

VARIABLES device, mode, txq, buffer, ier, uart, console_lock, th, keys, held, caps_presses,
          pending_in, pending_out, intr_prints, load

Good == [code |-> 1, ready |-> TRUE, signature |-> TRUE, answers |-> TRUE,
         pace |-> "quick"]
Absent == [code |-> 255, ready |-> FALSE, signature |-> FALSE, answers |-> FALSE, pace |-> "quick"]
Lone == [Good EXCEPT !.code = 129]
CdRom == [Good EXCEPT !.signature = FALSE]
Dud == [Good EXCEPT !.answers = FALSE]
Pair(m, s) == [d \in Devs |-> IF d = 0 THEN m ELSE s]
Slow == [Good EXCEPT !.pace = "slow"]
Stuck == [Good EXCEPT !.pace = "stuck"]
AllKinds == {Pair(Good, Good), Pair(Lone, Absent), Pair(CdRom, Good), Pair(Dud, Good), Pair(Absent, Absent),
             Pair(Slow, Good), Pair(Stuck, Absent)}
SlowKinds == {Pair(Slow, Absent)}

\* Typing on the keyboard (A, both a plain and a prefixed shift key and caps
\* lock) while a terminal sends, and printing while it sends.
Typing == [codes |-> {30, 42, 57373, 58}, serial |-> {115}, writers |-> {}]
Printing == [codes |-> {}, serial |-> {115}, writers |-> Writers]
Loads == {Typing, Printing}

C == INSTANCE Console

conVars == <<mode, txq, buffer, ier, uart, console_lock, th, keys, held, caps_presses,
             pending_in, pending_out, intr_prints, load>>
vars == <<device, diskVars, conVars>>

Init == /\ disk_init /\ C!ConInit
        /\ \/ device = "disk" /\ load = Printing
           \/ device = "terminal" /\ kind = Pair(Good, Good)

Next == \/ device = "disk" /\ DiskNext /\ UNCHANGED <<device, conVars>>
        \/ device = "terminal" /\ C!ConNext /\ UNCHANGED <<device, diskVars>>

On(d, A) == device = d /\ A /\ UNCHANGED device

Fairness ==
    /\ WF_vars(On("disk", Boot) /\ UNCHANGED conVars)
    /\ WF_vars(On("disk", interrupt_handler) /\ UNCHANGED conVars)
    /\ WF_vars(On("disk", Answer) /\ UNCHANGED conVars)
    /\ \A t \in Threads : WF_vars(On("disk", Work(t)) /\ UNCHANGED conVars)
    /\ \A t \in Readers \cup Writers : WF_vars(On("terminal", C!Run(t)) /\ UNCHANGED diskVars)
    /\ WF_vars(On("terminal", C!serial_init_queue) /\ UNCHANGED diskVars)
    /\ WF_vars(On("terminal", C!serial_interrupt) /\ UNCHANGED diskVars)
    /\ WF_vars(On("terminal", C!transmit) /\ UNCHANGED diskVars)

Spec == Init /\ [][Next]_vars /\ Fairness

\* The terminal's properties (Console).
BytesInOrder == C!BytesInOrder
SerialArmed == C!SerialArmed
KeysAsHeld == C!KeysAsHeld
WaitAsserted == C!WaitAsserted

\* disk_init ends and every disk_read and disk_write returns (Disk); a
\* thread that prints comes to its end, and a byte in the input queue reaches
\* the thread that reads (Console).
DevicesServe == (device = "disk" => TransfersEnd) /\ C!TerminalServes
=============================================================================
