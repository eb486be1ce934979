---------------------------- MODULE DevicesProofs ----------------------------
(***************************************************************************)
(* Theorems about the devices.  The disk driver, for any number of         *)
(* threads, sectors and unexpected interrupts and any pair of devices that *)
(* answer within its limits: a read returns what was written last, and the *)
(* driver never commands a device that still works.  The terminal, for any *)
(* readers and writers and queues of any size: no byte is lost or          *)
(* overtaken, the interrupt that moves a byte is enabled, and the shift    *)
(* states are the keys held.                                               *)
(***************************************************************************)
EXTENDS MCDevices, Integers, SequenceTheorems, TLAPS

Requests == {"read", "write", "identify"}
PcRec == [op : {"idle", "reset", "check", "identify"} \cup LockOps,
          cmd : Requests \cup {"none"}, dev : Devs, sec : Sectors \cup {0}, data : Values]
HwRec == [dev : Devs, sec : Sectors \cup {0}, cmd : Requests \cup {"none", "reset", "flush"},
          sta : {"idle", "busy", "drq"}, reg : Values, irq : BOOLEAN]

\* Types; that op is never "panic" is part of them.
DiskType ==
  /\ pc \in [Threads -> PcRec]
  /\ hw \in HwRec
  /\ lock \in Threads \cup {Nobody}
  /\ platter \in [Devs -> [Sectors -> Values]]
  /\ latest \in [Devs -> [Sectors -> Values]]

Busy(t) == pc[t].op \in LockOps

\* A thread that uses the controller holds the lock; at boot, without the lock,
\* the initial thread is alone.
ControllerOwned ==
  /\ \A t \in Threads : pc[t].op = "idle" => pc[t].cmd = "none"
  /\ \A t \in Threads : pc[t].op \in {"reset", "check", "identify"} => t = Main /\ pc[t].cmd = "none"
  /\ \A t \in Threads : Busy(t) => pc[t].cmd \in Requests
  /\ \A t \in Threads : Busy(t) /\ pc[t].cmd # "identify" => lock = t /\ pc[t].sec \in Sectors
  /\ \A t \in Threads : pc[t].cmd = "identify" => t = Main
  /\ ~booted => lock = Nobody /\ \A t \in Threads \ {Main} : pc[t].op = "idle"

\* The controller is idle, or still writes a sector of a call that has returned.
Quiet == hw.sta = "idle" \/ (hw.sta = "busy" /\ hw.cmd \in {"flush", "reset"})
Aimed(t) == hw.dev = pc[t].dev /\ hw.sec = pc[t].sec

\* What the controller is doing at each place of the driver.
ControllerFits ==
  /\ pc[Main].op = "reset" => hw.sta = "idle"
  /\ (\A t \in Threads : ~Busy(t)) => Quiet
  /\ \A t \in Threads : pc[t].op = "select" => Quiet
  /\ \A t \in Threads : pc[t].op \in {"issue", "command"} => hw.sta = "idle" /\ Aimed(t)
  /\ \A t \in Threads : pc[t].op = "sema_down" /\ pc[t].cmd = "write" => Quiet
  /\ \A t \in Threads : pc[t].op \in {"busy", "transfer"} \/ (pc[t].op = "sema_down" /\ pc[t].cmd # "write")
       => Aimed(t) /\ hw.cmd = pc[t].cmd /\ (pc[t].cmd # "identify" => hw.sta # "idle")
  /\ \A t \in Threads : pc[t].op \in {"transfer", "failed"} => hw.sta # "busy"
  /\ \A t \in Threads : pc[t].op = "failed" => pc[t].cmd = "identify"
  /\ \A t \in Threads : pc[t].op = "transfer" => hw.sta = "drq"

Flushing(d, s) == hw.sta = "busy" /\ hw.cmd = "flush" /\ hw.dev = d /\ hw.sec = s

\* The sector written last is on the platter or, while the device still writes
\* it, in its buffer; data ready to be read is the sector's.
SectorsKept ==
  /\ \A d \in Devs, s \in Sectors :
       latest[d][s] = IF Flushing(d, s) THEN hw.reg ELSE platter[d][s]
  /\ hw.sta = "busy" /\ hw.cmd = "flush" => hw.sec \in Sectors
  /\ hw.sta = "drq" /\ hw.cmd = "read" => hw.sec \in Sectors /\ hw.reg = platter[hw.dev][hw.sec]
  /\ hw.sta = "busy" /\ hw.cmd = "read" => hw.sec \in Sectors

\* Without an interrupt too many, the count of the semaphore and the interrupt
\* line stand for the one command that was issued: a call comes back only after
\* its device has finished, and finds nothing left over.
Settled == ~hw.irq /\ completion_wait = 0
Pending == (hw.irq /\ completion_wait = 0) \/ (~hw.irq /\ completion_wait = 1)
Balanced ==
  /\ completion_wait \in Nat /\ spurious \in Nat
  /\ hw.sta = "busy" /\ hw.cmd = "reset" => pc[Main].op = "check"
  /\ spurious = 0 =>
       /\ (\A t \in Threads : ~Busy(t)) => 
            Settled /\ (hw.sta = "idle" \/ (hw.sta = "busy" /\ hw.cmd = "reset"))
       /\ \A t \in Threads : pc[t].op = "identify" => hw.sta = "idle"
       /\ \A t \in Threads : pc[t].op \in {"select", "issue", "command", "busy", "transfer", "failed"} => Settled
       /\ \A t \in Threads : pc[t].op = "select" => hw.sta = "idle"
       /\ \A t \in Threads : pc[t].op = "sema_down" =>
            IF hw.sta = "busy" THEN Settled ELSE expecting_interrupt /\ Pending
       /\ \A t \in Threads : pc[t].op \in {"command", "sema_down", "busy", "transfer"} => expecting_interrupt
       /\ \A t \in Threads : pc[t].op = "busy" => hw.sta # "busy" \/ hw.cmd = "write"

DiskInv ==
  /\ DiskType
  /\ Balanced
  /\ ControllerOwned
  /\ ControllerFits
  /\ SectorsKept
-----------------------------------------------------------------------------
(* Facts about the records.                                                *)

\* The fields of the two records, value by value.
LEMMA FieldFacts ==
  ASSUME DiskType
  PROVE  /\ \A t \in Threads : /\ pc[t].op \in {"idle", "reset", "check", "identify"} \cup LockOps
                               /\ pc[t].cmd \in Requests \cup {"none"}
                               /\ pc[t].dev \in Devs /\ pc[t].data \in Values
         /\ hw.dev \in Devs /\ hw.sta \in {"idle", "busy", "drq"} /\ hw.reg \in Values
  BY DEF DiskType, PcRec, HwRec

\* goto changes the operation of one thread only.
LEMMA GotoFacts ==
  ASSUME DiskType, NEW t \in Threads, NEW op \in {"idle", "reset", "check", "identify"} \cup LockOps,
         goto(t, op)
  PROVE  /\ pc' \in [Threads -> PcRec]
         /\ \A u \in Threads :
              /\ pc'[u].op = IF u = t THEN op ELSE pc[u].op
              /\ pc'[u].cmd = pc[u].cmd /\ pc'[u].dev = pc[u].dev
              /\ pc'[u].sec = pc[u].sec /\ pc'[u].data = pc[u].data
<1>1. \A r \in PcRec : [r EXCEPT !.op = op] \in PcRec
  BY DEF PcRec
<1>2. pc' = [pc EXCEPT ![t] = [pc[t] EXCEPT !.op = op]]
  BY DEF goto
<1>3. pc' \in [Threads -> PcRec]
  BY <1>1, <1>2 DEF DiskType
<1>4. \A u \in Threads : pc'[u] = IF u = t THEN [pc[t] EXCEPT !.op = op] ELSE pc[u]
  BY <1>2 DEF DiskType
<1> QED BY <1>3, <1>4 DEF DiskType, PcRec

\* A call begins or ends: the whole record of one thread changes.
LEMMA RecordFacts ==
  ASSUME DiskType, NEW t \in Threads, NEW r \in PcRec, pc' = [pc EXCEPT ![t] = r]
  PROVE  pc' \in [Threads -> PcRec] /\ \A u \in Threads : pc'[u] = IF u = t THEN r ELSE pc[u]
  BY DEF DiskType

\* Only one thread at a time uses the controller.
LEMMA Solo ==
  ASSUME DiskInv, NEW t \in Threads, NEW u \in Threads, Busy(t), Busy(u)
  PROVE  t = u
<1>1. CASE pc[t].cmd = "identify" \/ pc[u].cmd = "identify"
  BY <1>1 DEF DiskInv, ControllerOwned, booted, Busy, LockOps
<1>2. CASE pc[t].cmd # "identify" /\ pc[u].cmd # "identify"
  BY <1>2 DEF DiskInv, ControllerOwned
<1> QED BY <1>1, <1>2

\* No thread uses the controller while the channel is being reset.
LEMMA ResetAlone ==
  ASSUME DiskInv, NEW t \in Threads, Busy(t)
  PROVE  Main \in Threads /\ pc[Main].op \notin {"reset", "check"}
         /\ \A u \in Threads : pc[u].op # "identify"
  BY DiskAssumption DEF DiskInv, ControllerOwned, booted, Busy, LockOps

-----------------------------------------------------------------------------
(* The steps.                                                              *)

\* disk_init: the disks are blank and nobody holds the lock.
LEMMA DiskInit == disk_init => DiskInv
<1> SUFFICES ASSUME disk_init PROVE DiskInv
  OBVIOUS
<1>1. Zero \in Values
  BY DiskAssumption DEF Zero
<1>2. /\ pc \in [Threads -> PcRec] /\ hw \in HwRec /\ hw.sta = "idle" /\ hw.cmd = "none"
      /\ \A t \in Threads : /\ pc[t].op = IF t = Main THEN "reset" ELSE "idle"
                            /\ pc[t].cmd = "none"
  BY <1>1 DEF disk_init, PcRec, HwRec, NoOp, Devs, Requests
<1>3. DiskType
  BY <1>1, <1>2 DEF disk_init, DiskType
<1>4. ControllerOwned /\ ControllerFits
  BY <1>2, DiskAssumption DEF disk_init, ControllerOwned, ControllerFits, Quiet, Busy, LockOps, booted
<1>5. SectorsKept
  BY <1>2 DEF disk_init, SectorsKept, Flushing
<1>6. Balanced
  BY <1>2 DEF disk_init, Balanced, Settled
<1> QED BY <1>3, <1>4, <1>5, <1>6 DEF DiskInv

\* select_sector waits for the controller and aims it.
LEMMA SelectStep ==
  ASSUME DiskInv, Punctual, NEW t \in Threads, select_sector(t)
  PROVE  DiskInv'
<1> USE FieldFacts DEF DiskInv
<1>0. hw.sta = "idle" /\ hw' = [hw EXCEPT !.dev = pc[t].dev, !.sec = pc[t].sec, !.irq = FALSE]
  <2>1. pc[t].op = "select" /\ Quiet
    BY DEF select_sector, at, ControllerFits
  <2>2. hw.sta = "idle"
    BY <2>1 DEF select_sector, wait_until_idle, Punctual, Quiet, Balanced
  <2> QED BY <2>2 DEF select_sector, outb_address
<1>1. /\ Busy(t) /\ pc[t].op = "select" /\ hw.sta = "idle"
      /\ \A u \in Threads :
              /\ pc'[u].op = IF u = t THEN "issue" ELSE pc[u].op
              /\ pc'[u].cmd = pc[u].cmd /\ pc'[u].dev = pc[u].dev
              /\ pc'[u].sec = pc[u].sec /\ pc'[u].data = pc[u].data
      /\ hw'.dev = pc[t].dev /\ hw'.sec = pc[t].sec /\ hw'.sta = "idle"
      /\ hw'.cmd = hw.cmd /\ hw'.reg = hw.reg
      /\ ~hw'.irq
      /\ UNCHANGED <<lock, platter, latest, completion_wait, expecting_interrupt, spurious>>
  BY <1>0, GotoFacts DEF select_sector, at, Busy, LockOps, chan, env, DiskType, HwRec
<1>2. DiskType'
  BY <1>0, <1>1, GotoFacts DEF select_sector, LockOps, DiskType, HwRec, PcRec
<1>3. ControllerOwned'
  BY <1>1, DiskAssumption DEF ControllerOwned, Busy, booted, Requests, LockOps
<1>4. ControllerFits'
  BY <1>1, Solo, ResetAlone DEF ControllerFits, Quiet, Aimed, Busy, LockOps, ControllerOwned,
    Requests, booted
<1>5. SectorsKept'
  BY <1>1 DEF SectorsKept, Flushing
<1>6. Balanced'
  BY <1>1, Solo DEF Balanced, Settled, Busy, LockOps
<1> QED BY <1>2, <1>3, <1>4, <1>5, <1>6

\* issue_pio_command sets the flag, then commands an idle controller.
LEMMA IssueStep ==
  ASSUME DiskInv, Punctual, NEW t \in Threads, issue_pio_command(t)
  PROVE  DiskInv'
<1> USE FieldFacts DEF DiskInv
<1>1. CASE at(t, "issue") /\ expecting_interrupt' = TRUE /\ goto(t, "command") /\ UNCHANGED hw
  <2>1. /\ Busy(t) /\ pc[t].op = "issue"
        /\ \A u \in Threads :
                /\ pc'[u].op = IF u = t THEN "command" ELSE pc[u].op
                /\ pc'[u].cmd = pc[u].cmd /\ pc'[u].dev = pc[u].dev
                /\ pc'[u].sec = pc[u].sec /\ pc'[u].data = pc[u].data
        /\ UNCHANGED <<lock, platter, latest, hw, completion_wait, spurious>> /\ expecting_interrupt'
    BY <1>1, GotoFacts DEF issue_pio_command, at, Busy, LockOps, env
  <2>2. DiskType'
    BY <2>1, <1>1, GotoFacts DEF LockOps, DiskType
  <2>3. ControllerOwned'
    BY <2>1, DiskAssumption DEF ControllerOwned, Busy, booted, Requests, LockOps
  <2>4. ControllerFits'
    BY <2>1, Solo, ResetAlone DEF ControllerFits, Quiet, Aimed, Busy, LockOps, ControllerOwned,
      Requests, booted
  <2>5. SectorsKept'
    BY <2>1 DEF SectorsKept, Flushing
  <2>6. Balanced'
    BY <2>1, Solo, ResetAlone DEF Balanced, Settled, Busy, LockOps
  <2> QED BY <2>2, <2>3, <2>4, <2>5, <2>6
<1>2. CASE /\ at(t, "command") /\ hw' = outb_command(pc[t].cmd) /\ goto(t, after_command(t))
           /\ UNCHANGED expecting_interrupt
  <2>0. after_command(t) \in {"busy", "sema_down"} /\ hw.sta = "idle" /\ pc[t].op = "command"
        /\ hw' = [hw EXCEPT !.cmd = pc[t].cmd, !.sta = "busy"]
    BY <1>2 DEF after_command, ControllerFits, at, outb_command
  <2>1. /\ Busy(t)
        /\ \A u \in Threads :
                /\ pc'[u].op = IF u = t THEN after_command(t) ELSE pc[u].op
                /\ pc'[u].cmd = pc[u].cmd /\ pc'[u].dev = pc[u].dev
                /\ pc'[u].sec = pc[u].sec /\ pc'[u].data = pc[u].data
        /\ hw'.cmd = pc[t].cmd /\ hw'.sta = "busy" /\ hw'.dev = hw.dev /\ hw'.sec = hw.sec
        /\ hw'.reg = hw.reg /\ hw'.irq = hw.irq
        /\ UNCHANGED <<lock, platter, latest, completion_wait, expecting_interrupt, spurious>>
    BY <1>2, <2>0, GotoFacts DEF issue_pio_command, Busy, LockOps, DiskType, HwRec, env
  <2>2. DiskType'
    BY <2>0, <2>1, <1>2, GotoFacts DEF LockOps, DiskType, HwRec
  <2>3. ControllerOwned'
    BY <2>0, <2>1, DiskAssumption DEF ControllerOwned, Busy, booted, Requests, LockOps
  <2>4. ControllerFits'
    BY <2>0, <2>1, Solo, ResetAlone DEF ControllerFits, Quiet, Aimed, Busy, LockOps, ControllerOwned,
      Requests,
      booted, after_command
  <2>5. pc[t].cmd = "read" => hw.sec \in Sectors
    BY <2>0, <2>1 DEF ControllerFits, ControllerOwned, Aimed
  <2>6. pc[t].cmd # "flush"
    BY DEF Requests
  <2>7. SectorsKept'
    BY <2>0, <2>1, <2>5, <2>6 DEF SectorsKept, Flushing
  <2>8. pc'[t].op = "busy" => hw'.cmd = "write"
    BY <2>1 DEF after_command
  <2>9. Balanced'
    BY <2>0, <2>1, <2>8, Solo, ResetAlone DEF Balanced, Settled, Busy, LockOps, Requests
  <2> QED BY <2>2, <2>3, <2>4, <2>7, <2>9
<1> QED BY <1>1, <1>2 DEF issue_pio_command

\* sema_down lets a reader look at the status and ends a write, whose sector
\* the device may still be writing.
LEMMA SemaDownStep ==
  ASSUME DiskInv, Punctual, NEW t \in Threads, sema_down(t)
  PROVE  DiskInv'
<1> USE FieldFacts DEF DiskInv
<1>0. /\ Busy(t) /\ pc[t].op = "sema_down" /\ UNCHANGED <<platter, latest, hw, expecting_interrupt, spurious>>
      /\ completion_wait > 0 /\ completion_wait' = completion_wait - 1
  BY DEF sema_down, at, Busy, LockOps, env
<1>c. /\ completion_wait' \in Nat
      /\ spurious = 0 => hw.sta # "busy" /\ ~hw.irq /\ completion_wait' = 0
  BY <1>0 DEF Balanced, Settled, Pending
<1>s. SectorsKept'
  BY <1>0 DEF SectorsKept, Flushing
<1>1. CASE pc[t].cmd # "write"
  <2>1. /\ \A u \in Threads :
                /\ pc'[u].op = IF u = t THEN "busy" ELSE pc[u].op
                /\ pc'[u].cmd = pc[u].cmd /\ pc'[u].dev = pc[u].dev
                /\ pc'[u].sec = pc[u].sec /\ pc'[u].data = pc[u].data
        /\ UNCHANGED lock
    BY <1>1, GotoFacts DEF sema_down, LockOps
  <2>2. DiskType'
    BY <1>0, <1>1, GotoFacts DEF sema_down, LockOps, DiskType
  <2>3. ControllerOwned'
    BY <1>0, <2>1, DiskAssumption DEF ControllerOwned, Busy, booted, Requests, LockOps
  <2>4. ControllerFits'
    BY <1>0, <1>1, <2>1, Solo, ResetAlone DEF ControllerFits, Quiet, Aimed, Busy, LockOps, ControllerOwned,
      Requests, booted
  <2>5. Balanced'
    BY <1>0, <1>c, <2>1, Solo, ResetAlone DEF Balanced, Settled, Busy, LockOps
  <2> QED BY <2>2, <2>3, <2>4, <2>5, <1>s
<1>2. CASE pc[t].cmd = "write"
  <2>1. NoOp \in PcRec /\ NoOp.op = "idle" /\ NoOp.cmd = "none"
    BY DiskAssumption DEF NoOp, PcRec, Devs, Zero
  <2>2. /\ pc' \in [Threads -> PcRec] /\ lock' = Nobody
        /\ \A u \in Threads : pc'[u] = IF u = t THEN NoOp ELSE pc[u]
    BY <1>2, <2>1, RecordFacts DEF sema_down
  <2>3. DiskType'
    BY <1>0, <2>2 DEF DiskType
  <2>4. booted /\ lock = t
    BY <1>0, <1>2, DiskAssumption DEF ControllerOwned, Busy
  <2>5. ControllerOwned'
    BY <1>0, <1>2, <2>1, <2>2, <2>4, DiskAssumption DEF ControllerOwned, Busy, booted, Requests, LockOps
  <2>6. ControllerFits'
    BY <1>0, <1>2, <2>1, <2>2, Solo, ResetAlone DEF ControllerFits, Quiet, Aimed, Busy, LockOps
  <2>7. hw.sta = "busy" \/ hw.sta = "idle"
    BY <1>0, <1>2 DEF ControllerFits, Quiet
  <2>8. Balanced'
    BY <1>0, <1>c, <2>1, <2>2, <2>7, Solo, ResetAlone DEF Balanced, Settled, Busy, LockOps
  <2> QED BY <2>3, <2>5, <2>6, <2>8, <1>s
<1> QED BY <1>1, <1>2

\* wait_while_busy ends with the data of the command that was issued, or finds
\* that the device is no disk.
LEMMA BusyStep ==
  ASSUME DiskInv, Punctual, NEW t \in Threads, wait_while_busy(t)
  PROVE  DiskInv'
<1> USE FieldFacts DEF DiskInv
<1> DEFINE op == IF hw.sta = "drq" THEN "transfer" ELSE "failed"
<1>0. /\ Busy(t) /\ pc[t].op = "busy"
      /\ UNCHANGED <<lock, platter, latest, hw, completion_wait, expecting_interrupt, spurious>>
  BY DEF wait_while_busy, at, Busy, LockOps, chan, env
<1>1. hw.sta # "busy"
  BY DEF wait_while_busy, Punctual
<1>2. hw.sta = "drq" \/ pc[t].cmd = "identify"
  BY <1>0, <1>1 DEF ControllerFits
<1>3. goto(t, op)
  BY <1>1, <1>2 DEF wait_while_busy
<1>4. \A u \in Threads :
                /\ pc'[u].op = IF u = t THEN op ELSE pc[u].op
                /\ pc'[u].cmd = pc[u].cmd /\ pc'[u].dev = pc[u].dev
                /\ pc'[u].sec = pc[u].sec /\ pc'[u].data = pc[u].data
  BY <1>3, GotoFacts DEF LockOps
<1>5. DiskType'
  BY <1>0, <1>3, GotoFacts DEF LockOps, DiskType
<1>6. ControllerOwned'
  BY <1>0, <1>4, DiskAssumption DEF ControllerOwned, Busy, booted, Requests, LockOps
<1>7. ControllerFits'
  BY <1>0, <1>1, <1>2, <1>4, Solo, ResetAlone DEF ControllerFits, Quiet, Aimed, Busy, LockOps,
    ControllerOwned, Requests, booted
<1>8. SectorsKept'
  BY <1>0 DEF SectorsKept, Flushing
<1>9. Balanced'
  BY <1>0, <1>4, Solo, ResetAlone DEF Balanced, Settled, Busy, LockOps
<1> QED BY <1>5, <1>6, <1>7, <1>8, <1>9

\* At the transfer of a read or a write the data is ready.
LEMMA TransferReady ==
  ASSUME DiskInv, NEW t \in Threads, pc[t].op = "transfer", pc[t].cmd \in {"read", "write"}
  PROVE  /\ Busy(t) /\ lock = t /\ booted /\ pc[t].sec \in Sectors
         /\ hw.sta = "drq" /\ hw.cmd = pc[t].cmd /\ Aimed(t)
<1>1. Busy(t)
  BY DEF Busy, LockOps
<1>2. hw.sta = "drq" /\ hw.cmd = pc[t].cmd /\ Aimed(t)
  BY FieldFacts DEF DiskInv, ControllerFits
<1>3. lock = t /\ pc[t].sec \in Sectors
  BY <1>1 DEF DiskInv, ControllerOwned
<1>4. booted
  BY <1>3, DiskAssumption DEF DiskInv, ControllerOwned
<1> QED BY <1>1, <1>2, <1>3, <1>4

\* input_sector ends a read.
LEMMA InputStep ==
  ASSUME DiskInv, Punctual, NEW t \in Threads, input_sector(t)
  PROVE  DiskInv'
<1> USE FieldFacts DEF DiskInv
<1> DEFINE r == [NoOp EXCEPT !.data = hw.reg]
<1>0. /\ pc[t].op = "transfer" /\ pc[t].cmd = "read" /\ UNCHANGED <<platter, latest>> /\ lock' = Nobody
      /\ Busy(t) /\ lock = t /\ booted /\ hw.sta = "drq" /\ hw.cmd = "read"
      /\ UNCHANGED <<completion_wait, expecting_interrupt, spurious>>
  BY TransferReady DEF input_sector, at, env
<1>1. r \in PcRec /\ r.op = "idle" /\ r.cmd = "none"
  BY DiskAssumption DEF NoOp, PcRec, Devs, Zero
<1>2. pc' \in [Threads -> PcRec] /\ \A u \in Threads : pc'[u] = IF u = t THEN r ELSE pc[u]
  BY <1>1, RecordFacts DEF input_sector
<1>3. /\ hw' = [hw EXCEPT !.sta = "idle"]
      /\ hw'.sta = "idle" /\ hw'.cmd = "read" /\ hw'.dev = hw.dev /\ hw'.sec = hw.sec
      /\ hw'.irq = hw.irq
  BY <1>0 DEF input_sector, DiskType, HwRec
<1> HIDE DEF r
<1>4. DiskType'
  BY <1>0, <1>2, <1>3 DEF DiskType, HwRec
<1>5. ControllerOwned'
  BY <1>0, <1>1, <1>2, DiskAssumption DEF ControllerOwned, Busy, booted, Requests, LockOps
<1>6. ControllerFits'
  BY <1>0, <1>1, <1>2, <1>3, Solo, ResetAlone DEF ControllerFits, Quiet, Aimed, Busy, LockOps
<1>7. SectorsKept'
  BY <1>0, <1>3 DEF SectorsKept, Flushing
<1>8. Balanced'
  BY <1>0, <1>1, <1>2, <1>3, Solo DEF Balanced, Settled, Busy, LockOps
<1> QED BY <1>4, <1>5, <1>6, <1>7, <1>8

\* output_sector hands the sector to the device, which begins to write it.
LEMMA OutputStep ==
  ASSUME DiskInv, Punctual, NEW t \in Threads, output_sector(t)
  PROVE  DiskInv'
<1> USE FieldFacts DEF DiskInv
<1>0. /\ pc[t].op = "transfer" /\ pc[t].cmd = "write" /\ UNCHANGED <<platter, lock>> /\ goto(t, "sema_down")
      /\ latest' = [latest EXCEPT ![pc[t].dev][pc[t].sec] = pc[t].data]
      /\ hw' = [hw EXCEPT !.sta = "busy", !.cmd = "flush", !.reg = pc[t].data]
      /\ Busy(t) /\ hw.sta = "drq" /\ Aimed(t) /\ pc[t].sec \in Sectors
      /\ UNCHANGED <<completion_wait, expecting_interrupt, spurious>>
  BY TransferReady DEF output_sector, at, chan, env
<1>1. \A u \in Threads :
                /\ pc'[u].op = IF u = t THEN "sema_down" ELSE pc[u].op
                /\ pc'[u].cmd = pc[u].cmd /\ pc'[u].dev = pc[u].dev
                /\ pc'[u].sec = pc[u].sec /\ pc'[u].data = pc[u].data
  BY <1>0, GotoFacts DEF LockOps
<1>2. /\ hw'.sta = "busy" /\ hw'.cmd = "flush" /\ hw'.reg = pc[t].data
      /\ hw'.dev = pc[t].dev /\ hw'.sec = pc[t].sec /\ hw'.irq = hw.irq
  BY <1>0 DEF DiskType, HwRec, Aimed
<1>3. /\ latest' \in [Devs -> [Sectors -> Values]]
      /\ \A d \in Devs, s \in Sectors : latest'[d][s] = IF d = pc[t].dev /\ s = pc[t].sec
                                                     THEN pc[t].data ELSE latest[d][s]
  BY <1>0 DEF DiskType
<1>4. DiskType'
  BY <1>0, <1>3, GotoFacts DEF LockOps, DiskType, HwRec
<1>5. ControllerOwned'
  BY <1>0, <1>1, DiskAssumption DEF ControllerOwned, Busy, booted, Requests, LockOps
<1>6. ControllerFits'
  BY <1>0, <1>1, <1>2, Solo, ResetAlone DEF ControllerFits, Quiet, Aimed, Busy, LockOps,
    ControllerOwned, Requests, booted
<1>7. SectorsKept'
  BY <1>0, <1>2, <1>3 DEF SectorsKept, Flushing
<1>8. spurious = 0 => expecting_interrupt
  BY <1>0 DEF Balanced
<1>9. Balanced'
  BY <1>0, <1>1, <1>2, <1>8, Solo DEF Balanced, Settled, Busy, LockOps
<1> QED BY <1>4, <1>5, <1>6, <1>7, <1>9

\* A thread calls disk_read or disk_write of a sector.
LEMMA CallStep ==
  ASSUME DiskInv, Punctual, NEW t \in Threads, Call(t)
  PROVE  DiskInv'
<1> USE FieldFacts DEF DiskInv
<1>1. PICK r \in PcRec : /\ pc' = [pc EXCEPT ![t] = r] /\ r.op = "select"
                         /\ r.cmd \in {"read", "write"} /\ r.sec \in Sectors
  <2>1. PICK d \in Devs, s \in Sectors : disk_read(t, d, s) \/ \E v \in Values : disk_write(t, d, s, v)
    BY DEF Call
  <2>2. CASE disk_read(t, d, s)
    <3> DEFINE q == [NoOp EXCEPT !.op = "select", !.cmd = "read", !.dev = d, !.sec = s]
    <3>1. Zero \in Values
      BY DiskAssumption DEF Zero
    <3>2. q \in PcRec /\ q.op = "select" /\ q.cmd = "read" /\ q.sec = s
      BY <3>1 DEF PcRec, NoOp, LockOps, Requests, Devs
    <3>3. pc' = [pc EXCEPT ![t] = q]
      BY <2>2 DEF disk_read
    <3> QED BY <3>2, <3>3
  <2>3. CASE \E v \in Values : disk_write(t, d, s, v)
    <3>1. PICK v \in Values : disk_write(t, d, s, v)
      BY <2>3
    <3> DEFINE q == [op |-> "select", cmd |-> "write", dev |-> d, sec |-> s, data |-> v]
    <3>2. q \in PcRec /\ q.op = "select" /\ q.cmd = "write" /\ q.sec = s
      BY DEF PcRec, LockOps, Requests
    <3>3. pc' = [pc EXCEPT ![t] = q]
      BY <3>1 DEF disk_write
    <3> QED BY <3>2, <3>3
  <2> QED BY <2>1, <2>2, <2>3
<1>2. /\ pc[t].op = "idle" /\ booted /\ lock = Nobody /\ lock' = t
      /\ UNCHANGED <<hw, platter, latest, completion_wait, expecting_interrupt, spurious>>
  BY DEF Call, disk_read, disk_write, lock_acquire, at, env
<1>3. pc' \in [Threads -> PcRec] /\ \A u \in Threads : pc'[u] = IF u = t THEN r ELSE pc[u]
  BY <1>1, RecordFacts
<1>4. DiskType'
  BY <1>2, <1>3 DEF DiskType
<1>5. \A u \in Threads : ~Busy(u)
  BY <1>2, DiskAssumption DEF ControllerOwned, booted, Busy, LockOps
<1>6. ControllerOwned'
  BY <1>1, <1>2, <1>3, <1>5, DiskAssumption DEF ControllerOwned, Busy, booted, Requests, LockOps
<1>7. ControllerFits'
  BY <1>1, <1>2, <1>3, <1>5 DEF ControllerFits, Quiet, Aimed, Busy, LockOps
<1>8. SectorsKept'
  BY <1>2 DEF SectorsKept, Flushing
<1>9. Balanced'
  BY <1>1, <1>2, <1>3, <1>5 DEF Balanced, Settled, Busy, LockOps, booted
<1> QED BY <1>4, <1>6, <1>7, <1>8, <1>9

\* An interrupt changes nothing that the driver's loops look at.
LEMMA InterruptStep ==
  ASSUME DiskInv, Punctual, interrupt_handler \/ spurious_interrupt
  PROVE  DiskInv'
<1>1. /\ UNCHANGED <<lock, pc, platter, latest>> /\ hw' \in HwRec
      /\ hw'.dev = hw.dev /\ hw'.sec = hw.sec /\ hw'.cmd = hw.cmd /\ hw'.sta = hw.sta /\ hw'.reg = hw.reg
  BY DEF interrupt_handler, spurious_interrupt, chan, DiskInv, DiskType, HwRec
<1>2. DiskType'
  BY <1>1 DEF DiskInv, DiskType
<1>3. ControllerOwned'
  BY <1>1 DEF DiskInv, ControllerOwned, Busy, booted
<1>4. ControllerFits'
  BY <1>1 DEF DiskInv, ControllerFits, Quiet, Aimed, Busy
<1>5. SectorsKept'
  BY <1>1 DEF DiskInv, SectorsKept, Flushing
<1>6. Balanced'
  <2>1. CASE interrupt_handler
    <3>1. completion_wait' = completion_wait + (IF expecting_interrupt THEN 1 ELSE 0) /\ ~hw'.irq /\ hw.irq
          /\ UNCHANGED <<expecting_interrupt, spurious>>
      BY <2>1 DEF interrupt_handler, env, DiskInv, DiskType, HwRec
    <3> QED BY <1>1, <3>1 DEF DiskInv, Balanced, Settled, Pending, Busy, LockOps
  <2>2. CASE spurious_interrupt
    BY <2>2 DEF spurious_interrupt, chan, DiskInv, Balanced
  <2> QED BY <2>1, <2>2
<1> QED BY <1>2, <1>3, <1>4, <1>5, <1>6 DEF DiskInv

\* The device ends its command; the data of a flush reach the platter.
LEMMA DeviceStep ==
  ASSUME DiskInv, Punctual, device_done
  PROVE  DiskInv'
<1> USE FieldFacts DEF DiskInv
<1>0. UNCHANGED <<lock, pc, latest, completion_wait, expecting_interrupt, spurious>> /\ hw.sta = "busy"
  BY DEF device_done, chan, env
<1>1. ControllerOwned'
  BY <1>0 DEF ControllerOwned, Busy, booted
<1>2. CASE hw.cmd = "flush"
  <2>1. /\ hw' = [hw EXCEPT !.sta = "idle", !.irq = TRUE]
        /\ platter' = [platter EXCEPT ![hw.dev][hw.sec] = hw.reg]
    BY <1>2 DEF device_done
  <2>2. hw'.dev = hw.dev /\ hw'.sec = hw.sec /\ hw'.cmd = "flush" /\ hw'.sta = "idle"
                      /\ hw'.irq
    BY <1>2, <2>1 DEF DiskType, HwRec
  <2>3. /\ platter' \in [Devs -> [Sectors -> Values]]
        /\ \A d \in Devs, s \in Sectors :
              platter'[d][s] = IF d = hw.dev /\ s = hw.sec THEN hw.reg ELSE platter[d][s]
    BY <2>1 DEF DiskType
  <2>4. DiskType'
    BY <1>0, <2>1, <2>3 DEF DiskType, HwRec
  <2>5. ControllerFits'
    BY <1>0, <1>2, <2>2 DEF ControllerFits, Quiet, Aimed, Busy, LockOps, ControllerOwned, Requests
  <2>6. SectorsKept'
    BY <1>0, <1>2, <2>2, <2>3 DEF SectorsKept, Flushing
  <2>7. Balanced'
    BY <1>0, <1>2, <2>2 DEF Balanced, Settled, Pending, Busy, LockOps, ControllerFits, ControllerOwned, Requests
  <2> QED BY <1>1, <2>4, <2>5, <2>6, <2>7
<1>3. CASE hw.cmd # "flush"
  <2>1. /\ hw'.dev = hw.dev /\ hw'.sec = hw.sec /\ hw'.cmd = hw.cmd
        /\ hw.cmd \in {"read", "write"} => hw'.sta = "drq"
        /\ hw.cmd = "identify" => hw'.sta \in {"drq", "idle"}
        /\ hw.cmd \notin {"read", "write", "identify"} => hw'.sta = "idle"
        /\ hw.cmd = "read" => hw'.reg = platter[hw.dev][hw.sec]
        /\ hw'.irq = IF hw.cmd \in {"reset", "write"} THEN hw.irq ELSE TRUE
        /\ platter' = platter
    BY <1>3 DEF device_done, DiskType, HwRec
  <2>2. hw.cmd = "read" => platter[hw.dev][hw.sec] \in Values
    BY <1>0 DEF SectorsKept, DiskType
  <2>3. hw' \in HwRec
    BY <1>3, <2>2 DEF device_done, DiskType, HwRec
  <2>4. DiskType'
    BY <1>0, <2>1, <2>3 DEF DiskType
  <2>5. ControllerFits'
    BY <1>0, <1>3, <2>1 DEF ControllerFits, Quiet, Aimed, Busy, LockOps, ControllerOwned, Requests
  <2>6. SectorsKept'
    BY <1>0, <1>3, <2>1 DEF SectorsKept, Flushing
  <2>7. Balanced'
    <3>1. ASSUME NEW t \in Threads, pc[t].op = "sema_down" PROVE hw.cmd \in {"read", "identify"}
      <4>1. pc[Main].op # "check"
        BY <3>1, DiskAssumption DEF ControllerOwned, booted
      <4>2. hw.cmd # "reset"
        BY <1>0, <4>1 DEF Balanced
      <4>3. pc[t].cmd # "write" /\ hw.cmd = pc[t].cmd /\ pc[t].cmd \in Requests
        BY <1>0, <1>3, <3>1, <4>2 DEF ControllerFits, Quiet, ControllerOwned, Busy, LockOps
      <4> QED BY <4>3 DEF Requests
    <3>2. ASSUME NEW t \in Threads, pc[t].op \in {"select", "issue", "command", "busy", "transfer", "failed"},
                 spurious = 0
          PROVE  hw.cmd = "write"
      BY <1>0, <1>3, <3>2 DEF Balanced, ControllerFits
    <3>3. spurious = 0 /\ (\A t \in Threads : ~Busy(t)) => hw.cmd = "reset"
      BY <1>0 DEF Balanced
    <3>4. \A t \in Threads : Busy(t) => pc[t].op \in {"select", "issue", "command", "busy", "transfer", "failed", "sema_down"}
      BY DEF Busy, LockOps
    <3>5. spurious = 0 => \A t \in Threads : pc[t].op # "identify"
      BY <1>0 DEF Balanced
    <3> QED BY <1>0, <2>1, <3>1, <3>2, <3>3, <3>4, <3>5 DEF Balanced, Settled, Pending, Busy
  <2> QED BY <1>1, <2>4, <2>5, <2>6, <2>7
<1> QED BY <1>2, <1>3

\* What next_device leaves in the record of the initial thread.
LEMMA NextDevice ==
  ASSUME NEW d
  PROVE  /\ next_device(d) \in PcRec /\ next_device(d).cmd = "none"
         /\ next_device(d).op \in {"identify", "idle"}
<1>1. Zero \in Values
  BY DiskAssumption DEF Zero
<1> QED BY <1>1 DEF next_device, NoOp, PcRec, Devs, Requests

\* At boot the initial thread has the channel for itself.
LEMMA BootStep ==
  ASSUME DiskInv, Punctual, Boot
  PROVE  DiskInv'
<1> USE FieldFacts, DiskAssumption DEF DiskInv
<1>1. UNCHANGED <<lock, platter, latest, completion_wait, expecting_interrupt, spurious>>
  BY DEF Boot, reset_channel, disk_init_check, identify_ata_device, identify_done, chan, env
<1>2. /\ ~booted /\ lock = Nobody
      /\ \A t \in Threads \ {Main} : pc[t].op = "idle"
  BY DEF Boot, reset_channel, disk_init_check, identify_ata_device, identify_done, at, booted,
    ControllerOwned
<1>3. CASE reset_channel \/ disk_init_check
  <2>1. /\ pc[Main].op \in {"reset", "check"}
        /\ pc[Main].cmd = "none"
        /\ \A t \in Threads : ~Busy(t)
    BY <1>2, <1>3 DEF reset_channel, disk_init_check, at, ControllerOwned, Busy, LockOps
  <2>2. /\ pc' \in [Threads -> PcRec]
        /\ pc'[Main].op \in {"check", "identify"} /\ pc'[Main].cmd = "none"
        /\ \A t \in Threads \ {Main} : pc'[t] = pc[t]
    <3>1. \A p \in PcRec : /\ [p EXCEPT !.op = "check"] \in PcRec
                           /\ [p EXCEPT !.op = "identify", !.dev = 0] \in PcRec
      BY DEF PcRec, Devs
    <3>2. CASE pc' = [pc EXCEPT ![Main] = [pc[Main] EXCEPT !.op = "check"]]
      BY <2>1, <3>1, <3>2 DEF DiskType, PcRec
    <3>3. CASE pc' = [pc EXCEPT ![Main] = [pc[Main] EXCEPT !.op = "identify", !.dev = 0]]
      BY ZenonT(30), <2>1, <3>1, <3>3 DEF DiskType, PcRec
    <3> QED BY <1>3, <3>2, <3>3 DEF reset_channel, disk_init_check, goto
  <2>3. hw' \in HwRec
    BY <1>3 DEF reset_channel, disk_init_check, DiskType, HwRec, Devs
  <2>4. /\ hw'.sta = "idle" \/ (hw'.sta = "busy" /\ hw'.cmd = "reset" /\ pc'[Main].op = "check")
        /\ hw'.irq = hw.irq
    <3>1. CASE reset_channel
      BY <3>1, GotoFacts, DiskAssumption DEF reset_channel, DiskType, HwRec
    <3>2. CASE disk_init_check
      BY <3>2 DEF disk_init_check, DiskType, HwRec
    <3> QED BY <1>3, <3>1, <3>2
  <2>5. DiskType'
    BY <1>1, <2>2, <2>3 DEF DiskType
  <2>6. ControllerOwned'
    BY <1>1, <1>2, <2>2 DEF ControllerOwned, Busy, booted, Requests, LockOps
  <2>7. \A t \in Threads : ~Busy(t)'
    BY <1>2, <2>2 DEF Busy, LockOps
  <2>8. ControllerFits'
    BY <2>2, <2>4, <2>7 DEF ControllerFits, Quiet, Aimed, Busy, LockOps
  <2>9. hw.sta = "idle" \/ hw.cmd # "flush"
    BY <1>3 DEF reset_channel, disk_init_check, at, ControllerFits
  <2>10. SectorsKept'
    BY <1>1, <2>4, <2>9 DEF SectorsKept, Flushing
  <2>11. Balanced'
    BY <1>1, <1>2, <2>1, <2>2, <2>4, <2>7 DEF Balanced, Settled, Busy, LockOps
  <2> QED BY <2>5, <2>6, <2>8, <2>10, <2>11
<1>4. CASE identify_ata_device
  <2>1. pc[Main].op = "identify" /\ pc[Main].cmd = "none" /\ UNCHANGED hw /\ \A t \in Threads : ~Busy(t)
    BY <1>2, <1>4 DEF identify_ata_device, at, ControllerOwned, Busy, LockOps
  <2>2. PICK r \in PcRec : /\ pc' = [pc EXCEPT ![Main] = r]
                           /\ r.op \in {"select", "identify", "idle"}
                           /\ r.cmd = IF r.op = "select" THEN "identify" ELSE "none"
    <3>1. CASE is_ata[pc[Main].dev]
      <4> DEFINE q == [pc[Main] EXCEPT !.op = "select", !.cmd = "identify"]
      <4>1. q \in PcRec /\ q.op = "select" /\ q.cmd = "identify"
        BY DEF DiskType, PcRec, LockOps, Requests
      <4>2. pc' = [pc EXCEPT ![Main] = q]
        BY <1>4, <3>1 DEF identify_ata_device
      <4> QED BY <4>1, <4>2
    <3>2. CASE ~is_ata[pc[Main].dev]
      BY <1>4, <3>2, NextDevice DEF identify_ata_device
    <3> QED BY <3>1, <3>2
  <2>3. pc' \in [Threads -> PcRec] /\ \A u \in Threads : pc'[u] = IF u = Main THEN r ELSE pc[u]
    BY <2>2, RecordFacts
  <2>4. DiskType'
    BY <1>1, <2>1, <2>3 DEF DiskType
  <2>5. ControllerOwned'
    BY <1>1, <1>2, <2>2, <2>3 DEF ControllerOwned, Busy, booted, Requests, LockOps
  <2>6. ControllerFits'
    BY <1>2, <2>1, <2>2, <2>3 DEF ControllerFits, Quiet, Aimed, Busy, LockOps
  <2>7. SectorsKept'
    BY <1>1, <2>1 DEF SectorsKept, Flushing
  <2>8. Balanced'
    BY <1>1, <1>2, <2>1, <2>2, <2>3 DEF Balanced, Settled, Busy, LockOps
  <2> QED BY <2>4, <2>5, <2>6, <2>7, <2>8
<1>5. CASE identify_done
  <2>0. hw.sta # "busy" /\ pc[Main].op \in {"transfer", "failed"}
    BY <1>5 DEF identify_done, at, ControllerFits
  <2>1. hw.sta # "busy" /\ hw' = [hw EXCEPT !.sta = "idle"]
    BY <1>5, <2>0 DEF identify_done, DiskType, HwRec
  <2>2. PICK r \in PcRec : /\ pc' = [pc EXCEPT ![Main] = r]
                           /\ r.op \in {"identify", "idle"} /\ r.cmd = "none"
    BY <1>5, NextDevice DEF identify_done
  <2>3. pc' \in [Threads -> PcRec] /\ \A u \in Threads : pc'[u] = IF u = Main THEN r ELSE pc[u]
    BY <2>2, RecordFacts
  <2>4. hw' \in HwRec /\ hw'.sta = "idle" /\ hw'.irq = hw.irq
    BY <2>1 DEF DiskType, HwRec
  <2>5. DiskType'
    BY <1>1, <2>3, <2>4 DEF DiskType
  <2>6. ControllerOwned'
    BY <1>1, <1>2, <2>2, <2>3 DEF ControllerOwned, Busy, booted, Requests, LockOps
  <2>7. ControllerFits'
    BY <1>2, <2>2, <2>3, <2>4 DEF ControllerFits, Quiet, Aimed, Busy, LockOps
  <2>8. SectorsKept'
    BY <1>1, <2>1, <2>4 DEF SectorsKept, Flushing
  <2>9. Balanced'
    BY <1>1, <1>2, <2>0, <2>2, <2>3, <2>4 DEF Balanced, Settled, Busy, LockOps
  <2> QED BY <2>5, <2>6, <2>7, <2>8, <2>9
<1> QED BY <1>3, <1>4, <1>5 DEF Boot

\* Devices do not change and interrupts are only added: what is punctual after
\* a step was so before it.
LEMMA PunctualBefore ==
  ASSUME spurious \in Nat, [DiskNext]_diskVars
  PROVE  spurious' \in Nat /\ (Punctual' => Punctual)
<1>1. kind' = kind /\ (spurious' = spurious \/ spurious' = spurious + 1)
  BY DEF DiskNext, Boot, reset_channel, disk_init_check, identify_ata_device, identify_done, Work,
    Call, disk_read, disk_write, select_sector, issue_pio_command, sema_down, wait_while_busy,
    input_sector, output_sector, interrupt_handler, device_done, spurious_interrupt, env, diskVars
<1> QED BY <1>1 DEF Punctual

\* While the devices are punctual, DiskInv holds.
DriverInv == spurious \in Nat /\ (Punctual => DiskInv)

\* DriverInv is inductive.
LEMMA DiskStep == DriverInv /\ [DiskNext]_diskVars => DriverInv'
<1> SUFFICES ASSUME DriverInv, [DiskNext]_diskVars, Punctual' PROVE DiskInv'
  BY PunctualBefore DEF DriverInv
<1>0. DiskInv /\ Punctual
  BY PunctualBefore DEF DriverInv
<1>1. CASE Boot
  BY <1>0, <1>1, BootStep
<1>2. ASSUME NEW t \in Threads, Work(t) PROVE DiskInv'
  BY <1>0, <1>2, SelectStep, IssueStep, SemaDownStep, BusyStep, InputStep, OutputStep DEF Work
<1>3. ASSUME NEW t \in Threads, Call(t) PROVE DiskInv'
  BY <1>0, <1>3, CallStep
<1>4. CASE interrupt_handler \/ device_done \/ spurious_interrupt
  BY <1>0, <1>4, InterruptStep, DeviceStep
<1>5. CASE UNCHANGED diskVars
  BY <1>0, <1>5 DEF diskVars, DiskInv, DiskType, ControllerOwned, ControllerFits, SectorsKept, Busy, Quiet,
    Aimed, Flushing, booted, Balanced, Settled, Pending
<1> QED BY <1>1, <1>2, <1>3, <1>4, <1>5 DEF DiskNext

-----------------------------------------------------------------------------
(* The theorems.                                                           *)

\* While the devices are punctual, the lock, the places of the threads, the
\* registers, the interrupts and the contents of the sectors agree.
THEOREM DiskInvariant == DiskSpec => []DriverInv
<1>1. disk_init => DriverInv
  BY DiskInit DEF DriverInv, disk_init
<1> QED BY <1>1, DiskStep, PTL DEF DiskSpec

\* disk_read and disk_write find the device with data: no PANIC ("disk read
\* failed", "disk write failed") with quick devices, however many unexpected
\* interrupts let a thread run ahead of them, nor with slow ones before the
\* first such interrupt.
THEOREM DriverNeverPanics == DiskSpec => []NoPanic
<1>1. DriverInv => NoPanic
  BY FieldFacts DEF DriverInv, DiskInv, NoPanic, at, LockOps
<1> QED BY <1>1, DiskInvariant, PTL

\* Every disk_read returns what the last disk_write of the sector handed to
\* the device: with quick devices although that write may have returned before
\* its interrupt, with slow ones as long as no unexpected interrupt came.
THEOREM ReadsReturnLatest == DiskSpec => ReadsLatest
<1> DEFINE Latest == \A t \in Threads : Punctual /\ at(t, "transfer") /\ pc[t].cmd = "read" /\ pc'[t].op = "idle"
                        => pc'[t].data = latest[pc[t].dev][pc[t].sec]
<1>1. ASSUME DriverInv, [DiskNext]_diskVars PROVE [Latest]_diskVars
  <2> SUFFICES ASSUME NEW t \in Threads, DiskInv, at(t, "transfer"), pc[t].cmd = "read", pc'[t].op = "idle"
               PROVE  pc'[t].data = latest[pc[t].dev][pc[t].sec]
    BY <1>1 DEF DriverInv
  <2>1. /\ Busy(t) /\ booted /\ lock = t /\ pc[t].sec \in Sectors /\ pc[t].op = "transfer"
        /\ hw.sta = "drq" /\ hw.cmd = "read" /\ Aimed(t)
    BY <1>1, TransferReady DEF at
  <2>2. hw.reg = latest[pc[t].dev][pc[t].sec]
    BY <1>1, <2>1, FieldFacts DEF DiskInv, SectorsKept, Flushing, Aimed
  <2>3. input_sector(t)
    <3>1. ~Boot
      BY <2>1 DEF Boot, reset_channel, disk_init_check, identify_ata_device, identify_done, at, booted
    <3>2. ~UNCHANGED pc
      BY <2>1
    <3>3. PICK u \in Threads : Work(u) \/ Call(u)
      BY <1>1, <3>1, <3>2 DEF DiskNext, interrupt_handler, device_done, spurious_interrupt, diskVars
    <3>4. pc'[t] # pc[t]
      BY <2>1
    <3>5. u = t
      BY <1>1, <3>3, <3>4 DEF Work, Call, select_sector, issue_pio_command, sema_down, wait_while_busy,
        input_sector, output_sector, disk_read, disk_write, goto, DiskInv, DiskType
    <3> QED BY <2>1, <3>3, <3>5 DEF Work, Call, select_sector, issue_pio_command, sema_down,
          wait_while_busy, output_sector, disk_read, disk_write, at
  <2>4. pc'[t] = [NoOp EXCEPT !.data = hw.reg]
    BY <1>1, <2>3 DEF input_sector, DiskInv, DiskType
  <2> QED BY <2>2, <2>4 DEF NoOp
<1>2. [][Latest]_diskVars => ReadsLatest
  BY DEF ReadsLatest
<1> QED BY <1>1, <1>2, DiskInvariant, PTL DEF DiskSpec
-----------------------------------------------------------------------------
(* The terminal: the ring of an interrupt queue.                           *)

N == INTQ_BUFSIZE
Pos == 0 .. N - 1
Ring(S) == [buf : [Pos -> S], head : Pos, tail : Pos,
            not_full : Writers \cup {C!NULL}, not_empty : Readers \cup {C!NULL},
            lock : Readers \cup Writers \cup {C!NULL}]

\* A ring has at least two places.
LEMMA Constants == N \in Nat /\ N >= 2 /\ INTQ_BUFSIZE = N
  BY TerminalAssumption DEF N

\* Remainders of positions and of their sums.
LEMMA ModSmall == \A a \in Pos : a % N = a
  BY Constants DEF Pos
\* Once around.
LEMMA ModOver == \A a \in N .. 2 * N - 1 : a % N = a - N
  BY Constants

\* Positions of the ring without division.
LEMMA RingArith ==
  /\ \A p \in Pos : C!next(p) = IF p + 1 = N THEN 0 ELSE p + 1
  /\ \A p \in Pos : C!next(p) \in Pos
  /\ \A h, t \in Pos : (h + N - t) % N = IF h >= t THEN h - t ELSE h + N - t
  /\ \A t \in Pos, i \in 1 .. N : (t + i - 1) % N = IF t + i - 1 < N THEN t + i - 1 ELSE t + i - 1 - N
<1>1. \A p \in Pos : p + 1 \in Pos \/ p + 1 \in N .. 2 * N - 1
  BY Constants DEF Pos
<1>2. \A h, t \in Pos : (h + N - t \in Pos /\ ~(h >= t)) \/ (h + N - t \in N .. 2 * N - 1 /\ h >= t)
  BY Constants DEF Pos
<1>3. \A t \in Pos, i \in 1 .. N : (t + i - 1 \in Pos /\ t + i - 1 < N)
                                    \/ (t + i - 1 \in N .. 2 * N - 1 /\ ~(t + i - 1 < N))
  BY Constants DEF Pos
<1>4. \A p \in Pos : C!next(p) = IF p + 1 = N THEN 0 ELSE p + 1
  BY <1>1, ModSmall, ModOver, Constants DEF C!next, Pos
<1>5. \A p \in Pos : C!next(p) \in Pos
  BY <1>4, Constants DEF Pos
<1>6. \A h, t \in Pos : (h + N - t) % N = IF h >= t THEN h - t ELSE h + N - t
  BY <1>2, ModSmall, ModOver, Constants DEF Pos
<1>7. \A t \in Pos, i \in 1 .. N : (t + i - 1) % N = IF t + i - 1 < N THEN t + i - 1 ELSE t + i - 1 - N
  BY <1>3, ModSmall, ModOver, Constants DEF Pos
<1> QED BY <1>4, <1>5, <1>6, <1>7

\* The number of bytes between two positions, and the position of a byte.
Span(h, t) == IF h >= t THEN h - t ELSE h + N - t
Spot(t, i) == IF t + i - 1 < N THEN t + i - 1 ELSE t + i - 1 - N
NextPos(p) == IF p + 1 = N THEN 0 ELSE p + 1

\* How far the head is from the tail, and the places between them.
LEMMA SpanFacts ==
  ASSUME NEW h \in Pos, NEW t \in Pos
  PROVE  /\ Span(h, t) \in 0 .. N - 1
         /\ \A i \in 1 .. N : Spot(t, i) \in Pos
         /\ Spot(t, 1) = t
         /\ h = t <=> Span(h, t) = 0
         /\ NextPos(h) = t <=> Span(h, t) = N - 1
         /\ Spot(t, Span(h, t) + 1) = h
         /\ \A i \in 1 .. Span(h, t) : Spot(t, i) # h
         /\ Span(h, t) < N - 1 => Span(NextPos(h), t) = Span(h, t) + 1
         /\ Span(h, t) > 0 => Span(h, NextPos(t)) = Span(h, t) - 1
         /\ \A i \in 1 .. N - 1 : Spot(NextPos(t), i) = Spot(t, i + 1) /\ Spot(t, i + 1) # t
<1> USE Constants DEF Pos, Span, Spot, NextPos
<1>1. Span(h, t) \in 0 .. N - 1
  OBVIOUS
<1>2. \A i \in 1 .. N : Spot(t, i) \in Pos
  OBVIOUS
<1>3. Spot(t, 1) = t
  OBVIOUS
<1>4. h = t <=> Span(h, t) = 0
  OBVIOUS
<1>5. NextPos(h) = t <=> Span(h, t) = N - 1
  OBVIOUS
<1>6. Spot(t, Span(h, t) + 1) = h
  OBVIOUS
<1>7. \A i \in 1 .. Span(h, t) : Spot(t, i) # h
  OBVIOUS
<1>8. Span(h, t) < N - 1 => Span(NextPos(h), t) = Span(h, t) + 1
  OBVIOUS
<1>9. Span(h, t) > 0 => Span(h, NextPos(t)) = Span(h, t) - 1
  OBVIOUS
<1>10. \A i \in 1 .. N - 1 : Spot(NextPos(t), i) = Spot(t, i + 1) /\ Spot(t, i + 1) # t
  OBVIOUS
<1> QED BY <1>1, <1>2, <1>3, <1>4, <1>5, <1>6, <1>7, <1>8, <1>9, <1>10

\* The fields of a queue.
LEMMA RingFields ==
  ASSUME NEW S, NEW q \in Ring(S)
  PROVE  /\ q.head \in Pos /\ q.tail \in Pos /\ q.buf \in [Pos -> S]
         /\ q.not_full \in Writers \cup {C!NULL} /\ q.not_empty \in Readers \cup {C!NULL}
         /\ q.lock \in Readers \cup Writers \cup {C!NULL}
  BY DEF Ring

Fill(q) == Span(q.head, q.tail)

\* What a queue holds, when it is empty and when full.
LEMMA ContentsFacts ==
  ASSUME NEW S, NEW q \in Ring(S)
  PROVE  /\ Fill(q) \in 0 .. N - 1
         /\ C!contents(q) = [i \in 1 .. Fill(q) |-> q.buf[Spot(q.tail, i)]]
         /\ C!contents(q) \in Seq(S) /\ Len(C!contents(q)) = Fill(q)
         /\ C!intq_empty(q) <=> Fill(q) = 0
         /\ C!intq_full(q) <=> Fill(q) = N - 1
<1>1. q.head \in Pos /\ q.tail \in Pos /\ q.buf \in [Pos -> S]
  BY RingFields
<1>2. Fill(q) \in 0 .. N - 1
  BY <1>1, SpanFacts DEF Fill
<1>3. \A i \in 1 .. Fill(q) : i \in 1 .. N /\ Spot(q.tail, i) \in Pos
  <2>1. \A i \in 1 .. Fill(q) : i \in 1 .. N
    BY <1>2, Constants
  <2> QED BY <1>1, <2>1, SpanFacts
<1>4. (q.head + INTQ_BUFSIZE - q.tail) % INTQ_BUFSIZE = Fill(q)
  BY <1>1, RingArith, Constants DEF Fill, Span
<1>5. \A i \in 1 .. Fill(q) : (q.tail + i - 1) % INTQ_BUFSIZE = Spot(q.tail, i)
  BY <1>1, <1>3, RingArith, Constants DEF Spot
<1>6. C!contents(q) = [i \in 1 .. Fill(q) |-> q.buf[Spot(q.tail, i)]]
  BY <1>4, <1>5 DEF C!contents
<1>7. C!contents(q) \in Seq(S) /\ Len(C!contents(q)) = Fill(q)
  BY <1>1, <1>2, <1>3, <1>6, Constants
<1>8. C!intq_empty(q) <=> Fill(q) = 0
  BY <1>1, SpanFacts DEF C!intq_empty, Fill
<1>9. C!intq_full(q) <=> Fill(q) = N - 1
  <2>1. C!next(q.head) = NextPos(q.head)
    BY <1>1, RingArith DEF NextPos
  <2> QED BY <1>1, <2>1, SpanFacts DEF C!intq_full, Fill
<1> QED BY <1>2, <1>6, <1>7, <1>8, <1>9

\* A byte put into a ring that is not full comes last.
LEMMA PutFacts ==
  ASSUME NEW S, NEW q \in Ring(S), NEW b, ~C!intq_full(q)
  PROVE  /\ C!intq_putc(q, b) \in Ring(S \cup {b})
         /\ C!contents(C!intq_putc(q, b)) = Append(C!contents(q), b)
         /\ C!contents(q) \in Seq(S \cup {b})
         /\ C!intq_putc(q, b).not_full = q.not_full
<1>1. /\ q.head \in Pos /\ q.tail \in Pos /\ q.buf \in [Pos -> S]
      /\ q.not_full \in Writers \cup {C!NULL} /\ q.not_empty \in Readers \cup {C!NULL}
      /\ q.lock \in Readers \cup Writers \cup {C!NULL}
  BY RingFields
<1> DEFINE r == C!intq_putc(q, b)  bf == [q.buf EXCEPT ![q.head] = b]
<1>2. C!next(q.head) = NextPos(q.head)
  BY <1>1, RingArith DEF NextPos
<1>3. NextPos(q.head) \in Pos /\ bf \in [Pos -> S \cup {b}]
  BY <1>1, <1>2, RingArith
<1>4. r \in [buf : {bf}, head : {NextPos(q.head)}, tail : {q.tail},
             not_full : {q.not_full}, not_empty : {C!NULL}, lock : {q.lock}]
  BY <1>2 DEF C!intq_putc, Ring
<1> HIDE DEF r, bf
<1>6. /\ r.buf = bf /\ r.head = NextPos(q.head) /\ r.tail = q.tail /\ r.not_full = q.not_full
  BY <1>4
<1>5. r \in Ring(S \cup {b})
  BY <1>1, <1>3, <1>4 DEF Ring
<1>7. Fill(q) \in Nat /\ Fill(q) < N - 1
  BY ContentsFacts, Constants
<1>8. Fill(r) = Fill(q) + 1
  BY <1>1, <1>6, <1>7, SpanFacts DEF Fill
<1>9. \A i \in 1 .. Fill(q) : Spot(r.tail, i) \in Pos /\ Spot(r.tail, i) # q.head
  <2>1. \A i \in 1 .. Fill(q) : i \in 1 .. N
    BY <1>7, Constants
  <2> QED BY <1>1, <1>6, <2>1, SpanFacts DEF Fill
<1>10. Spot(r.tail, Fill(q) + 1) = q.head
  BY <1>1, <1>6, SpanFacts DEF Fill
<1>11. /\ C!contents(r) \in Seq(S \cup {b}) /\ Len(C!contents(r)) = Fill(r)
       /\ C!contents(r) = [i \in 1 .. Fill(r) |-> r.buf[Spot(r.tail, i)]]
  BY <1>5, ContentsFacts
<1>12. /\ C!contents(q) \in Seq(S) /\ Len(C!contents(q)) = Fill(q)
       /\ C!contents(q) = [i \in 1 .. Fill(q) |-> q.buf[Spot(q.tail, i)]]
  BY ContentsFacts
<1>13. C!contents(q) \in Seq(S \cup {b})
  BY <1>12
<1>14. \A i \in 1 .. Fill(q) : C!contents(r)[i] = C!contents(q)[i]
  BY <1>1, <1>6, <1>7, <1>8, <1>9, <1>11, <1>12 DEF bf
<1>15. C!contents(r)[Fill(q) + 1] = b
  BY <1>1, <1>6, <1>7, <1>8, <1>10, <1>11 DEF bf
<1>16. /\ Append(C!contents(q), b) \in Seq(S \cup {b})
       /\ Len(Append(C!contents(q), b)) = Fill(q) + 1
       /\ \A i \in 1 .. Fill(q) : Append(C!contents(q), b)[i] = C!contents(q)[i]
       /\ Append(C!contents(q), b)[Fill(q) + 1] = b
  BY <1>7, <1>12, <1>13
<1>17. \A i \in 1 .. Fill(r) : C!contents(r)[i] = Append(C!contents(q), b)[i]
  BY <1>7, <1>8, <1>14, <1>15, <1>16
<1>18. C!contents(r) = Append(C!contents(q), b)
  BY <1>8, <1>11, <1>16, <1>17, SeqEqual
<1> QED BY <1>5, <1>6, <1>13, <1>18 DEF r

\* The byte taken from a ring that is not empty was first.
LEMMA GetFacts ==
  ASSUME NEW S, NEW q \in Ring(S), ~C!intq_empty(q), C!Empty \in S
  PROVE  /\ C!intq_getc(q) \in Ring(S)
         /\ C!contents(C!intq_getc(q)) = Tail(C!contents(q))
         /\ C!contents(q) # <<>> /\ C!contents(q)[1] = C!first(q)
         /\ C!intq_getc(q).not_full = C!NULL
<1>1. /\ q.head \in Pos /\ q.tail \in Pos /\ q.buf \in [Pos -> S]
      /\ q.not_full \in Writers \cup {C!NULL} /\ q.not_empty \in Readers \cup {C!NULL}
      /\ q.lock \in Readers \cup Writers \cup {C!NULL}
  BY RingFields
<1> DEFINE r == C!intq_getc(q)  bf == [q.buf EXCEPT ![q.tail] = C!Empty]
<1>2. C!next(q.tail) = NextPos(q.tail)
  BY <1>1, RingArith DEF NextPos
<1>3. NextPos(q.tail) \in Pos /\ bf \in [Pos -> S]
  BY <1>1, <1>2, RingArith
<1>4. r \in [buf : {bf}, head : {q.head}, tail : {NextPos(q.tail)},
             not_full : {C!NULL}, not_empty : {q.not_empty}, lock : {q.lock}]
  BY <1>2 DEF C!intq_getc, Ring
<1> HIDE DEF r, bf
<1>5. r \in Ring(S)
  BY <1>1, <1>3, <1>4 DEF Ring
<1>6. /\ r.buf = bf /\ r.tail = NextPos(q.tail) /\ r.head = q.head /\ r.not_full = C!NULL
  BY <1>4
<1>7. Fill(q) \in 1 .. N - 1
  BY ContentsFacts, Constants
<1>8. Fill(r) = Fill(q) - 1
  BY <1>1, <1>6, <1>7, SpanFacts DEF Fill
<1>9. \A i \in 1 .. Fill(r) : /\ Spot(r.tail, i) = Spot(q.tail, i + 1) /\ Spot(q.tail, i + 1) \in Pos
                              /\ Spot(q.tail, i + 1) # q.tail
  <2>1. \A i \in 1 .. Fill(r) : i \in 1 .. N - 1 /\ i + 1 \in 1 .. N
    BY <1>7, <1>8, Constants
  <2> QED BY <1>1, <1>6, <2>1, SpanFacts
<1>10. Spot(q.tail, 1) = q.tail
  BY <1>1, SpanFacts
<1>11. /\ C!contents(r) \in Seq(S) /\ Len(C!contents(r)) = Fill(r)
       /\ C!contents(r) = [i \in 1 .. Fill(r) |-> r.buf[Spot(r.tail, i)]]
  BY <1>5, ContentsFacts
<1>12. /\ C!contents(q) \in Seq(S) /\ Len(C!contents(q)) = Fill(q)
       /\ C!contents(q) = [i \in 1 .. Fill(q) |-> q.buf[Spot(q.tail, i)]]
  BY ContentsFacts
<1>14. \A i \in 1 .. Fill(r) : C!contents(r)[i] = C!contents(q)[i + 1]
  BY <1>1, <1>6, <1>7, <1>8, <1>9, <1>11, <1>12 DEF bf
<1>15. C!contents(q)[1] = C!first(q)
  BY <1>7, <1>10, <1>12 DEF C!first
<1>16. C!contents(q) # <<>>
  BY <1>7, <1>12
<1>17. /\ Tail(C!contents(q)) \in Seq(S) /\ Len(Tail(C!contents(q))) = Fill(r)
       /\ \A i \in 1 .. Fill(r) : Tail(C!contents(q))[i] = C!contents(q)[i + 1]
  BY <1>7, <1>8, <1>12, <1>16
<1>18. C!contents(r) = Tail(C!contents(q))
  BY <1>8, <1>11, <1>14, <1>17, SeqEqual
<1> QED BY <1>5, <1>6, <1>15, <1>16, <1>18 DEF r

-----------------------------------------------------------------------------
(* The terminal: the invariant.                                            *)

Bytes == Nat \ {0}
Reg(b) == IF b = 0 THEN <<>> ELSE <<b>>
Ops == {"idle", "putc", "getc", "blocked", "lock", "woken", "panic", "halted"}
ThreadRec == [op : Ops, left : Nat]

\* What was given to the port and not sent is the byte in its register and then
\* the queue, which is used only once the interrupts are set up.
OutInv ==
  /\ mode \in {"POLL", "QUEUE", "PANIC"}
  /\ txq \in Ring(Nat) /\ C!contents(txq) \in Seq(Bytes)
  /\ uart \in [thr : Nat, rbr : Nat]
  /\ mode # "QUEUE" => C!intq_empty(txq)
  /\ pending_out = Reg(uart.thr) \o C!contents(txq)

\* What arrived and was not read is in the input queue.
InInv ==
  \E S : buffer \in Ring(S) /\ C!Empty \in S /\ C!contents(buffer) = pending_in

\* A writer that prints has bytes left, and the one the queue knows is asleep.
WriterInv ==
  /\ th \in [Readers \cup Writers -> ThreadRec]
  /\ \A t \in Writers : th[t].op \in {"putc", "blocked", "woken", "lock"} => th[t].left # 0
  /\ txq.not_full # C!NULL => th[txq.not_full].op = "blocked"

\* The interrupt enable register follows the queues.
ArmedInv == mode = "QUEUE" => ier = C!write_ier(txq, buffer)

TermInv == OutInv /\ InInv /\ WriterInv /\ ArmedInv /\ load \in Loads

\* The register and the queue as one sequence.
LEMMA RegFacts ==
  ASSUME NEW a \in Nat, NEW s \in Seq(Bytes), NEW b \in Bytes
  PROVE  /\ Append(Reg(a) \o s, b) = Reg(a) \o Append(s, b)
         /\ a # 0 => Tail(Reg(a) \o s) = s
         /\ a = 0 => Reg(a) \o s = s
         /\ Reg(a) \o <<>> = Reg(a) /\ Reg(b) = <<b>> /\ b # 0
         /\ s # <<>> => Reg(s[1]) \o Tail(s) = s /\ s[1] \in Bytes
         /\ s # <<>> => C!Last(Reg(a) \o s) = C!Last(s) /\ C!Last(s) \in Bytes
<1>1. Reg(a) \in Seq(Bytes) /\ Len(Reg(a)) = IF a = 0 THEN 0 ELSE 1
  <2>1. CASE a = 0
    BY <2>1 DEF Reg
  <2>2. CASE a # 0
    BY <2>2 DEF Reg, Bytes
  <2> QED BY <2>1, <2>2
<1>2. a # 0 => Reg(a)[1] = a
  BY DEF Reg
<1>3. <<b>> \in Seq(Bytes) /\ Len(<<b>>) = 1 /\ Reg(b) = <<b>> /\ b # 0
  BY DEF Reg, Bytes
<1>4. Append(Reg(a) \o s, b) = Reg(a) \o Append(s, b)
  <2>1. /\ Reg(a) \o s \in Seq(Bytes) /\ Len(Reg(a) \o s) = Len(Reg(a)) + Len(s)
        /\ \A i \in 1 .. Len(Reg(a)) + Len(s) :
             (Reg(a) \o s)[i] = IF i <= Len(Reg(a)) THEN Reg(a)[i] ELSE s[i - Len(Reg(a))]
    BY <1>1, ConcatProperties
  <2>2. /\ Append(s, b) \in Seq(Bytes) /\ Len(Append(s, b)) = Len(s) + 1
        /\ \A i \in 1 .. Len(s) : Append(s, b)[i] = s[i]
        /\ Append(s, b)[Len(s) + 1] = b
    OBVIOUS
  <2>3. /\ Reg(a) \o Append(s, b) \in Seq(Bytes)
        /\ Len(Reg(a) \o Append(s, b)) = Len(Reg(a)) + Len(s) + 1
        /\ \A i \in 1 .. Len(Reg(a)) + Len(s) + 1 :
             (Reg(a) \o Append(s, b))[i] = IF i <= Len(Reg(a)) THEN Reg(a)[i] ELSE Append(s, b)[i - Len(Reg(a))]
    <3>0. PICK w \in Seq(Bytes) : w = Append(s, b)
      BY <2>2
    <3>a. /\ Reg(a) \o w \in Seq(Bytes) /\ Len(Reg(a) \o w) = Len(Reg(a)) + Len(w)
          /\ \A i \in 1 .. Len(Reg(a)) + Len(w) :
               (Reg(a) \o w)[i] = IF i <= Len(Reg(a)) THEN Reg(a)[i] ELSE w[i - Len(Reg(a))]
      BY <1>1, ConcatProperties
    <3>1. /\ Reg(a) \o Append(s, b) \in Seq(Bytes)
          /\ Len(Reg(a) \o Append(s, b)) = Len(Reg(a)) + Len(Append(s, b))
          /\ \A i \in 1 .. Len(Reg(a)) + Len(Append(s, b)) :
               (Reg(a) \o Append(s, b))[i] = IF i <= Len(Reg(a)) THEN Reg(a)[i] ELSE Append(s, b)[i - Len(Reg(a))]
      BY <3>0, <3>a, Zenon
    <3>2. Len(Reg(a)) + Len(Append(s, b)) = Len(Reg(a)) + Len(s) + 1
      BY <1>1, <2>2
    <3> QED BY <3>1, <3>2
  <2>4. /\ Append(Reg(a) \o s, b) \in Seq(Bytes)
        /\ Len(Append(Reg(a) \o s, b)) = Len(Reg(a)) + Len(s) + 1
        /\ \A i \in 1 .. Len(Reg(a)) + Len(s) : Append(Reg(a) \o s, b)[i] = (Reg(a) \o s)[i]
        /\ Append(Reg(a) \o s, b)[Len(Reg(a)) + Len(s) + 1] = b
    BY <2>1
  <2>5. Len(Reg(a)) \in Nat /\ Len(s) \in Nat
    BY <1>1
  <2>6. \A i \in 1 .. Len(Reg(a)) + Len(s) + 1 : Append(Reg(a) \o s, b)[i] = (Reg(a) \o Append(s, b))[i]
    BY <2>1, <2>2, <2>3, <2>4, <2>5
  <2> QED BY <2>3, <2>4, <2>5, <2>6, SeqEqual
<1>5. a # 0 => Tail(Reg(a) \o s) = s
  <2> SUFFICES ASSUME a # 0 PROVE Tail(Reg(a) \o s) = s
    OBVIOUS
  <2>1. /\ Reg(a) \o s \in Seq(Bytes) /\ Len(Reg(a) \o s) = 1 + Len(s)
        /\ \A i \in 2 .. 1 + Len(s) : (Reg(a) \o s)[i] = s[i - 1]
    <3>1. /\ Reg(a) \o s \in Seq(Bytes) /\ Len(Reg(a) \o s) = Len(Reg(a)) + Len(s)
          /\ \A i \in 1 .. Len(Reg(a)) + Len(s) :
               (Reg(a) \o s)[i] = IF i <= Len(Reg(a)) THEN Reg(a)[i] ELSE s[i - Len(Reg(a))]
      BY <1>1, ConcatProperties
    <3>2. Len(Reg(a)) = 1 /\ Len(s) \in Nat
      BY <1>1
    <3> QED BY <3>1, <3>2
  <2>2. Len(s) \in Nat /\ Reg(a) \o s # <<>>
    BY <2>1
  <2>3. /\ Tail(Reg(a) \o s) \in Seq(Bytes) /\ Len(Tail(Reg(a) \o s)) = Len(s)
        /\ \A i \in 1 .. Len(s) : Tail(Reg(a) \o s)[i] = (Reg(a) \o s)[i + 1]
    BY <2>1, <2>2, HeadTailProperties
  <2>4. \A i \in 1 .. Len(s) : Tail(Reg(a) \o s)[i] = s[i]
    BY <2>1, <2>2, <2>3
  <2> QED BY <2>3, <2>4, SeqEqual
<1>6. a = 0 => Reg(a) \o s = s
  BY ConcatEmptySeq DEF Reg
<1>7. Reg(a) \o <<>> = Reg(a)
  BY <1>1, ConcatEmptySeq
<1>8. s # <<>> => Reg(s[1]) \o Tail(s) = s /\ s[1] \in Bytes
  <2> SUFFICES ASSUME s # <<>> PROVE Reg(s[1]) \o Tail(s) = s /\ s[1] \in Bytes
    OBVIOUS
  <2>1. Len(s) \in Nat /\ Len(s) >= 1 /\ s[1] \in Bytes
    OBVIOUS
  <2>2. /\ Tail(s) \in Seq(Bytes) /\ Len(Tail(s)) = Len(s) - 1
        /\ \A i \in 1 .. Len(s) - 1 : Tail(s)[i] = s[i + 1]
    BY <2>1, HeadTailProperties
  <2>3. PICK r \in Seq(Bytes) : r = Reg(s[1]) /\ Len(r) = 1 /\ r[1] = s[1]
    <3>1. \A v \in Bytes : Reg(v) = <<v>>
      BY DEF Reg, Bytes
    <3>2. PICK v \in Bytes : v = s[1]
      BY <2>1
    <3>3. <<v>> \in Seq(Bytes) /\ Len(<<v>>) = 1 /\ <<v>>[1] = v
      OBVIOUS
    <3> QED BY <3>1, <3>2, <3>3, Zenon
  <2>4. /\ r \o Tail(s) \in Seq(Bytes) /\ Len(r \o Tail(s)) = Len(s)
        /\ \A i \in 1 .. Len(s) : (r \o Tail(s))[i] = IF i <= 1 THEN s[1] ELSE Tail(s)[i - 1]
    <3>1. /\ r \o Tail(s) \in Seq(Bytes) /\ Len(r \o Tail(s)) = 1 + (Len(s) - 1)
          /\ \A i \in 1 .. 1 + (Len(s) - 1) :
               (r \o Tail(s))[i] = IF i <= 1 THEN r[i] ELSE Tail(s)[i - 1]
      <4>1. PICK z \in Seq(Bytes) : z = Tail(s) /\ Len(z) = Len(s) - 1
        BY <2>2
      <4>2. /\ r \o z \in Seq(Bytes) /\ Len(r \o z) = Len(r) + Len(z)
            /\ \A i \in 1 .. Len(r) + Len(z) : (r \o z)[i] = IF i <= Len(r) THEN r[i] ELSE z[i - Len(r)]
        BY ConcatProperties, Zenon
      <4> QED BY <2>3, <4>1, <4>2, Zenon
    <3>2. 1 + (Len(s) - 1) = Len(s) /\ \A i \in 1 .. Len(s) : i <= 1 => i = 1
      BY <2>1
    <3> QED BY <2>3, <3>1, <3>2
  <2>5. \A i \in 1 .. Len(s) : (r \o Tail(s))[i] = s[i]
    BY <2>1, <2>2, <2>4
  <2>6. r \o Tail(s) = s
    BY <2>1, <2>4, <2>5, SeqEqual
  <2> QED BY <2>1, <2>3, <2>6
<1>9. s # <<>> => C!Last(Reg(a) \o s) = C!Last(s) /\ C!Last(s) \in Bytes
  <2> SUFFICES ASSUME s # <<>> PROVE C!Last(Reg(a) \o s) = C!Last(s) /\ C!Last(s) \in Bytes
    OBVIOUS
  <2>1. Len(s) \in Nat /\ Len(s) >= 1 /\ Len(Reg(a)) \in Nat
    BY <1>1
  <2>2. /\ Len(Reg(a) \o s) = Len(Reg(a)) + Len(s)
        /\ (Reg(a) \o s)[Len(Reg(a)) + Len(s)] = s[Len(s)]
    <3>1. /\ Len(Reg(a) \o s) = Len(Reg(a)) + Len(s)
          /\ \A i \in 1 .. Len(Reg(a)) + Len(s) :
               (Reg(a) \o s)[i] = IF i <= Len(Reg(a)) THEN Reg(a)[i] ELSE s[i - Len(Reg(a))]
      BY <1>1, ConcatProperties
    <3>2. /\ Len(Reg(a)) + Len(s) \in 1 .. Len(Reg(a)) + Len(s)
          /\ ~(Len(Reg(a)) + Len(s) <= Len(Reg(a)))
          /\ (Len(Reg(a)) + Len(s)) - Len(Reg(a)) = Len(s)
      BY <2>1
    <3> QED BY <3>1, <3>2
  <2>3. s[Len(s)] \in Bytes
    BY <2>1
  <2> QED BY <2>2, <2>3 DEF C!Last
<1> QED BY <1>3, <1>4, <1>5, <1>6, <1>7, <1>8, <1>9

-----------------------------------------------------------------------------
(* The terminal: what the steps do to the threads.                         *)

Terminal == Readers \cup Writers

\* Only op of one thread changes.
SetOp(t, o) ==
  /\ th' \in [Terminal -> ThreadRec]
  /\ th'[t].op = o /\ th'[t].left = th[t].left
  /\ \A u \in Terminal \ {t} : th'[u] = th[u]

\* A change of op alone.
LEMMA OpChanged ==
  ASSUME WriterInv, NEW t \in Terminal, NEW o \in Ops, th' = [th EXCEPT ![t].op = o]
  PROVE  SetOp(t, o)
<1>1. th \in [Terminal -> ThreadRec] /\ th[t] \in ThreadRec
  BY DEF WriterInv, Terminal
<1>2. PICK r \in ThreadRec : r = [th[t] EXCEPT !.op = o] /\ r.op = o /\ r.left = th[t].left
  BY <1>1 DEF ThreadRec
<1>3. th' = [th EXCEPT ![t] = r]
  BY <1>2
<1> QED BY <1>1, <1>2, <1>3 DEF SetOp

\* A writer's bytes and its sleep depend on its own record only.
LEMMA WriterKept ==
  ASSUME WriterInv, NEW t \in Terminal, NEW o \in Ops, SetOp(t, o),
         t \in Writers => o \notin {"putc", "blocked", "woken", "lock"} \/ th[t].left # 0,
         txq'.not_full # C!NULL => /\ txq'.not_full \in Terminal
                                   /\ IF txq'.not_full = t THEN o = "blocked"
                                      ELSE txq'.not_full = txq.not_full
  PROVE  WriterInv'
<1>1. th' \in [Readers \cup Writers -> ThreadRec]
  BY DEF SetOp, Terminal
<1>2. ASSUME NEW u \in Writers, th'[u].op \in {"putc", "blocked", "woken", "lock"}
      PROVE  th'[u].left # 0
  <2>1. CASE u = t
    BY <1>2, <2>1 DEF SetOp
  <2>2. CASE u # t
    BY <1>2, <2>2 DEF SetOp, WriterInv, Terminal
  <2> QED BY <2>1, <2>2
<1>3. txq'.not_full # C!NULL => th'[txq'.not_full].op = "blocked"
  BY DEF SetOp, WriterInv
<1> QED BY <1>1, <1>2, <1>3 DEF WriterInv

\* After a byte the writer is done or has one less.
LEMMA PutKeeps ==
  ASSUME WriterInv, NEW t \in Writers, th[t].op = "putc", th' = [th EXCEPT ![t] = C!put(t)],
         txq'.not_full = txq.not_full
  PROVE  WriterInv'
<1>1. t \in Readers \cup Writers /\ th[t].left \in Nat /\ th[t].left # 0
  BY DEF WriterInv, ThreadRec
<1>2. PICK r \in ThreadRec : r = C!put(t) /\ (r.op = "idle" \/ r.left # 0)
  <2>1. CASE th[t].left = 1
    <3>1. C!put(t) = [op |-> "idle", left |-> 0]
      BY <2>1 DEF C!put
    <3>2. [op |-> "idle", left |-> 0] \in ThreadRec
      BY DEF ThreadRec, Ops
    <3> QED BY <3>1, <3>2
  <2>2. CASE th[t].left # 1
    <3>1. PICK n \in Nat : n = th[t].left - 1 /\ n # 0
      BY <1>1, <2>2
    <3>2. C!put(t) = [op |-> "putc", left |-> n]
      BY <2>2, <3>1 DEF C!put
    <3>3. [op |-> "putc", left |-> n] \in ThreadRec
      BY DEF ThreadRec, Ops
    <3> QED BY <3>1, <3>2, <3>3
  <2> QED BY <2>1, <2>2
<1>3. /\ th' \in [Readers \cup Writers -> ThreadRec]
      /\ th'[t] = r /\ \A u \in Readers \cup Writers : u # t => th'[u] = th[u]
  BY <1>1, <1>2 DEF WriterInv
<1>4. \A u \in Writers : th'[u].op \in {"putc", "blocked", "woken", "lock"} => th'[u].left # 0
  BY <1>2, <1>3 DEF WriterInv
<1>5. txq'.not_full # C!NULL => th'[txq'.not_full].op = "blocked"
  <2> SUFFICES ASSUME txq.not_full # C!NULL PROVE th'[txq.not_full].op = "blocked"
    OBVIOUS
  <2>1. th[txq.not_full].op = "blocked" /\ txq.not_full # t
    BY DEF WriterInv
  <2> QED BY <1>3, <2>1 DEF WriterInv
<1> QED BY <1>3, <1>4, <1>5 DEF WriterInv

\* Nothing about the writers changes.
LEMMA WriterSame ==
  ASSUME WriterInv, th' = th, txq'.not_full = txq.not_full
  PROVE  WriterInv'
  BY DEF WriterInv

\* signal on the output queue wakes the writer it knows.
LEMMA WriterWoken ==
  ASSUME WriterInv, txq \in Ring(Nat), th' = C!woken(th, txq.not_full), txq'.not_full = C!NULL
  PROVE  WriterInv' /\ \A t \in Readers : th'[t] = th[t]
<1>1. txq.not_full \in Writers \cup {C!NULL} /\ C!NULL \notin Terminal
  BY RingFields, TerminalAssumption DEF C!NULL, Terminal
<1>2. CASE txq.not_full = C!NULL
  BY <1>2 DEF WriterInv, C!woken
<1>3. CASE txq.not_full # C!NULL
  <2>1. PICK t \in Writers : t = txq.not_full
    BY <1>1, <1>3
  <2>2. t \in Terminal /\ t \notin Readers /\ \A u \in Readers : u \in Terminal
    BY TerminalAssumption DEF Terminal
  <2>0. PICK o \in Ops : o = "woken"
    BY DEF Ops
  <2>3. th' = [th EXCEPT ![t].op = o]
    BY <1>3, <2>0, <2>1 DEF C!woken
  <2>4. SetOp(t, o)
    BY <2>2, <2>3, OpChanged, Zenon
  <2>5. th[t].op = "blocked" /\ th[t].left # 0
    BY <1>3, <2>1 DEF WriterInv
  <2>6. WriterInv'
    BY <2>2, <2>4, <2>5, WriterKept
  <2>7. \A u \in Readers : th'[u] = th[u]
    BY <2>2, <2>4 DEF SetOp
  <2> QED BY <2>6, <2>7
<1> QED BY <1>2, <1>3

-----------------------------------------------------------------------------
(* The terminal: what the steps do to the queues.                          *)

Alike(q, r) == r.buf = q.buf /\ r.head = q.head /\ r.tail = q.tail

\* Waiting and locking leave the bytes alone.
LEMMA AlikeFacts ==
  ASSUME NEW q, NEW r, Alike(q, r)
  PROVE  /\ C!contents(r) = C!contents(q)
         /\ C!intq_empty(r) <=> C!intq_empty(q)
         /\ C!intq_full(r) <=> C!intq_full(q)
  BY DEF Alike, C!contents, C!intq_empty, C!intq_full

\* Waiting changes neither the bytes nor the positions.
LEMMA WaitFacts ==
  ASSUME NEW S, NEW q \in Ring(S)
  PROVE  /\ \A t \in Writers : /\ C!wait_full(t, q) \in Ring(S) /\ Alike(q, C!wait_full(t, q))
                               /\ C!wait_full(t, q).not_full = IF q.lock = C!NULL THEN t ELSE q.not_full
         /\ \A t \in Readers : C!wait_empty(t, q) \in Ring(S) /\ Alike(q, C!wait_empty(t, q))
         /\ [q EXCEPT !.lock = C!NULL] \in Ring(S) /\ Alike(q, [q EXCEPT !.lock = C!NULL])
         /\ [q EXCEPT !.lock = C!NULL].not_full = q.not_full
<1>1. ASSUME NEW t \in Writers
      PROVE  /\ C!wait_full(t, q) \in Ring(S) /\ Alike(q, C!wait_full(t, q))
             /\ C!wait_full(t, q).not_full = IF q.lock = C!NULL THEN t ELSE q.not_full
  <2>1. CASE q.lock = C!NULL
    <3>1. C!wait_full(t, q) = [q EXCEPT !.lock = t, !.not_full = t]
      BY <2>1 DEF C!wait_full
    <3> QED BY <2>1, <3>1 DEF Ring, Alike
  <2>2. CASE q.lock # C!NULL
    BY <2>2 DEF C!wait_full, Alike
  <2> QED BY <2>1, <2>2
<1>2. ASSUME NEW t \in Readers
      PROVE  C!wait_empty(t, q) \in Ring(S) /\ Alike(q, C!wait_empty(t, q))
  <2>1. CASE q.lock = C!NULL
    <3>1. C!wait_empty(t, q) = [q EXCEPT !.lock = t, !.not_empty = t]
      BY <2>1 DEF C!wait_empty
    <3> QED BY <3>1 DEF Ring, Alike
  <2>2. CASE q.lock # C!NULL
    BY <2>2 DEF C!wait_empty, Alike
  <2> QED BY <2>1, <2>2
<1>3. /\ [q EXCEPT !.lock = C!NULL] \in Ring(S) /\ Alike(q, [q EXCEPT !.lock = C!NULL])
      /\ [q EXCEPT !.lock = C!NULL].not_full = q.not_full
  BY DEF Ring, Alike
<1> QED BY <1>1, <1>2, <1>3

\* The output side is as it was.
LEMMA OutKept ==
  ASSUME OutInv, txq' \in Ring(Nat), Alike(txq, txq'), pending_out' = pending_out,
         uart' \in [thr : Nat, rbr : Nat], uart'.thr = uart.thr,
         mode' = mode \/ mode' = "QUEUE"
  PROVE  OutInv'
<1>1. C!contents(txq') = C!contents(txq) /\ (C!intq_empty(txq') <=> C!intq_empty(txq))
  BY AlikeFacts
<1> QED BY <1>1 DEF OutInv

\* A byte goes into the output queue.
LEMMA OutPut ==
  ASSUME OutInv, mode = "QUEUE", mode' = mode, NEW b \in Bytes, ~C!intq_full(txq),
         txq' = C!intq_putc(txq, b), uart' = uart, pending_out' = Append(pending_out, b)
  PROVE  OutInv' /\ txq'.not_full = txq.not_full
<1>1. b \in Nat /\ Nat \cup {b} = Nat /\ txq \in Ring(Nat) /\ C!contents(txq) \in Seq(Bytes) /\ uart.thr \in Nat
  BY DEF OutInv, Bytes
<1>2. /\ txq' \in Ring(Nat) /\ txq'.not_full = txq.not_full
      /\ C!contents(txq') = Append(C!contents(txq), b)
  BY <1>1, PutFacts
<1>3. Append(C!contents(txq), b) \in Seq(Bytes)
  BY <1>1
<1>4. pending_out' = Reg(uart.thr) \o Append(C!contents(txq), b)
  <2>1. PICK a \in Nat, c \in Seq(Bytes) : a = uart.thr /\ c = C!contents(txq)
    BY <1>1
  <2>2. Append(Reg(a) \o c, b) = Reg(a) \o Append(c, b)
    BY RegFacts
  <2>3. pending_out = Reg(a) \o c
    BY <2>1 DEF OutInv
  <2> QED BY <2>1, <2>2, <2>3
<1> QED BY <1>2, <1>3, <1>4 DEF OutInv

\* The first byte of the output queue goes into the register, after the one
\* there has been sent.
LEMMA OutGet ==
  ASSUME OutInv, ~C!intq_empty(txq)
  PROVE  /\ C!intq_getc(txq) \in Ring(Nat) /\ C!intq_getc(txq).not_full = C!NULL
         /\ C!contents(C!intq_getc(txq)) \in Seq(Bytes)
         /\ C!first(txq) \in Bytes
         /\ C!IsSent(pending_out) = Reg(C!first(txq)) \o C!contents(C!intq_getc(txq))
         /\ C!intq_full(txq) => ~C!intq_full(C!intq_getc(txq))
<1>1. /\ txq \in Ring(Nat) /\ C!contents(txq) \in Seq(Bytes) /\ uart.thr \in Nat
      /\ C!Empty \in Nat /\ 1 \in Bytes /\ C!Empty = 0
  BY DEF OutInv, Bytes, C!Empty
<1>2. /\ C!intq_getc(txq) \in Ring(Nat) /\ C!intq_getc(txq).not_full = C!NULL
      /\ C!contents(C!intq_getc(txq)) = Tail(C!contents(txq))
      /\ C!contents(txq) # <<>> /\ C!contents(txq)[1] = C!first(txq)
  BY <1>1, GetFacts
<1>3. Tail(C!contents(txq)) \in Seq(Bytes) /\ Len(Tail(C!contents(txq))) = Len(C!contents(txq)) - 1
  BY <1>1, <1>2, HeadTailProperties
<1>4. Reg(C!first(txq)) \o Tail(C!contents(txq)) = C!contents(txq) /\ C!first(txq) \in Bytes
  <2>1. PICK c \in Seq(Bytes) : c = C!contents(txq)
    BY <1>1
  <2>2. c # <<>> => Reg(c[1]) \o Tail(c) = c /\ c[1] \in Bytes
    BY <1>1, RegFacts
  <2> QED BY <1>2, <2>1, <2>2
<1>5. C!IsSent(pending_out) = C!contents(txq)
  BY <1>1, RegFacts DEF OutInv, C!IsSent
<1>6. ASSUME C!intq_full(txq) PROVE ~C!intq_full(C!intq_getc(txq))
  <2>1. Len(C!contents(txq)) = N - 1
    BY <1>1, <1>6, ContentsFacts
  <2>2. Len(C!contents(C!intq_getc(txq))) # N - 1
    BY <1>2, <1>3, <2>1, Constants
  <2>3. C!intq_full(C!intq_getc(txq)) => Len(C!contents(C!intq_getc(txq))) = N - 1
    BY <1>2, ContentsFacts
  <2> QED BY <2>2, <2>3
<1> QED BY <1>2, <1>3, <1>4, <1>5, <1>6

\* A byte goes into the input queue.
LEMMA InPut ==
  ASSUME InInv, NEW b, ~C!intq_full(buffer), buffer' = C!intq_putc(buffer, b),
         pending_in' = Append(pending_in, b)
  PROVE  InInv'
<1>1. PICK S : buffer \in Ring(S) /\ C!Empty \in S /\ C!contents(buffer) = pending_in
  BY DEF InInv
<1>2. buffer' \in Ring(S \cup {b}) /\ C!contents(buffer') = Append(C!contents(buffer), b)
  BY <1>1, PutFacts
<1>3. C!Empty \in S \cup {b} /\ C!contents(buffer') = pending_in'
  BY <1>1, <1>2
<1> QED BY <1>2, <1>3 DEF InInv

\* A byte leaves the input queue.
LEMMA InGet ==
  ASSUME InInv, ~C!intq_empty(buffer), buffer' = C!intq_getc(buffer), pending_in' = Tail(pending_in)
  PROVE  InInv'
<1>1. PICK S : buffer \in Ring(S) /\ C!Empty \in S /\ C!contents(buffer) = pending_in
  BY DEF InInv
<1>2. buffer' \in Ring(S) /\ C!contents(buffer') = Tail(C!contents(buffer))
  BY <1>1, GetFacts
<1> QED BY <1>1, <1>2 DEF InInv

\* The input side is as it was.
LEMMA InKept ==
  ASSUME InInv, pending_in' = pending_in,
         \/ buffer' = buffer
         \/ \E t \in Readers : buffer' = C!wait_empty(t, buffer)
         \/ buffer' = [buffer EXCEPT !.lock = C!NULL]
  PROVE  InInv' /\ Alike(buffer, buffer')
<1>1. PICK S : buffer \in Ring(S) /\ C!Empty \in S /\ C!contents(buffer) = pending_in
  BY DEF InInv
<1>2. buffer' \in Ring(S) /\ Alike(buffer, buffer')
  <2>1. CASE buffer' = buffer
    BY <1>1, <2>1 DEF Alike
  <2>2. ASSUME NEW t \in Readers, buffer' = C!wait_empty(t, buffer)
        PROVE  buffer' \in Ring(S) /\ Alike(buffer, buffer')
    BY <1>1, <2>2, WaitFacts
  <2>3. CASE buffer' = [buffer EXCEPT !.lock = C!NULL]
    BY <1>1, <2>3, WaitFacts
  <2> QED BY <2>1, <2>2, <2>3
<1>3. C!contents(buffer') = pending_in'
  BY <1>1, <1>2, AlikeFacts
<1> QED BY <1>1, <1>2, <1>3 DEF InInv

\* The register stays right while the queues keep their bytes.
LEMMA ArmedKept ==
  ASSUME ArmedInv, mode' = mode, ier' = ier, Alike(txq, txq'), Alike(buffer, buffer')
  PROVE  ArmedInv'
<1>1. C!write_ier(txq', buffer') = C!write_ier(txq, buffer)
  BY AlikeFacts DEF C!write_ier
<1> QED BY <1>1 DEF ArmedInv

-----------------------------------------------------------------------------
(* The terminal: the steps of the threads.                                 *)

\* putc_poll: the register is waited for, then takes the byte.
LEMMA PollStep ==
  ASSUME TermInv, NEW t \in Writers, C!serial_putc(t), C!putc_poll(t)
  PROVE  TermInv'
<1>0. OutInv /\ WriterInv /\ InInv /\ ArmedInv /\ load \in Loads
  BY DEF TermInv
<1>1. /\ t \in Terminal /\ th[t].op = "putc" /\ mode # "QUEUE"
      /\ uart' = [uart EXCEPT !.thr = C!byte_of(t)]
      /\ pending_out' = Append(C!IsSent(pending_out), C!byte_of(t))
      /\ th' = [th EXCEPT ![t] = C!put(t)]
      /\ txq' = txq /\ ier' = ier /\ buffer' = buffer /\ pending_in' = pending_in /\ mode' = mode /\ load' = load
  BY DEF C!serial_putc, C!putc_poll, Terminal
<1>2. th[t].left \in Nat /\ th[t].left # 0
  BY <1>0, <1>1 DEF WriterInv, ThreadRec, Terminal
<1>3. PICK b \in Bytes : b = C!byte_of(t)
  BY <1>2 DEF C!byte_of, C!Message, Bytes
<1>4. OutInv'
  <2>1. /\ txq \in Ring(Nat) /\ C!intq_empty(txq) /\ uart.thr \in Nat /\ uart \in [thr : Nat, rbr : Nat]
        /\ pending_out = Reg(uart.thr) \o C!contents(txq) /\ C!contents(txq) \in Seq(Bytes)
    BY <1>0, <1>1 DEF OutInv
  <2>2. C!contents(txq) = <<>>
    BY <2>1, ContentsFacts
  <2>3. C!IsSent(pending_out) = <<>>
    <3>0. PICK s \in Seq(Bytes) : s = <<>>
      BY <2>1, <2>2
    <3>1. uart.thr # 0 => Tail(Reg(uart.thr) \o s) = s
      BY <1>3, <2>1, RegFacts
    <3>2. uart.thr = 0 => Reg(uart.thr) \o s = s
      BY <1>3, <2>1, RegFacts
    <3> QED BY <2>1, <2>2, <3>0, <3>1, <3>2 DEF C!IsSent, C!Empty
  <2>4. pending_out' = Reg(b) \o <<>>
    <3>1. Reg(b) \o <<>> = <<b>>
      BY <2>1, RegFacts DEF Bytes
    <3> QED BY <1>1, <1>3, <2>3, <3>1
  <2>5. uart' \in [thr : Nat, rbr : Nat] /\ uart'.thr = b
    BY <1>1, <1>3, <2>1 DEF Bytes
  <2> QED BY <1>0, <1>1, <2>1, <2>2, <2>4, <2>5 DEF OutInv
<1>5. InInv' /\ ArmedInv' /\ load' \in Loads
  BY <1>0, <1>1 DEF InInv, ArmedInv
<1>6. WriterInv'
  BY <1>0, <1>1, <1>2, PutKeeps
<1> QED BY <1>4, <1>5, <1>6 DEF TermInv

\* serial_putc with room in the queue.
LEMMA QueueByte ==
  ASSUME TermInv, NEW t \in Writers, C!serial_putc(t), C!serial_queue(t)
  PROVE  TermInv'
<1>0. OutInv /\ WriterInv /\ InInv /\ ArmedInv /\ load \in Loads
  BY DEF TermInv
<1>1. /\ th[t].op = "putc" /\ mode = "QUEUE" /\ ~C!intq_full(txq)
      /\ txq' = C!intq_putc(txq, C!byte_of(t))
      /\ ier' = C!write_ier(txq', buffer)
      /\ pending_out' = Append(pending_out, C!byte_of(t))
      /\ th' = [th EXCEPT ![t] = C!put(t)]
      /\ uart' = uart /\ buffer' = buffer /\ pending_in' = pending_in /\ mode' = mode /\ load' = load
  BY DEF C!serial_putc, C!serial_queue
<1>2. th[t].left \in Nat /\ th[t].left # 0
  BY <1>0, <1>1 DEF WriterInv, ThreadRec
<1>3. PICK b \in Bytes : b = C!byte_of(t)
  BY <1>2 DEF C!byte_of, C!Message, Bytes
<1>4. OutInv' /\ txq'.not_full = txq.not_full
  BY <1>0, <1>1, <1>3, OutPut
<1>5. InInv' /\ ArmedInv' /\ load' \in Loads
  BY <1>0, <1>1 DEF InInv, ArmedInv
<1>6. WriterInv'
  BY <1>0, <1>1, <1>4, PutKeeps
<1> QED BY <1>4, <1>5, <1>6 DEF TermInv

\* serial_putc with the queue full: the writer sleeps.
LEMMA FullStep ==
  ASSUME TermInv, NEW t \in Writers, C!serial_putc(t), C!serial_full(t)
  PROVE  TermInv'
<1>0. OutInv /\ WriterInv /\ InInv /\ ArmedInv /\ load \in Loads
  BY DEF TermInv
<1>1. /\ th[t].op = "putc" /\ txq' = C!wait_full(t, txq) /\ th' = C!waiting(t, txq)
      /\ ier' = ier /\ pending_out' = pending_out
      /\ uart' = uart /\ buffer' = buffer /\ pending_in' = pending_in /\ mode' = mode /\ load' = load
  BY DEF C!serial_putc, C!serial_full
<1>2. t \in Terminal /\ th[t].left # 0 /\ t # C!NULL
  BY <1>0, <1>1, TerminalAssumption DEF WriterInv, Terminal, C!NULL
<1>3. txq \in Ring(Nat) /\ uart \in [thr : Nat, rbr : Nat]
  BY <1>0 DEF OutInv
<1>4. /\ txq' \in Ring(Nat) /\ Alike(txq, txq')
      /\ txq'.not_full = IF txq.lock = C!NULL THEN t ELSE txq.not_full
  BY <1>1, <1>3, WaitFacts
<1>5. OutInv'
  BY <1>0, <1>1, <1>3, <1>4, OutKept
<1>6. InInv' /\ ArmedInv' /\ load' \in Loads
  <2>1. InInv' /\ Alike(buffer, buffer')
    BY <1>0, <1>1, InKept
  <2> QED BY <1>0, <1>1, <1>4, <2>1, ArmedKept
<1>7. PICK o \in Ops : o = IF txq.lock = C!NULL THEN "blocked" ELSE "lock"
  BY DEF Ops
<1>8. SetOp(t, o)
  <2>1. th' = [th EXCEPT ![t].op = o]
    BY <1>1, <1>7 DEF C!waiting
  <2> QED BY <1>0, <1>2, <2>1, OpChanged, Zenon
<1>9. txq.not_full # t
  BY <1>0, <1>1, <1>2 DEF WriterInv
<1>10. txq'.not_full # C!NULL => txq'.not_full \in Terminal
  BY <1>3, <1>4, RingFields DEF Terminal
<1>11. txq'.not_full # C!NULL => IF txq'.not_full = t THEN o = "blocked" ELSE txq'.not_full = txq.not_full
  BY <1>4, <1>7, <1>9
<1>12. WriterInv'
  BY <1>0, <1>2, <1>8, <1>10, <1>11, WriterKept
<1> QED BY <1>5, <1>6, <1>12 DEF TermInv

\* What the steps of a reader's thread leave alone on the output side.
LEMMA ReaderOp ==
  ASSUME WriterInv, NEW t \in Readers, NEW o \in Ops, th' = [th EXCEPT ![t].op = o],
         txq \in Ring(Nat), txq'.not_full = txq.not_full
  PROVE  WriterInv'
<1>1. t \in Terminal /\ t \notin Writers
  BY TerminalAssumption DEF Terminal
<1>2. SetOp(t, o)
  BY <1>1, OpChanged, Zenon
<1>3. txq.not_full \in Writers \cup {C!NULL}
  BY RingFields
<1>4. txq'.not_full # C!NULL => /\ txq'.not_full \in Terminal
                                /\ IF txq'.not_full = t THEN o = "blocked" ELSE txq'.not_full = txq.not_full
  BY <1>1, <1>3 DEF Terminal
<1> QED BY <1>1, <1>2, <1>4, WriterKept

\* A reader takes a byte or waits.
LEMMA GetcStep ==
  ASSUME TermInv, NEW t, C!input_getc(t)
  PROVE  TermInv'
<1>0. OutInv /\ WriterInv /\ InInv /\ ArmedInv /\ load \in Loads
  BY DEF TermInv
<1>1. /\ t \in Readers
      /\ txq' = txq /\ uart' = uart /\ pending_out' = pending_out /\ mode' = mode /\ load' = load
  BY DEF C!input_getc
<1>2. txq \in Ring(Nat) /\ uart \in [thr : Nat, rbr : Nat] /\ Alike(txq, txq')
  BY <1>0, <1>1 DEF OutInv, Alike
<1>3. OutInv'
  BY <1>0, <1>1, <1>2, OutKept
<1>4. CASE C!intq_empty(buffer)
  <2>1. /\ buffer' = C!wait_empty(t, buffer) /\ th' = C!waiting(t, buffer)
        /\ ier' = ier /\ pending_in' = pending_in
    BY <1>4 DEF C!input_getc
  <2>2. InInv' /\ Alike(buffer, buffer')
    BY <1>0, <1>1, <2>1, InKept
  <2>3. ArmedInv'
    BY <1>0, <1>1, <1>2, <2>1, <2>2, ArmedKept
  <2>4. PICK o \in Ops : o = IF buffer.lock = C!NULL THEN "blocked" ELSE "lock"
    BY DEF Ops
  <2>5. th' = [th EXCEPT ![t].op = o]
    BY <2>1, <2>4 DEF C!waiting
  <2>6. WriterInv'
    <3>1. txq'.not_full = txq.not_full
      BY <1>1
    <3> QED BY <1>0, <1>1, <1>2, <2>5, <3>1, ReaderOp, Zenon
  <2> QED BY <1>0, <1>1, <1>3, <2>2, <2>3, <2>6 DEF TermInv
<1>5. CASE ~C!intq_empty(buffer)
  <2>1. /\ buffer' = C!intq_getc(buffer) /\ th' = [th EXCEPT ![t].op = "idle"]
        /\ ier' = C!serial_notify(txq, buffer') /\ pending_in' = Tail(pending_in)
    BY <1>5 DEF C!input_getc
  <2>2. InInv'
    BY <1>0, <1>5, <2>1, InGet
  <2>3. ArmedInv'
    BY <1>1, <2>1 DEF ArmedInv, C!serial_notify
  <2>4. PICK o \in Ops : o = "idle"
    BY DEF Ops
  <2>6. WriterInv'
    <3>1. txq'.not_full = txq.not_full /\ th' = [th EXCEPT ![t].op = o]
      BY <1>1, <2>1, <2>4
    <3> QED BY <1>0, <1>1, <1>2, <3>1, ReaderOp, Zenon
  <2> QED BY <1>0, <1>1, <1>3, <2>2, <2>3, <2>6 DEF TermInv
<1> QED BY <1>4, <1>5

\* A reader has the lock of the queue.
LEMMA LockedStep ==
  ASSUME TermInv, NEW t, C!locked(t)
  PROVE  TermInv'
<1>0. OutInv /\ WriterInv /\ InInv /\ ArmedInv /\ load \in Loads
  BY DEF TermInv
<1>1. /\ t \in Readers /\ buffer.lock = C!NULL
      /\ txq' = txq /\ uart' = uart /\ pending_out' = pending_out /\ mode' = mode /\ load' = load
      /\ ier' = ier /\ pending_in' = pending_in
  BY DEF C!locked
<1>2. txq \in Ring(Nat) /\ uart \in [thr : Nat, rbr : Nat] /\ Alike(txq, txq')
  BY <1>0, <1>1 DEF OutInv, Alike
<1>3. OutInv'
  BY <1>0, <1>1, <1>2, OutKept
<1>4. PICK o \in Ops : th' = [th EXCEPT ![t].op = o]
  <2>1. CASE C!intq_empty(buffer)
    BY <1>1, <2>1 DEF C!locked, C!waiting, Ops
  <2>2. CASE ~C!intq_empty(buffer)
    BY <2>2 DEF C!locked, Ops
  <2> QED BY <2>1, <2>2
<1>5. buffer' = buffer \/ buffer' = C!wait_empty(t, buffer)
  BY DEF C!locked
<1>6. InInv' /\ Alike(buffer, buffer')
  BY <1>0, <1>1, <1>5, InKept
<1>7. ArmedInv'
  BY <1>0, <1>1, <1>2, <1>6, ArmedKept
<1>8. WriterInv'
  <2>1. txq'.not_full = txq.not_full
    BY <1>1
  <2> QED BY <1>0, <1>1, <1>2, <1>4, <2>1, ReaderOp, Zenon
<1> QED BY <1>0, <1>1, <1>3, <1>6, <1>7, <1>8 DEF TermInv

\* A woken thread gives the lock back.
LEMMA ReleaseStep ==
  ASSUME TermInv, NEW t \in Terminal, C!lock_release(t)
  PROVE  TermInv'
<1>0. OutInv /\ WriterInv /\ InInv /\ ArmedInv /\ load \in Loads
  BY DEF TermInv
<1>1. /\ th[t].op = "woken" /\ th' = [th EXCEPT ![t].op = IF t \in Readers THEN "getc" ELSE "putc"]
      /\ buffer' = buffer \/ buffer' = [buffer EXCEPT !.lock = C!NULL]
      /\ txq' = txq \/ txq' = [txq EXCEPT !.lock = C!NULL]
      /\ uart' = uart /\ pending_out' = pending_out /\ mode' = mode /\ load' = load
      /\ ier' = ier /\ pending_in' = pending_in
  BY DEF C!lock_release
<1>2. txq \in Ring(Nat) /\ uart \in [thr : Nat, rbr : Nat]
  BY <1>0 DEF OutInv
<1>3. txq' \in Ring(Nat) /\ Alike(txq, txq') /\ txq'.not_full = txq.not_full
  <2>1. CASE txq' = txq
    BY <1>2, <2>1 DEF Alike
  <2>2. CASE txq' = [txq EXCEPT !.lock = C!NULL]
    BY <1>2, <2>2, WaitFacts
  <2> QED BY <1>1, <2>1, <2>2
<1>4. OutInv'
  BY <1>0, <1>1, <1>2, <1>3, OutKept
<1>5. InInv' /\ Alike(buffer, buffer')
  BY <1>0, <1>1, InKept
<1>6. ArmedInv'
  BY <1>0, <1>1, <1>3, <1>5, ArmedKept
<1>7. PICK o \in Ops : th' = [th EXCEPT ![t].op = o]
  BY <1>1 DEF Ops
<1>8. SetOp(t, o)
  BY <1>0, <1>7, OpChanged, Zenon
<1>9. /\ txq'.not_full # t
      /\ txq'.not_full # C!NULL => txq'.not_full \in Terminal
      /\ t \in Writers => th[t].left # 0
  <2>1. txq.not_full \in Writers \cup {C!NULL} /\ t # C!NULL
    BY <1>2, RingFields, TerminalAssumption DEF C!NULL, Terminal
  <2> QED BY <1>0, <1>1, <1>3, <2>1 DEF WriterInv, Terminal
<1>10. WriterInv'
  BY <1>0, <1>3, <1>8, <1>9, WriterKept
<1> QED BY <1>0, <1>1, <1>4, <1>5, <1>6, <1>10 DEF TermInv

\* What a run of the terminal may do.
LEMMA LoadFacts ==
  ASSUME load \in Loads
  PROVE  /\ load.serial = {115} /\ load.writers \subseteq Writers
         /\ load.codes \subseteq {30, 42, 57373, 58}
<1>1. CASE load = Typing
  BY <1>1 DEF Typing
<1>2. CASE load = Printing
  BY <1>2 DEF Printing
<1> QED BY <1>1, <1>2 DEF Loads

\* A call begins, and the port gets its interrupts.
LEMMA BeginSteps ==
  ASSUME TermInv,
         \/ \E t \in Readers : C!input_getc_begin(t)
         \/ \E t \in Writers, n \in 1 .. 2 : C!putbuf(t, n)
         \/ C!serial_init_queue
  PROVE  TermInv'
<1>0. OutInv /\ WriterInv /\ InInv /\ ArmedInv /\ load \in Loads
  BY DEF TermInv
<1>1. /\ txq' = txq /\ uart' = uart /\ pending_out' = pending_out /\ load' = load
      /\ buffer' = buffer /\ pending_in' = pending_in /\ (mode' = mode \/ mode' = "QUEUE")
  BY DEF C!input_getc_begin, C!putbuf, C!serial_init_queue
<1>2. txq \in Ring(Nat) /\ uart \in [thr : Nat, rbr : Nat] /\ Alike(txq, txq') /\ txq'.not_full = txq.not_full
  BY <1>0, <1>1 DEF OutInv, Alike
<1>3. OutInv'
  BY <1>0, <1>1, <1>2, OutKept
<1>4. InInv' /\ Alike(buffer, buffer')
  BY <1>0, <1>1, InKept
<1>5. ASSUME NEW t \in Readers, C!input_getc_begin(t) PROVE ArmedInv' /\ WriterInv'
  <2>1. th' = [th EXCEPT ![t].op = "getc"] /\ mode' = mode /\ ier' = ier
    BY <1>5 DEF C!input_getc_begin
  <2>2. PICK o \in Ops : th' = [th EXCEPT ![t].op = o]
    BY <2>1 DEF Ops
  <2>3. WriterInv'
    BY <1>0, <1>2, <2>2, ReaderOp, Zenon
  <2>4. ArmedInv'
    BY <1>0, <1>2, <1>4, <2>1, ArmedKept
  <2> QED BY <2>3, <2>4
<1>6. ASSUME NEW t \in Writers, NEW n \in 1 .. 2, C!putbuf(t, n) PROVE ArmedInv' /\ WriterInv'
  <2>1. /\ th' = [th EXCEPT ![t] = [op |-> "putc", left |-> n]] /\ mode' = mode /\ ier' = ier
        /\ th[t].op = "idle"
    BY <1>6 DEF C!putbuf
  <2>2. PICK r \in ThreadRec : r = [op |-> "putc", left |-> n] /\ r.left # 0
    <3>1. n \in Nat /\ n # 0
      OBVIOUS
    <3>2. [op |-> "putc", left |-> n] \in ThreadRec
      BY <3>1 DEF ThreadRec, Ops
    <3> QED BY <3>1, <3>2
  <2>3. /\ th' \in [Readers \cup Writers -> ThreadRec]
        /\ th'[t] = r /\ \A u \in Readers \cup Writers : u # t => th'[u] = th[u]
    BY <1>0, <2>1, <2>2 DEF WriterInv
  <2>4. \A u \in Writers : th'[u].op \in {"putc", "blocked", "woken", "lock"} => th'[u].left # 0
    BY <1>0, <2>2, <2>3 DEF WriterInv
  <2>5. txq'.not_full # C!NULL => th'[txq'.not_full].op = "blocked"
    <3> SUFFICES ASSUME txq.not_full # C!NULL PROVE th'[txq.not_full].op = "blocked"
      BY <1>2
    <3>1. th[txq.not_full].op = "blocked" /\ txq.not_full # t
      BY <1>0, <2>1 DEF WriterInv
    <3>2. txq.not_full \in Readers \cup Writers
      BY <1>2, RingFields
    <3> QED BY <2>3, <3>1, <3>2
  <2>6. ArmedInv'
    BY <1>0, <1>2, <1>4, <2>1, ArmedKept
  <2> QED BY <2>3, <2>4, <2>5, <2>6 DEF WriterInv
<1>7. ASSUME C!serial_init_queue PROVE ArmedInv' /\ WriterInv'
  <2>1. mode' = "QUEUE" /\ ier' = C!write_ier(txq, buffer) /\ th' = th
    BY <1>7 DEF C!serial_init_queue
  <2> QED BY <1>0, <1>1, <1>2, <2>1, WriterSame DEF ArmedInv
<1> QED BY <1>0, <1>1, <1>3, <1>4, <1>5, <1>6, <1>7 DEF TermInv

\* The port's line.
LEMMA LineSteps ==
  ASSUME TermInv, C!transmit \/ \E c \in load.serial : C!arrive(c)
  PROVE  TermInv'
<1>0. OutInv /\ WriterInv /\ InInv /\ ArmedInv /\ load \in Loads
  BY DEF TermInv
<1>1. /\ txq' = txq /\ mode' = mode /\ load' = load /\ th' = th /\ ier' = ier
      /\ buffer' = buffer /\ pending_in' = pending_in
  BY DEF C!transmit, C!arrive
<1>2. txq \in Ring(Nat) /\ uart \in [thr : Nat, rbr : Nat] /\ Alike(txq, txq') /\ txq'.not_full = txq.not_full
  BY <1>0, <1>1 DEF OutInv, Alike
<1>3. InInv' /\ ArmedInv' /\ WriterInv' /\ load' \in Loads
  BY <1>0, <1>1, <1>2, WriterSame DEF InInv, ArmedInv
<1>4. ASSUME C!transmit PROVE OutInv'
  <2>1. /\ uart.thr # 0 /\ uart' = [uart EXCEPT !.thr = 0] /\ pending_out' = Tail(pending_out)
    BY <1>4 DEF C!transmit, C!Empty
  <2>2. uart' \in [thr : Nat, rbr : Nat] /\ uart'.thr = 0 /\ uart.thr \in Nat
    BY <1>2, <2>1
  <2>3. PICK s \in Seq(Bytes) : s = C!contents(txq) /\ pending_out = Reg(uart.thr) \o s
    BY <1>0 DEF OutInv
  <2>4. 1 \in Bytes /\ 0 \in Nat
    BY DEF Bytes
  <2>5. Tail(Reg(uart.thr) \o s) = s /\ Reg(0) \o s = s
    BY <2>1, <2>2, <2>4, RegFacts
  <2> QED BY <1>0, <1>1, <2>1, <2>2, <2>3, <2>5 DEF OutInv
<1>5. ASSUME NEW c \in load.serial, C!arrive(c) PROVE OutInv'
  <2>1. uart' = [uart EXCEPT !.rbr = c] /\ pending_out' = pending_out /\ c \in Nat
    BY <1>0, <1>5, LoadFacts DEF C!arrive
  <2>2. uart' \in [thr : Nat, rbr : Nat] /\ uart'.thr = uart.thr
    BY <1>2, <2>1
  <2> QED BY <1>0, <1>1, <1>2, <2>1, <2>2, OutKept
<1> QED BY <1>3, <1>4, <1>5 DEF TermInv

\* signal on the input queue may wake a reader; writers do not notice.
LEMMA ReaderWoken ==
  ASSUME WriterInv, InInv, txq \in Ring(Nat), th' = C!woken(th, buffer.not_empty), txq'.not_full = txq.not_full
  PROVE  WriterInv'
<1>1. buffer.not_empty \in Readers \cup {C!NULL}
  <2>1. PICK S : buffer \in Ring(S)
    BY DEF InInv
  <2> QED BY <2>1, RingFields
<1>2. CASE buffer.not_empty = C!NULL
  <2>1. th' = th
    BY <1>2 DEF C!woken
  <2> QED BY <2>1, WriterSame
<1>3. CASE buffer.not_empty # C!NULL
  <2>1. PICK t \in Readers : t = buffer.not_empty
    BY <1>1, <1>3
  <2>2. PICK o \in Ops : o = "woken"
    BY DEF Ops
  <2>3. th' = [th EXCEPT ![t].op = o]
    BY <1>3, <2>1, <2>2 DEF C!woken
  <2> QED BY <2>3, ReaderOp, Zenon
<1> QED BY <1>2, <1>3

\* A key types a byte.
LEMMA KeyStep ==
  ASSUME TermInv, NEW k \in load.codes, C!keyboard_interrupt(k)
  PROVE  TermInv'
<1>0. OutInv /\ WriterInv /\ InInv /\ ArmedInv /\ load \in Loads
  BY DEF TermInv
<1>1. txq' = txq /\ uart' = uart /\ pending_out' = pending_out /\ load' = load /\ mode' = mode
  BY DEF C!keyboard_interrupt
<1>2. txq \in Ring(Nat) /\ uart \in [thr : Nat, rbr : Nat] /\ Alike(txq, txq') /\ txq'.not_full = txq.not_full
  BY <1>0, <1>1 DEF OutInv, Alike
<1>3. OutInv'
  BY <1>0, <1>1, <1>2, OutKept
<1>4. \/ buffer' = buffer /\ pending_in' = pending_in /\ ier' = ier /\ th' = th
      \/ \E b : /\ ~C!intq_full(buffer) /\ C!input_putc(txq, b) /\ th' = C!woken(th, buffer.not_empty)
  BY DEF C!keyboard_interrupt, C!key_pressed
<1>5. CASE buffer' = buffer /\ pending_in' = pending_in /\ ier' = ier /\ th' = th
  BY <1>0, <1>1, <1>2, <1>3, <1>5, WriterSame DEF InInv, ArmedInv, TermInv
<1>6. ASSUME NEW b, ~C!intq_full(buffer), C!input_putc(txq, b), th' = C!woken(th, buffer.not_empty)
      PROVE  TermInv'
  <2>1. /\ buffer' = C!intq_putc(buffer, b) /\ pending_in' = Append(pending_in, b)
        /\ ier' = C!serial_notify(txq, buffer')
    BY <1>6 DEF C!input_putc
  <2>2. InInv'
    BY <1>0, <1>6, <2>1, InPut
  <2>3. ArmedInv'
    BY <1>1, <2>1 DEF ArmedInv, C!serial_notify
  <2>4. WriterInv'
    BY <1>0, <1>2, <1>6, ReaderWoken
  <2> QED BY <1>0, <1>1, <1>3, <2>2, <2>3, <2>4 DEF TermInv
<1> QED BY <1>4, <1>5, <1>6

\* printf in a handler, with the queue full or not.
LEMMA PrintStep ==
  ASSUME TermInv, C!printf_intr
  PROVE  TermInv'
<1>0. OutInv /\ WriterInv /\ InInv /\ ArmedInv /\ load \in Loads
  BY DEF TermInv
<1>1. /\ mode = "QUEUE" /\ mode' = mode /\ load' = load /\ buffer' = buffer /\ pending_in' = pending_in
      /\ ier' = C!write_ier(txq', buffer)
  BY DEF C!printf_intr
<1>2. txq \in Ring(Nat) /\ uart \in [thr : Nat, rbr : Nat]
  BY <1>0 DEF OutInv
<1>3. PICK b \in Bytes : b = C!Message
  BY DEF Bytes, C!Message
<1>4. InInv' /\ ArmedInv' /\ load' \in Loads
  BY <1>0, <1>1 DEF InInv, ArmedInv
<1>5. CASE ~C!intq_full(txq)
  <2>1. /\ uart' = [uart EXCEPT !.thr = uart.thr] /\ pending_out' = Append(pending_out, b) /\ th' = th
        /\ txq' = C!intq_putc(txq, b)
    BY <1>3, <1>5 DEF C!printf_intr
  <2>2. uart' = uart
    BY <1>2, <2>1
  <2>3. OutInv' /\ txq'.not_full = txq.not_full
    BY <1>0, <1>1, <1>5, <2>1, <2>2, OutPut
  <2>4. WriterInv'
    BY <1>0, <2>1, <2>3, WriterSame
  <2> QED BY <1>4, <2>3, <2>4 DEF TermInv
<1>6. CASE C!intq_full(txq)
  <2>1. /\ uart' = [uart EXCEPT !.thr = C!first(txq)] /\ pending_out' = Append(C!IsSent(pending_out), b)
        /\ th' = C!woken(th, txq.not_full)
        /\ txq' = C!intq_putc(C!intq_getc(txq), b)
    BY <1>3, <1>6 DEF C!printf_intr
  <2>2. ~C!intq_empty(txq)
    BY <1>2, <1>6, ContentsFacts, Constants
  <2>3. PICK q \in Ring(Nat) : q = C!intq_getc(txq)
    BY <1>0, <2>2, OutGet
  <2>4. PICK f \in Bytes, s \in Seq(Bytes) : f = C!first(txq) /\ s = C!contents(q)
    BY <1>0, <2>2, <2>3, OutGet
  <2>5. q.not_full = C!NULL /\ C!IsSent(pending_out) = Reg(f) \o s /\ ~C!intq_full(q)
    BY <1>0, <1>6, <2>2, <2>3, <2>4, OutGet
  <2>6. Nat \cup {b} = Nat /\ f \in Nat
    BY DEF Bytes
  <2>7. txq' \in Ring(Nat) /\ txq'.not_full = C!NULL /\ C!contents(txq') = Append(s, b)
    BY <2>1, <2>3, <2>4, <2>5, <2>6, PutFacts
  <2>8. pending_out' = Reg(f) \o Append(s, b) /\ Append(s, b) \in Seq(Bytes)
    BY <2>1, <2>5, <2>6, RegFacts
  <2>9. uart' \in [thr : Nat, rbr : Nat] /\ uart'.thr = f
    BY <1>2, <2>1, <2>4, <2>6
  <2>10. OutInv'
    BY <1>1, <2>7, <2>8, <2>9 DEF OutInv
  <2>11. WriterInv'
    BY <1>0, <1>2, <2>1, <2>7, WriterWoken
  <2> QED BY <1>4, <2>10, <2>11 DEF TermInv
<1> QED BY <1>5, <1>6

\* signal changes the record of the thread it wakes, and of that only op.
LEMMA WokenFacts ==
  ASSUME NEW x \in [Terminal -> ThreadRec], NEW w \in Terminal \cup {C!NULL}
  PROVE  /\ C!woken(x, w) \in [Terminal -> ThreadRec]
         /\ \A u \in Terminal : u # w => C!woken(x, w)[u] = x[u]
         /\ \A u \in Terminal : C!woken(x, w)[u].left = x[u].left
<1>1. CASE w = C!NULL
  BY <1>1 DEF C!woken
<1>2. CASE w # C!NULL
  <2>1. w \in Terminal /\ x[w] \in ThreadRec
    BY <1>2
  <2>2. PICK r \in ThreadRec : r = [x[w] EXCEPT !.op = "woken"] /\ r.left = x[w].left
    <3>1. PICK o \in Ops : o = "woken"
      BY DEF Ops
    <3>2. [x[w] EXCEPT !.op = o] \in ThreadRec /\ [x[w] EXCEPT !.op = o].left = x[w].left
      BY <2>1 DEF ThreadRec
    <3> QED BY <3>1, <3>2
  <2>3. C!woken(x, w) = [x EXCEPT ![w] = r]
    BY <1>2, <2>2 DEF C!woken
  <2> QED BY <2>1, <2>2, <2>3
<1> QED BY <1>1, <1>2

\* The interrupt of the port moves a byte either way.
LEMMA SerialStep ==
  ASSUME TermInv, C!serial_interrupt
  PROVE  TermInv'
<1>0. OutInv /\ WriterInv /\ InInv /\ ArmedInv /\ load \in Loads
  BY DEF TermInv
<1> DEFINE receive == ~C!intq_full(buffer) /\ uart.rbr # C!Empty
           send == ~C!intq_empty(txq) /\ uart.thr = C!Empty
           tx == IF send THEN C!intq_getc(txq) ELSE txq
           waked == IF send THEN C!woken(th, txq.not_full) ELSE th
<1>1. /\ mode = "QUEUE" /\ mode' = mode /\ load' = load /\ pending_out' = pending_out /\ txq' = tx
      /\ uart' = [thr |-> IF send THEN C!first(txq) ELSE uart.thr,
                  rbr |-> IF receive THEN C!Empty ELSE uart.rbr]
      /\ receive => C!input_putc(tx, uart.rbr) /\ th' = C!woken(waked, buffer.not_empty)
      /\ ~receive => /\ th' = waked /\ ier' = C!write_ier(tx, buffer)
                     /\ buffer' = buffer /\ pending_in' = pending_in
  BY DEF C!serial_interrupt
<1>2. txq \in Ring(Nat) /\ uart \in [thr : Nat, rbr : Nat] /\ C!Empty = 0
  BY <1>0 DEF OutInv, C!Empty
<1>3. OutInv' /\ txq'.not_full \in {C!NULL, txq.not_full} /\ (send => txq'.not_full = C!NULL)
  <2>1. CASE send
    <3>1. PICK f \in Bytes, s \in Seq(Bytes) : f = C!first(txq) /\ s = C!contents(C!intq_getc(txq))
      BY <1>0, <2>1, OutGet
    <3>2. txq' = C!intq_getc(txq) /\ txq' \in Ring(Nat) /\ txq'.not_full = C!NULL
      BY <1>0, <1>1, <2>1, OutGet
    <3>3. pending_out = Reg(f) \o s
      BY <1>0, <2>1, <3>1, OutGet DEF C!IsSent
    <3>4. f \in Nat /\ uart' \in [thr : Nat, rbr : Nat] /\ uart'.thr = f
      BY <1>1, <1>2, <2>1, <3>1 DEF Bytes
    <3> QED BY <1>1, <3>1, <3>2, <3>3, <3>4 DEF OutInv
  <2>2. CASE ~send
    <3>1. txq' = txq /\ Alike(txq, txq') /\ txq' \in Ring(Nat)
      BY <1>1, <1>2, <2>2 DEF Alike
    <3>2. uart' \in [thr : Nat, rbr : Nat] /\ uart'.thr = uart.thr
      BY <1>1, <1>2, <2>2
    <3> QED BY <1>0, <1>1, <2>2, <3>1, <3>2, OutKept
  <2> QED BY <2>1, <2>2
<1>4. InInv' /\ ArmedInv'
  <2>1. CASE receive
    <3>1. /\ buffer' = C!intq_putc(buffer, uart.rbr) /\ pending_in' = Append(pending_in, uart.rbr)
          /\ ier' = C!write_ier(tx, buffer')
      BY <1>1, <2>1 DEF C!input_putc, C!serial_notify
    <3>2. InInv'
      BY <1>0, <2>1, <3>1, InPut
    <3> QED BY <1>1, <3>1, <3>2 DEF ArmedInv
  <2>2. CASE ~receive
    BY <1>0, <1>1, <2>2 DEF InInv, ArmedInv
  <2> QED BY <2>1, <2>2
<1>5. WriterInv'
  <2>1. /\ txq.not_full \in Writers \cup {C!NULL} /\ buffer.not_empty \in Readers \cup {C!NULL}
        /\ th \in [Terminal -> ThreadRec] /\ Writers \subseteq Terminal /\ Readers \cap Writers = {}
        /\ Readers \subseteq Terminal
    <3>1. PICK S : buffer \in Ring(S)
      BY <1>0 DEF InInv
    <3> QED BY <1>0, <1>2, <3>1, RingFields, TerminalAssumption DEF WriterInv, Terminal
  <2>2. CASE send
    <3>1. /\ waked \in [Terminal -> ThreadRec]
          /\ \A u \in Terminal : u # txq.not_full => waked[u] = th[u]
          /\ \A u \in Terminal : waked[u].left = th[u].left
      <4>1. txq.not_full \in Terminal \cup {C!NULL}
        BY <2>1
      <4> QED BY <2>1, <2>2, <4>1, WokenFacts
    <3> HIDE DEF waked
    <3>2. /\ th' \in [Terminal -> ThreadRec] /\ \A u \in Writers : th'[u] = waked[u]
      <4>1. CASE receive
        <5>1. buffer.not_empty \in Terminal \cup {C!NULL} /\ th' = C!woken(waked, buffer.not_empty)
          BY <1>1, <2>1, <4>1
        <5>2. /\ th' \in [Terminal -> ThreadRec]
              /\ \A u \in Terminal : u # buffer.not_empty => th'[u] = waked[u]
          BY <3>1, <5>1, WokenFacts
        <5>3. \A u \in Writers : u # buffer.not_empty
          BY <2>1, TerminalAssumption DEF C!NULL
        <5> QED BY <2>1, <5>2, <5>3
      <4>2. CASE ~receive
        BY <1>1, <3>1, <4>2
      <4> QED BY <4>1, <4>2
    <3>3. ASSUME NEW u \in Writers, th'[u].op \in {"putc", "blocked", "woken", "lock"} PROVE th'[u].left # 0
      <4>1. CASE u = txq.not_full
        <5>1. th[u].op = "blocked"
          BY <1>0, <4>1, TerminalAssumption DEF WriterInv, C!NULL
        <5> QED BY <1>0, <2>1, <3>1, <3>2, <5>1 DEF WriterInv
      <4>2. CASE u # txq.not_full
        BY <1>0, <2>1, <3>1, <3>2, <3>3, <4>2 DEF WriterInv
      <4> QED BY <4>1, <4>2
    <3> QED BY <1>3, <2>2, <3>2, <3>3 DEF WriterInv, Terminal
  <2>3. CASE ~send
    <3>1. txq' = txq /\ (th' = th \/ th' = C!woken(th, buffer.not_empty))
      BY <1>1, <2>3
    <3> QED BY <1>0, <1>2, <3>1, WriterSame, ReaderWoken
  <2> QED BY <2>2, <2>3
<1> QED BY <1>0, <1>1, <1>3, <1>4, <1>5 DEF TermInv

\* A panic empties the queue.
LEMMA FlushStep ==
  ASSUME TermInv, C!serial_flush
  PROVE  TermInv'
<1>0. OutInv /\ WriterInv /\ InInv /\ ArmedInv /\ load \in Loads
  BY DEF TermInv
<1>1. /\ ~C!intq_empty(txq) /\ uart' = [uart EXCEPT !.thr = C!Last(C!contents(txq))]
      /\ pending_out' = <<C!Last(pending_out)>>
      /\ txq' = [txq EXCEPT !.buf = C!intq_init.buf, !.tail = txq.head, !.not_full = C!NULL]
      /\ th' = [t \in DOMAIN th |-> IF th[t].op = "panic" THEN th[t] ELSE [th[t] EXCEPT !.op = "halted"]]
      /\ mode' = "PANIC" /\ load' = load /\ buffer' = buffer /\ pending_in' = pending_in
  BY DEF C!serial_flush
<1>2. txq \in Ring(Nat) /\ uart \in [thr : Nat, rbr : Nat] /\ uart.thr \in Nat
  BY <1>0 DEF OutInv
<1>3. InInv' /\ ArmedInv' /\ load' \in Loads
  BY <1>0, <1>1 DEF InInv, ArmedInv
<1>4. C!intq_init.buf \in [Pos -> Nat]
  BY Constants DEF C!intq_init, C!Empty, Pos
<1>5. /\ txq' \in Ring(Nat) /\ txq'.head = txq'.tail /\ txq'.not_full = C!NULL
  BY <1>1, <1>2, <1>4 DEF Ring
<1>6. C!intq_empty(txq') /\ C!contents(txq') = <<>>
  <2>1. C!intq_empty(txq')
    BY <1>5 DEF C!intq_empty
  <2> QED BY <1>5, <2>1, ContentsFacts
<1>7. PICK s \in Seq(Bytes) : s = C!contents(txq) /\ s # <<>> /\ pending_out = Reg(uart.thr) \o s
  BY <1>0, <1>1, <1>2, ContentsFacts DEF OutInv
<1>8. 1 \in Bytes
  BY DEF Bytes
<1>9. PICK b \in Bytes : b = C!Last(s) /\ b = C!Last(pending_out)
  <2>1. C!Last(Reg(uart.thr) \o s) = C!Last(s) /\ C!Last(s) \in Bytes
    <3>1. PICK a \in Nat : a = uart.thr
      BY <1>2
    <3>2. C!Last(Reg(a) \o s) = C!Last(s) /\ C!Last(s) \in Bytes
      BY <1>7, <1>8, RegFacts
    <3> QED BY <3>1, <3>2
  <2> QED BY <1>7, <2>1
<1>10. Reg(b) \o <<>> = <<b>> /\ b \in Nat
  BY <1>2, <1>7, RegFacts DEF Bytes
<1>11. uart' \in [thr : Nat, rbr : Nat] /\ uart'.thr = b
  BY <1>1, <1>2, <1>7, <1>9, <1>10
<1>12. OutInv'
  <2>1. <<>> \in Seq(Bytes)
    OBVIOUS
  <2> QED BY <1>1, <1>5, <1>6, <1>9, <1>10, <1>11, <2>1 DEF OutInv
<1>13. WriterInv'
  <2>1. /\ \A t \in Terminal : th'[t] = IF th[t].op = "panic" THEN th[t] ELSE [th[t] EXCEPT !.op = "halted"]
        /\ DOMAIN th' = Terminal /\ th' = [t \in Terminal |-> th'[t]]
    BY <1>0, <1>1 DEF WriterInv, Terminal
  <2>2. \A t \in Terminal : th'[t] \in ThreadRec /\ th'[t].op \in {"panic", "halted"}
    BY <1>0, <2>1 DEF WriterInv, ThreadRec, Ops, Terminal
  <2>3. th' \in [Terminal -> ThreadRec]
    BY <2>1, <2>2
  <2> QED BY <1>5, <2>2, <2>3 DEF WriterInv, Terminal
<1> QED BY <1>3, <1>12, <1>13 DEF TermInv

-----------------------------------------------------------------------------
(* The keyboard.                                                           *)

\* The keys held, what the driver makes of them, and the parity of caps lock.
KeyInv ==
  /\ load \in Loads
  /\ keys.caps_lock \in BOOLEAN
  /\ caps_presses \in {0, 1}
  /\ keys.down = held \cap C!shift_keys
  /\ keys.caps_lock <=> caps_presses = 1

\* A row of a key map, of n keys from a on, has no shift key.
Keys(a, n) == a \in 1 .. 57 /\ n \in 1 .. 57 /\ a + n - 1 \in 1 .. 57 /\ (a > 42 \/ a + n - 1 < 42)
Fits(r) == Keys(r[1], Len(r[2]))

\* A row from its first key and its length.
LEMMA RowFits == \A a, n, s : Keys(a, n) /\ Len(s) = n => Fits(<<a, s>>)
<1> SUFFICES ASSUME NEW a, NEW n, NEW s, Keys(a, n), Len(s) = n PROVE Fits(<<a, s>>)
  OBVIOUS
<1>1. <<a, s>>[1] = a /\ <<a, s>>[2] = s
  OBVIOUS
<1> QED BY <1>1, Zenon DEF Fits

\* Every row of the three maps.
LEMMA MapsFit == \A r \in C!invariant_keymap \cup C!unshifted_keymap \cup C!shifted_keymap : Fits(r)
<1>1. \A r \in C!invariant_keymap : Fits(r)
  <2>1. Fits(<<1, <<27>>>>)
    <3>1. Len(<<27>>) = 1 /\ Keys(1, 1)
      BY DEF Keys
    <3> QED BY <3>1, RowFits, Zenon
  <2>2. Fits(<<14, <<8>>>>)
    <3>1. Len(<<8>>) = 1 /\ Keys(14, 1)
      BY DEF Keys
    <3> QED BY <3>1, RowFits, Zenon
  <2>3. Fits(<<15, <<9, 81, 87, 69, 82, 84, 89, 85, 73, 79, 80>>>>)
    <3>1. Len(<<9, 81, 87, 69, 82, 84, 89, 85, 73, 79, 80>>) = 11 /\ Keys(15, 11)
      BY DEF Keys
    <3> QED BY <3>1, RowFits, Zenon
  <2>4. Fits(<<28, <<13>>>>)
    <3>1. Len(<<13>>) = 1 /\ Keys(28, 1)
      BY DEF Keys
    <3> QED BY <3>1, RowFits, Zenon
  <2>5. Fits(<<30, <<65, 83, 68, 70, 71, 72, 74, 75, 76>>>>)
    <3>1. Len(<<65, 83, 68, 70, 71, 72, 74, 75, 76>>) = 9 /\ Keys(30, 9)
      BY DEF Keys
    <3> QED BY <3>1, RowFits, Zenon
  <2>6. Fits(<<44, <<90, 88, 67, 86, 66, 78, 77>>>>)
    <3>1. Len(<<90, 88, 67, 86, 66, 78, 77>>) = 7 /\ Keys(44, 7)
      BY DEF Keys
    <3> QED BY <3>1, RowFits, Zenon
  <2>7. Fits(<<55, <<42>>>>)
    <3>1. Len(<<42>>) = 1 /\ Keys(55, 1)
      BY DEF Keys
    <3> QED BY <3>1, RowFits, Zenon
  <2>8. Fits(<<57, <<32>>>>)
    <3>1. Len(<<32>>) = 1 /\ Keys(57, 1)
      BY DEF Keys
    <3> QED BY <3>1, RowFits, Zenon
  <2> QED BY <2>1, <2>2, <2>3, <2>4, <2>5, <2>6, <2>7, <2>8 DEF C!invariant_keymap
<1>2. \A r \in C!unshifted_keymap : Fits(r)
  <2>1. Fits(<<2, <<49, 50, 51, 52, 53, 54, 55, 56, 57, 48, 45, 61>>>>)
    <3>1. Len(<<49, 50, 51, 52, 53, 54, 55, 56, 57, 48, 45, 61>>) = 12 /\ Keys(2, 12)
      BY DEF Keys
    <3> QED BY <3>1, RowFits, Zenon
  <2>2. Fits(<<26, <<91, 93>>>>)
    <3>1. Len(<<91, 93>>) = 2 /\ Keys(26, 2)
      BY DEF Keys
    <3> QED BY <3>1, RowFits, Zenon
  <2>3. Fits(<<39, <<59, 39, 96>>>>)
    <3>1. Len(<<59, 39, 96>>) = 3 /\ Keys(39, 3)
      BY DEF Keys
    <3> QED BY <3>1, RowFits, Zenon
  <2>4. Fits(<<43, <<92>>>>)
    <3>1. Len(<<92>>) = 1 /\ Keys(43, 1)
      BY DEF Keys
    <3> QED BY <3>1, RowFits, Zenon
  <2>5. Fits(<<51, <<44, 46, 47>>>>)
    <3>1. Len(<<44, 46, 47>>) = 3 /\ Keys(51, 3)
      BY DEF Keys
    <3> QED BY <3>1, RowFits, Zenon
  <2> QED BY <2>1, <2>2, <2>3, <2>4, <2>5 DEF C!unshifted_keymap
<1>3. \A r \in C!shifted_keymap : Fits(r)
  <2>1. Fits(<<2, <<33, 64, 35, 36, 37, 94, 38, 42, 40, 41, 95, 43>>>>)
    <3>1. Len(<<33, 64, 35, 36, 37, 94, 38, 42, 40, 41, 95, 43>>) = 12 /\ Keys(2, 12)
      BY DEF Keys
    <3> QED BY <3>1, RowFits, Zenon
  <2>2. Fits(<<26, <<123, 125>>>>)
    <3>1. Len(<<123, 125>>) = 2 /\ Keys(26, 2)
      BY DEF Keys
    <3> QED BY <3>1, RowFits, Zenon
  <2>3. Fits(<<39, <<58, 34, 126>>>>)
    <3>1. Len(<<58, 34, 126>>) = 3 /\ Keys(39, 3)
      BY DEF Keys
    <3> QED BY <3>1, RowFits, Zenon
  <2>4. Fits(<<43, <<124>>>>)
    <3>1. Len(<<124>>) = 1 /\ Keys(43, 1)
      BY DEF Keys
    <3> QED BY <3>1, RowFits, Zenon
  <2>5. Fits(<<51, <<60, 62, 63>>>>)
    <3>1. Len(<<60, 62, 63>>) = 3 /\ Keys(51, 3)
      BY DEF Keys
    <3> QED BY <3>1, RowFits, Zenon
  <2> QED BY <2>1, <2>2, <2>3, <2>4, <2>5 DEF C!shifted_keymap
<1> QED BY <1>1, <1>2, <1>3

\* So no map has shift, nor a prefixed code.
LEMMA NoRow ==
  ASSUME NEW k \in Nat, k = 42 \/ k > 57
  PROVE  C!rows(C!keymap, k) = {}
<1>1. C!keymap \subseteq C!invariant_keymap \cup C!unshifted_keymap \cup C!shifted_keymap
  BY DEF C!keymap
<1>2. ASSUME NEW r \in C!keymap PROVE k \notin r[1] .. r[1] + Len(r[2]) - 1
  <2>1. Fits(r)
    BY <1>1, <1>2, MapsFit
  <2>2. \A a, n : Keys(a, n) => k \notin a .. a + n - 1
    <3> SUFFICES ASSUME NEW a, NEW n, Keys(a, n) PROVE k \notin a .. a + n - 1
      OBVIOUS
    <3>1. PICK c \in 1 .. 57, b \in 1 .. 57 : c = a /\ b = a + n - 1 /\ (c > 42 \/ b < 42)
      BY DEF Keys
    <3> QED BY <3>1
  <2> QED BY <2>1, <2>2, Zenon DEF Fits
<1> QED BY <1>2 DEF C!rows

\* The second byte of a scan code has the release bit, not the prefix.
LEMMA ScanFacts ==
  \A k \in {30, 42, 57373, 58} : C!is_release(k + 128) /\ ~C!is_release(k + 0)
  BY DEF C!is_release

\* A key goes down or up: its code is told from its release.
LEMMA CodeFacts ==
  ASSUME NEW k \in {30, 42, 57373, 58}, C!keyboard_interrupt(k)
  PROVE  keys' = [caps_lock |-> IF k = C!CapsLock /\ k \notin held THEN ~keys.caps_lock ELSE keys.caps_lock,
                  down |-> IF C!rows(C!keymap, k) # {} \/ k \notin C!shift_keys THEN keys.down
                           ELSE IF k \in held THEN keys.down \ {k} ELSE keys.down \cup {k}]
<1>1. C!is_release(k + 128) /\ ~C!is_release(k + 0) /\ k + 128 - 128 = k /\ k + 0 = k
  BY ScanFacts
<1>2. CASE k \in held
  <2>1. PICK scan : scan = k + 128 /\ C!is_release(scan) /\ scan - 128 = k
    BY <1>1
  <2> QED BY <1>2, <2>1 DEF C!keyboard_interrupt, C!is_release
<1>3. CASE k \notin held
  <2>1. PICK scan : scan = k + 0 /\ ~C!is_release(scan) /\ scan = k
    BY <1>1
  <2> QED BY <1>3, <2>1 DEF C!keyboard_interrupt, C!is_release
<1> QED BY <1>2, <1>3

\* The states of the keys follow the keys held.
LEMMA KeyboardStep ==
  ASSUME KeyInv, NEW k \in load.codes, C!keyboard_interrupt(k)
  PROVE  KeyInv'
<1>1. k \in {30, 42, 57373, 58} /\ load' = load
  BY LoadFacts DEF KeyInv, C!keyboard_interrupt
<1>2. /\ held' = IF k \in held THEN held \ {k} ELSE held \cup {k}
      /\ caps_presses' = IF k = 58 /\ k \notin held THEN 1 - caps_presses ELSE caps_presses
  BY DEF C!keyboard_interrupt, C!CapsLock
<1>3. /\ keys'.caps_lock = IF k = 58 /\ k \notin held THEN ~keys.caps_lock ELSE keys.caps_lock
      /\ keys'.down = IF C!rows(C!keymap, k) # {} \/ k \notin C!shift_keys THEN keys.down
                      ELSE IF k \in held THEN keys.down \ {k} ELSE keys.down \cup {k}
  BY <1>1, CodeFacts DEF C!CapsLock
<1>4. k \in C!shift_keys => C!rows(C!keymap, k) = {}
  <2>1. k \in C!shift_keys => k \in Nat /\ (k = 42 \/ k > 57)
    BY <1>1 DEF C!shift_keys
  <2> QED BY <2>1, NoRow
<1>5. keys'.down = held' \cap C!shift_keys
  BY <1>2, <1>3, <1>4 DEF KeyInv
<1>6. caps_presses' \in {0, 1} /\ keys'.caps_lock \in BOOLEAN /\ (keys'.caps_lock <=> caps_presses' = 1)
  <2>0. 1 - 0 = 1 /\ 1 - 1 = 0 /\ 0 # 1
    OBVIOUS
  <2>1. CASE k = 58 /\ k \notin held
    <3>1. (caps_presses = 0 /\ caps_presses' = 1) \/ (caps_presses = 1 /\ caps_presses' = 0)
      BY <1>2, <2>0, <2>1 DEF KeyInv
    <3>2. keys'.caps_lock = ~keys.caps_lock
      BY <1>3, <2>1, Zenon
    <3> QED BY <2>0, <3>1, <3>2, Zenon DEF KeyInv
  <2>2. CASE ~(k = 58 /\ k \notin held)
    <3>1. caps_presses' = caps_presses /\ keys'.caps_lock = keys.caps_lock
      BY <1>2, <1>3, <2>2
    <3> QED BY <3>1, Zenon DEF KeyInv
  <2> QED BY <2>1, <2>2
<1> QED BY <1>1, <1>5, <1>6 DEF KeyInv

\* Nothing else touches the keyboard.
LEMMA KeysKept ==
  ASSUME KeyInv, C!ConNext
  PROVE  KeyInv'
<1>1. CASE \E k \in load.codes : C!keyboard_interrupt(k)
  BY <1>1, KeyboardStep
<1>2. CASE UNCHANGED <<keys, held, caps_presses, load>>
  BY <1>2 DEF KeyInv
<1>3. ASSUME NEW t, C!Run(t)
      PROVE  UNCHANGED <<keys, held, caps_presses, load>>
  BY <1>3 DEF C!Run, C!serial_putc, C!input_getc, C!locked, C!lock_release, C!kbd
<1>4. ASSUME \/ \E t \in Readers : C!input_getc_begin(t)
             \/ \E t \in Writers, n \in 1 .. 2 : C!putbuf(t, n)
             \/ C!serial_init_queue
      PROVE  UNCHANGED <<keys, held, caps_presses, load>>
  BY <1>4 DEF C!input_getc_begin, C!putbuf, C!serial_init_queue, C!kbd
<1>5. ASSUME C!serial_interrupt \/ C!printf_intr \/ C!serial_flush \/ C!transmit \/ \E c \in load.serial : C!arrive(c)
      PROVE  UNCHANGED <<keys, held, caps_presses, load>>
  BY <1>5 DEF C!serial_interrupt, C!printf_intr, C!serial_flush, C!transmit, C!arrive, C!kbd
<1> QED BY <1>1, <1>2, <1>3, <1>4, <1>5 DEF C!ConNext

\* Every step of the terminal keeps its invariant.
LEMMA TermStep ==
  ASSUME TermInv, C!ConNext
  PROVE  TermInv'
<1>1. ASSUME NEW t \in Readers \cup Writers, C!Run(t)
      PROVE  TermInv'
  <2>1. CASE C!serial_putc(t)
    <3>1. t \in Writers /\ (C!putc_poll(t) \/ C!serial_queue(t) \/ C!serial_full(t))
      BY <2>1 DEF C!serial_putc
    <3> QED BY <2>1, <3>1, PollStep, QueueByte, FullStep
  <2>2. CASE C!input_getc(t) \/ C!locked(t)
    BY <2>2, GetcStep, LockedStep
  <2>3. CASE C!lock_release(t)
    BY <1>1, <2>3, ReleaseStep DEF Terminal
  <2> QED BY <1>1, <2>1, <2>2, <2>3 DEF C!Run
<1>2. CASE \/ \E t \in Readers : C!input_getc_begin(t)
           \/ \E t \in Writers, n \in 1 .. 2 : C!putbuf(t, n)
           \/ C!serial_init_queue
  BY <1>2, BeginSteps
<1>3. CASE C!serial_interrupt \/ C!printf_intr \/ C!serial_flush
  BY <1>3, SerialStep, PrintStep, FlushStep
<1>4. CASE \E k \in load.codes : C!keyboard_interrupt(k)
  BY <1>4, KeyStep
<1>5. CASE C!transmit \/ \E c \in load.serial : C!arrive(c)
  BY <1>5, LineSteps
<1> QED BY <1>1, <1>2, <1>3, <1>4, <1>5 DEF C!ConNext

\* The invariants hold at the start.
LEMMA TermInit == C!ConInit => TermInv /\ KeyInv
<1> SUFFICES ASSUME C!ConInit PROVE TermInv /\ KeyInv
  OBVIOUS
<1>1. C!intq_init \in Ring(Nat) /\ C!intq_init.head = C!intq_init.tail /\ C!intq_init.not_full = C!NULL
  BY Constants DEF C!intq_init, Ring, Pos, C!Empty
<1>2. C!intq_empty(C!intq_init) /\ C!contents(C!intq_init) = <<>>
  <2>1. C!intq_empty(C!intq_init)
    BY <1>1 DEF C!intq_empty
  <2> QED BY <1>1, <2>1, ContentsFacts
<1>3. /\ mode = "POLL" /\ txq = C!intq_init /\ buffer = C!intq_init
      /\ uart = [thr |-> 0, rbr |-> 0]
      /\ th = [t \in Readers \cup Writers |-> [op |-> "idle", left |-> 0]]
      /\ pending_in = <<>> /\ pending_out = <<>> /\ load \in Loads
      /\ keys = [caps_lock |-> FALSE, down |-> {}] /\ held = {} /\ caps_presses = 0
  BY DEF C!ConInit, C!Empty
<1>4. OutInv
  <2>1. Reg(0) \o <<>> = <<>> /\ <<>> \in Seq(Bytes)
    BY DEF Reg
  <2>2. uart \in [thr : Nat, rbr : Nat] /\ uart.thr = 0
    BY <1>3
  <2> QED BY <1>1, <1>2, <1>3, <2>1, <2>2 DEF OutInv
<1>5. InInv
  BY <1>1, <1>2, <1>3 DEF InInv, C!Empty
<1>6. WriterInv
  <2>1. \A t \in Readers \cup Writers : th[t] \in ThreadRec /\ th[t].op = "idle"
    BY <1>3 DEF ThreadRec, Ops
  <2>2. th \in [Readers \cup Writers -> ThreadRec]
    BY <1>3, <2>1
  <2> QED BY <1>1, <1>3, <2>1, <2>2 DEF WriterInv
<1>7. ArmedInv
  BY <1>3 DEF ArmedInv
<1>8. KeyInv
  BY <1>3 DEF KeyInv
<1> QED BY <1>3, <1>4, <1>5, <1>6, <1>7, <1>8 DEF TermInv

\* The terminal's invariant, also while a run is about the disk.
LEMMA TerminalInvariant == Spec => [](TermInv /\ KeyInv)
<1>1. Init => TermInv /\ KeyInv
  BY TermInit DEF Init
<1>2. TermInv /\ KeyInv /\ [Next]_vars => (TermInv /\ KeyInv)'
  <2> SUFFICES ASSUME TermInv, KeyInv, [Next]_vars PROVE (TermInv /\ KeyInv)'
    OBVIOUS
  <2>1. CASE C!ConNext
    BY <2>1, TermStep, KeysKept
  <2>2. CASE UNCHANGED conVars
    BY <2>2 DEF conVars, TermInv, KeyInv, OutInv, InInv, WriterInv, ArmedInv
  <2> QED BY <2>1, <2>2 DEF Next, vars
<1> QED BY <1>1, <1>2, PTL DEF Spec

\* Between a writer and the port, and between the port and a reader, no byte is
\* lost, doubled or overtaken, for a ring of any size (intq_putc, intq_getc,
\* serial_putc, serial_interrupt, serial_flush).
THEOREM BytesKeepOrder == Spec => []BytesInOrder
<1>1. TermInv => BytesInOrder
  <2> SUFFICES ASSUME TermInv PROVE BytesInOrder
    OBVIOUS
  <2>1. C!contents(buffer) = pending_in /\ pending_out = Reg(uart.thr) \o C!contents(txq)
    BY DEF TermInv, InInv, OutInv
  <2> QED BY <2>1 DEF BytesInOrder, C!BytesInOrder, Reg, C!Empty
<1> QED BY <1>1, TerminalInvariant, PTL

\* While there is a byte to send or room for one, the port's interrupt for it is
\* enabled (write_ier after every change of a queue).
THEOREM SerialAlwaysArmed == Spec => []SerialArmed
<1>1. TermInv => SerialArmed
  <2> SUFFICES ASSUME TermInv PROVE SerialArmed
    OBVIOUS
  <2>1. mode = "QUEUE" => ier = C!write_ier(txq, buffer)
    BY DEF TermInv, ArmedInv
  <2> QED BY <2>1 DEF SerialArmed, C!SerialArmed, C!write_ier
<1> QED BY <1>1, TerminalInvariant, PTL

\* The driver's shift states are the keys held and its caps lock the parity of
\* the presses (keyboard_interrupt, map_key).
THEOREM KeysFollowHeld == Spec => []KeysAsHeld
<1>1. KeyInv => KeysAsHeld
  BY DEF KeyInv, KeysAsHeld, C!KeysAsHeld
<1> QED BY <1>1, TerminalInvariant, PTL
==============================================================================
