-------------------------------- MODULE Disk --------------------------------
(***************************************************************************)
(* One ATA channel with its two devices (devices/disk.c): detection at     *)
(* boot by the thread Main, then sectors read and written by any thread    *)
(* under the channel's lock.  hw is the controller: the registers the      *)
(* driver writes, BSY and DRQ as sta, and the interrupt line.  The device  *)
(* answers a command in its own time, by its pace: a quick one always      *)
(* within the 10 ms of wait_until_idle, a slow one within seconds, and one *)
(* that is stuck may outlast the 30 seconds of wait_while_busy or never    *)
(* answer.  Both waits give up.  The line may carry MaxSpurious interrupts *)
(* nobody asked for.  hw has one status: what the other device of a busy   *)
(* channel would do is not told apart.                                     *)
(***************************************************************************)
EXTENDS Naturals

CONSTANTS Threads, Main,
          Kinds,        \* the pairs of devices the channel may hold
          Sectors,      \* the capacity an ATA device reports
          Values,       \* contents of a sector
          MaxSpurious   \* bound on unexpected interrupts

Nobody == "nobody"

ASSUME DiskAssumption == Main \in Threads /\ Nobody \notin Threads /\ Values # {}

VARIABLES lock, expecting_interrupt, completion_wait, is_ata, pc, hw, kind, platter, latest, spurious

chan == <<lock, expecting_interrupt, completion_wait, is_ata>>
env == <<kind, spurious>>
diskVars == <<lock, expecting_interrupt, completion_wait, is_ata, pc, hw, kind, platter, latest, spurious>>

Devs == {0, 1}
Zero == CHOOSE v \in Values : TRUE
NoOp == [op |-> "idle", cmd |-> "none", dev |-> 0, sec |-> 0, data |-> Zero]
LockOps == {"select", "issue", "command", "sema_down", "busy", "transfer", "failed"}

at(t, op) == pc[t].op = op
goto(t, op) == pc' = [pc EXCEPT ![t].op = op]
lock_acquire(t) == lock = Nobody /\ lock' = t

disk_init ==
    /\ lock = Nobody
    /\ expecting_interrupt = FALSE
    /\ completion_wait = 0
    /\ is_ata = [d \in Devs |-> FALSE]
    /\ pc = [t \in Threads |-> IF t = Main THEN [NoOp EXCEPT !.op = "reset"] ELSE NoOp]
    /\ kind \in Kinds
    /\ hw = [dev |-> 0, sec |-> 0, cmd |-> "none", sta |-> "idle", reg |-> Zero, irq |-> FALSE]
    /\ platter = [d \in Devs |-> [s \in Sectors |-> Zero]]
    /\ latest = platter
    /\ spurious = 0

-----------------------------------------------------------------------------
(* Detection at boot, before any other thread uses the disks *)

present(d) == kind[d].code # 255

\* The soft reset makes the devices that are there busy for a while; one that
\* does not come back in 30 seconds is not ready afterwards.
reset_channel ==
    /\ at(Main, "reset")
    /\ hw' = [hw EXCEPT !.dev = 0, !.cmd = "reset",
                        !.sta = IF \E d \in Devs : present(d) THEN "busy" ELSE "idle"]
    /\ goto(Main, "check")
    /\ UNCHANGED <<chan, env, platter, latest>>

\* The diagnostic code 1 is a device that passed; 0x81 says of the master that
\* it passed and the slave did not.
passed(d) == (kind[d].code = 1 \/ (kind[d].code = 129 /\ d = 0)) /\ kind[d].ready

check_device_type(d) == passed(d) /\ kind[d].signature

slave_possible == passed(0) \/ kind[0].code # 129

disk_init_check ==
    /\ at(Main, "check") /\ hw.sta = "idle"
    /\ is_ata' = [d \in Devs |-> check_device_type(d) /\ (d = 0 \/ slave_possible)]
    /\ hw' = [hw EXCEPT !.dev = IF slave_possible THEN 1 ELSE 0]
    /\ pc' = [pc EXCEPT ![Main].op = "identify", ![Main].dev = 0]
    /\ UNCHANGED <<lock, expecting_interrupt, completion_wait, env, platter, latest>>

\* Device by device; the last one ends disk_init.
next_device(d) == IF d = 0 THEN [NoOp EXCEPT !.op = "identify", !.dev = 1] ELSE NoOp

identify_ata_device ==
    LET d == pc[Main].dev
    IN /\ at(Main, "identify")
       /\ pc' = [pc EXCEPT ![Main] = IF is_ata[d] THEN [@ EXCEPT !.op = "select", !.cmd = "identify"]
                                     ELSE next_device(d)]
       /\ UNCHANGED <<chan, env, hw, platter, latest>>

\* The data is the device's capacity; without DRQ it is no disk after all.
identify_done ==
    LET d == pc[Main].dev
    IN /\ pc[Main].op \in {"transfer", "failed"} /\ pc[Main].cmd = "identify"
       /\ is_ata' = [is_ata EXCEPT ![d] = at(Main, "transfer")]
       /\ hw' = [hw EXCEPT !.sta = IF @ = "drq" THEN "idle" ELSE @]
       /\ pc' = [pc EXCEPT ![Main] = next_device(d)]
       /\ UNCHANGED <<lock, expecting_interrupt, completion_wait, env, platter, latest>>

booted == pc[Main].op \notin {"reset", "check", "identify"} /\ pc[Main].cmd # "identify"

-----------------------------------------------------------------------------
(* Commands *)

disk_get(d) == is_ata[d]

disk_read(t, d, s) ==
    /\ booted /\ at(t, "idle") /\ disk_get(d) /\ s \in Sectors
    /\ lock_acquire(t)
    /\ pc' = [pc EXCEPT ![t] = [NoOp EXCEPT !.op = "select", !.cmd = "read", !.dev = d, !.sec = s]]
    /\ UNCHANGED <<expecting_interrupt, completion_wait, is_ata, env, hw, platter, latest>>

disk_write(t, d, s, v) ==
    /\ booted /\ at(t, "idle") /\ disk_get(d) /\ s \in Sectors
    /\ lock_acquire(t)
    /\ pc' = [pc EXCEPT ![t] = [op |-> "select", cmd |-> "write", dev |-> d, sec |-> s, data |-> v]]
    /\ UNCHANGED <<expecting_interrupt, completion_wait, is_ata, env, hw, platter, latest>>

\* The loop ends when BSY and DRQ are clear, or after 1000 turns of 10 us: DRQ
\* stays until the data is moved, and a device that is not quick may still be
\* busy.
wait_until_idle == hw.sta # "busy" \/ kind[hw.dev].pace # "quick"

\* Reading the status clears a pending interrupt.  What a device that is still
\* busy makes of its registers being written is its own matter: it ignores the
\* address or works on with it.
outb_address(t) ==
    LET aimed == [hw EXCEPT !.dev = pc[t].dev, !.sec = pc[t].sec, !.irq = FALSE]
    IN {aimed} \cup (IF hw.sta = "busy" THEN {[hw EXCEPT !.irq = FALSE]} ELSE {})

\* A wrong driver: it selects the sector without waiting.
select_sector_NoWait(t) ==
    /\ at(t, "select")
    /\ hw' \in outb_address(t)
    /\ goto(t, "issue")
    /\ UNCHANGED <<chan, env, platter, latest>>

\* With select_device_wait.
select_sector(t) ==
    /\ at(t, "select") /\ wait_until_idle
    /\ hw' \in outb_address(t)
    /\ goto(t, "issue")
    /\ UNCHANGED <<chan, env, platter, latest>>

\* A device ignores a command while it is busy.
outb_command(c) == IF hw.sta = "busy" THEN hw ELSE [hw EXCEPT !.cmd = c, !.sta = "busy"]
after_command(t) == IF pc[t].cmd = "write" THEN "busy" ELSE "sema_down"

\* A wrong driver: the command first and the flag after it.
issue_pio_command_Late(t) ==
    /\ \/ /\ at(t, "issue") /\ hw' = outb_command(pc[t].cmd) /\ goto(t, "command")
          /\ UNCHANGED expecting_interrupt
       \/ /\ at(t, "command") /\ expecting_interrupt' = TRUE /\ goto(t, after_command(t))
          /\ UNCHANGED hw
    /\ UNCHANGED <<lock, completion_wait, is_ata, env, platter, latest>>

\* The flag is set before the command and is never reset.
issue_pio_command(t) ==
    /\ \/ /\ at(t, "issue") /\ expecting_interrupt' = TRUE /\ goto(t, "command")
          /\ UNCHANGED hw
       \/ /\ at(t, "command") /\ hw' = outb_command(pc[t].cmd) /\ goto(t, after_command(t))
          /\ UNCHANGED expecting_interrupt
    /\ UNCHANGED <<lock, completion_wait, is_ata, env, platter, latest>>

\* sema_down (&c->completion_wait): a read then looks at BSY, a write is over.
sema_down(t) ==
    /\ at(t, "sema_down") /\ completion_wait > 0
    /\ completion_wait' = completion_wait - 1
    /\ IF pc[t].cmd = "write" THEN pc' = [pc EXCEPT ![t] = NoOp] /\ lock' = Nobody
       ELSE goto(t, "busy") /\ UNCHANGED lock
    /\ UNCHANGED <<expecting_interrupt, is_ata, env, hw, platter, latest>>

\* A wrong wait: it trusts the interrupt and looks at no status.
wait_while_busy_Trusting(t) ==
    /\ at(t, "busy")
    /\ goto(t, "transfer")
    /\ UNCHANGED <<chan, env, hw, platter, latest>>

\* False without DRQ, and after 3000 turns of 10 ms: PANIC for a read or a
\* write.
wait_while_busy(t) ==
    /\ at(t, "busy") /\ (hw.sta # "busy" \/ kind[hw.dev].pace = "stuck")
    /\ goto(t, IF hw.sta = "drq" THEN "transfer" ELSE IF pc[t].cmd = "identify" THEN "failed" ELSE "panic")
    /\ UNCHANGED <<chan, env, hw, platter, latest>>

input_sector(t) ==
    /\ at(t, "transfer") /\ pc[t].cmd = "read"
    /\ hw' = [hw EXCEPT !.sta = IF @ = "drq" THEN "idle" ELSE @]
    /\ pc' = [pc EXCEPT ![t] = [NoOp EXCEPT !.data = hw.reg]]
    /\ lock' = Nobody
    /\ UNCHANGED <<expecting_interrupt, completion_wait, is_ata, env, platter, latest>>

\* The last word makes the device write the sector.
output_sector(t) ==
    /\ at(t, "transfer") /\ pc[t].cmd = "write"
    /\ hw' = [hw EXCEPT !.sta = "busy", !.cmd = "flush", !.reg = pc[t].data]
    /\ latest' = [latest EXCEPT ![pc[t].dev][pc[t].sec] = pc[t].data]
    /\ goto(t, "sema_down")
    /\ UNCHANGED <<chan, env, platter>>

interrupt_handler ==
    /\ hw.irq
    /\ hw' = [hw EXCEPT !.irq = FALSE]
    /\ completion_wait' = completion_wait + (IF expecting_interrupt THEN 1 ELSE 0)
    /\ UNCHANGED <<lock, expecting_interrupt, is_ata, pc, env, platter, latest>>

-----------------------------------------------------------------------------
(* The controller and its devices *)

answers == kind[hw.dev].answers

\* Which commands end with an interrupt, and what they leave in the registers.
device_done ==
    /\ hw.sta = "busy"
    /\ hw' = CASE hw.cmd = "reset"    -> [hw EXCEPT !.sta = "idle"]
               [] hw.cmd = "identify" -> [hw EXCEPT !.sta = IF answers THEN "drq" ELSE "idle",
                                                    !.irq = TRUE]
               [] hw.cmd = "read"     -> [hw EXCEPT !.sta = "drq", !.irq = TRUE,
                                                    !.reg = platter[hw.dev][hw.sec]]
               [] hw.cmd = "write"    -> [hw EXCEPT !.sta = "drq"]
               [] OTHER               -> [hw EXCEPT !.sta = "idle", !.irq = TRUE]
    /\ platter' = IF hw.cmd = "flush" THEN [platter EXCEPT ![hw.dev][hw.sec] = hw.reg] ELSE platter
    /\ UNCHANGED <<chan, pc, env, latest>>

spurious_interrupt ==
    /\ ~hw.irq /\ spurious < MaxSpurious
    /\ hw' = [hw EXCEPT !.irq = TRUE]
    /\ spurious' = spurious + 1
    /\ UNCHANGED <<chan, pc, kind, platter, latest>>

-----------------------------------------------------------------------------
Boot == reset_channel \/ disk_init_check \/ identify_ata_device \/ identify_done

Work(t) == \/ select_sector(t) \/ issue_pio_command(t) \/ sema_down(t)
           \/ wait_while_busy(t) \/ input_sector(t) \/ output_sector(t)

Call(t) == \E d \in Devs, s \in Sectors : disk_read(t, d, s) \/ \E v \in Values : disk_write(t, d, s, v)

DiskNext == \/ Boot \/ \E t \in Threads : Work(t) \/ Call(t)
            \/ interrupt_handler \/ device_done \/ spurious_interrupt

\* Threads are scheduled, interrupts are delivered and devices answer, except
\* the ones that are stuck.
Answer == device_done /\ (hw.cmd = "reset" \/ kind[hw.dev].pace # "stuck")
DiskFairness == /\ WF_diskVars(Boot) /\ WF_diskVars(interrupt_handler) /\ WF_diskVars(Answer)
                /\ \A t \in Threads : WF_diskVars(Work(t))

DiskSpec == disk_init /\ [][DiskNext]_diskVars /\ DiskFairness

-----------------------------------------------------------------------------
(* Properties *)

\* What the driver's two limits ask of the devices: all of them quick, or none
\* stuck and no interrupt so far that nobody asked for.
Punctual == \/ \A d \in Devs : kind[d].pace = "quick"
            \/ spurious = 0 /\ \A d \in Devs : kind[d].pace # "stuck"

\* A read returns what the last write to the sector handed to the device: with
\* quick devices also when a stale count of the semaphore let that write return
\* before the device had finished it, with slow ones as long as no interrupt
\* came too many.
ReadsLatest ==
    [][\A t \in Threads : Punctual /\ at(t, "transfer") /\ pc[t].cmd = "read" /\ pc'[t].op = "idle"
          => pc'[t].data = latest[pc[t].dev][pc[t].sec]]_diskVars

\* Only a device that is stuck, or a slow one after an interrupt too many, makes
\* a read or a write end in "disk read failed" or "disk write failed": otherwise
\* the driver never commands a device that still works on the command before.
NoPanic == \A t \in Threads : at(t, "panic") => ~Punctual

\* disk_init ends and every disk_read and disk_write returns, under the same
\* condition: no completion interrupt is missed, although reading the status
\* clears a pending one.
TransfersEnd == \A t \in Threads : pc[t].op # "idle" ~> pc[t].op = "idle" \/ ~Punctual

\* What the comment of wait_until_idle says, "up to 10 seconds": a driver that
\* goes on has a controller that is not busy, unless the device is stuck.
WaitedUntilIdle == \A t \in Threads : at(t, "issue") => hw.sta # "busy" \/ kind[hw.dev].pace = "stuck"
=============================================================================
