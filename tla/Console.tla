------------------------------- MODULE Console -------------------------------
(***************************************************************************)
(* The terminal: the interrupt queues of devices/intq.c between threads    *)
(* and interrupt handlers, the serial port (serial.c), the keyboard        *)
(* (kbd.c, input.c) and the console lock (lib/kernel/console.c).  Code     *)
(* that runs with interrupts off is one step up to where it blocks.        *)
(* pending_in and pending_out are the bytes taken and not yet passed on.   *)
(***************************************************************************)
EXTENDS Naturals, Sequences, SequencesExt

CONSTANTS Readers, Writers, INTQ_BUFSIZE,
          Loads,      \* what a run does: the scan codes, serial bytes and writers
          MaxIntr     \* bound on bytes printed by interrupt handlers

VARIABLES mode, txq, buffer, ier, uart, console_lock, th, keys, held, caps_presses,
          pending_in, pending_out, intr_prints, load

conVars == <<mode, txq, buffer, ier, uart, console_lock, th, keys, held, caps_presses,
             pending_in, pending_out, intr_prints, load>>
kbd == <<keys, held, caps_presses>>

NULL == "null"
Empty == 0                          \* no byte in a register of the port
Message == 1                        \* a byte a handler prints

-----------------------------------------------------------------------------
(* Interrupt queues *)

intq_init == [buf |-> [i \in 0..INTQ_BUFSIZE - 1 |-> Empty], head |-> 0, tail |-> 0,
              not_full |-> NULL, not_empty |-> NULL, lock |-> NULL]
next(pos) == (pos + 1) % INTQ_BUFSIZE
intq_empty(q) == q.head = q.tail
intq_full(q) == next(q.head) = q.tail
contents(q) == [i \in 1..((q.head + INTQ_BUFSIZE - q.tail) % INTQ_BUFSIZE) |->
                   q.buf[(q.tail + i - 1) % INTQ_BUFSIZE]]
first(q) == q.buf[q.tail]

\* Without the wait; the thread signal wakes is in woken.  The byte that stays
\* behind in the ring is never read again and is forgotten.
intq_getc(q) == [q EXCEPT !.buf[q.tail] = Empty, !.tail = next(@), !.not_full = NULL]
intq_putc(q, byte) == [q EXCEPT !.buf[q.head] = byte, !.head = next(@), !.not_empty = NULL]

\* signal's thread_unblock.
woken(thr, t) == IF t = NULL THEN thr ELSE [thr EXCEPT ![t].op = "woken"]

\* In getc or putc: lock the queue and wait, or first wait for that lock.
wait_empty(t, q) == IF q.lock = NULL THEN [q EXCEPT !.lock = t, !.not_empty = t] ELSE q
wait_full(t, q) == IF q.lock = NULL THEN [q EXCEPT !.lock = t, !.not_full = t] ELSE q
waiting(t, q) == [th EXCEPT ![t].op = IF q.lock = NULL THEN "blocked" ELSE "lock"]

-----------------------------------------------------------------------------
(* The serial port *)

write_ier(tx, rx) == (IF intq_empty(tx) THEN {} ELSE {"XMIT"}) \cup
                     (IF intq_full(rx) THEN {} ELSE {"RECV"})
serial_notify(tx, rx) == IF mode = "QUEUE" THEN write_ier(tx, rx) ELSE ier

IsSent(out) == IF uart.thr = Empty THEN out ELSE Tail(out)

serial_init_queue ==
    /\ mode = "POLL"
    /\ mode' = "QUEUE"
    /\ ier' = write_ier(txq, buffer)
    /\ UNCHANGED <<txq, buffer, uart, console_lock, th, kbd, pending_in, pending_out, intr_prints, load>>

\* putbuf, puts, printf: acquire_console, then a byte after another.
putbuf(t, n) ==
    /\ t \in load.writers /\ th[t].op = "idle" /\ console_lock = NULL
    /\ console_lock' = t
    /\ th' = [th EXCEPT ![t] = [op |-> "putc", left |-> n]]
    /\ UNCHANGED <<mode, txq, buffer, ier, uart, kbd, pending_in, pending_out, intr_prints, load>>

\* After the last byte release_console.
put(t) == IF th[t].left = 1 THEN [op |-> "idle", left |-> 0] ELSE [op |-> "putc", left |-> th[t].left - 1]
unlocked(t) == IF th[t].left = 1 THEN NULL ELSE console_lock
byte_of(t) == th[t].left + Message

\* putc_poll waits until the byte in the register is sent.
putc_poll(t) ==
    /\ mode # "QUEUE"
    /\ uart' = [uart EXCEPT !.thr = byte_of(t)]
    /\ pending_out' = Append(IsSent(pending_out), byte_of(t))
    /\ th' = [th EXCEPT ![t] = put(t)]
    /\ console_lock' = unlocked(t)
    /\ UNCHANGED <<txq, ier>>

serial_queue(t) ==
    /\ mode = "QUEUE" /\ ~intq_full(txq)
    /\ txq' = intq_putc(txq, byte_of(t))
    /\ ier' = write_ier(txq', buffer)
    /\ pending_out' = Append(pending_out, byte_of(t))
    /\ th' = [th EXCEPT ![t] = put(t)]
    /\ console_lock' = unlocked(t)
    /\ UNCHANGED uart

serial_full(t) ==
    /\ mode = "QUEUE" /\ intq_full(txq)
    /\ txq' = wait_full(t, txq)
    /\ th' = waiting(t, txq)
    /\ UNCHANGED <<ier, uart, pending_out, console_lock>>

serial_putc(t) ==
    /\ t \in Writers /\ th[t].op = "putc"
    /\ putc_poll(t) \/ serial_queue(t) \/ serial_full(t)
    /\ UNCHANGED <<mode, buffer, kbd, pending_in, intr_prints, load>>

\* A wrong handler: with the queue full it queues the byte all the same.
printf_intr_Overrun ==
    /\ mode = "QUEUE" /\ intr_prints < MaxIntr
    /\ txq' = intq_putc(txq, Message)
    /\ pending_out' = Append(pending_out, Message)
    /\ ier' = write_ier(txq', buffer)
    /\ intr_prints' = intr_prints + 1
    /\ UNCHANGED <<mode, buffer, uart, console_lock, th, kbd, pending_in, load>>

\* printf in an interrupt handler, that takes no console lock: with the queue
\* full it sends the oldest byte itself, which wakes a writer although the
\* queue is full again at once.
printf_intr ==
    LET polled == intq_full(txq)
        q == IF polled THEN intq_getc(txq) ELSE txq
    IN /\ mode = "QUEUE" /\ intr_prints < MaxIntr /\ load.writers # {}
       /\ uart' = [uart EXCEPT !.thr = IF polled THEN first(txq) ELSE @]
       /\ pending_out' = Append(IF polled THEN IsSent(pending_out) ELSE pending_out, Message)
       /\ th' = IF polled THEN woken(th, txq.not_full) ELSE th
       /\ txq' = intq_putc(q, Message)
       /\ ier' = write_ier(txq', buffer)
       /\ intr_prints' = intr_prints + 1
       /\ UNCHANGED <<mode, buffer, console_lock, kbd, pending_in, load>>

\* debug_panic's serial_flush: every byte is sent by polling, the last one
\* still in the register; the interrupt enable register stays as it is.
serial_flush ==
    /\ mode = "QUEUE" /\ ~intq_empty(txq)
    /\ uart' = [uart EXCEPT !.thr = Last(contents(txq))]
    /\ pending_out' = <<Last(pending_out)>>
    /\ txq' = [txq EXCEPT !.buf = intq_init.buf, !.tail = txq.head, !.not_full = NULL]
    /\ th' = [t \in DOMAIN th |-> IF th[t].op = "panic" THEN th[t] ELSE [th[t] EXCEPT !.op = "halted"]]
    /\ mode' = "PANIC"
    /\ UNCHANGED <<buffer, ier, console_lock, kbd, pending_in, intr_prints, load>>

-----------------------------------------------------------------------------
(* Input *)

\* A byte enters the input queue and may wake the reader.
input_putc(tx, c) ==
    /\ buffer' = intq_putc(buffer, c)
    /\ pending_in' = Append(pending_in, c)
    /\ ier' = serial_notify(tx, buffer')

serial_interrupt ==
    LET receive == ~intq_full(buffer) /\ uart.rbr # Empty
        send == ~intq_empty(txq) /\ uart.thr = Empty
        tx == IF send THEN intq_getc(txq) ELSE txq
        waked == IF send THEN woken(th, txq.not_full) ELSE th
    IN /\ mode = "QUEUE"
       /\ (uart.thr = Empty /\ "XMIT" \in ier) \/ (uart.rbr # Empty /\ "RECV" \in ier)
       /\ txq' = tx
       /\ IF receive THEN input_putc(tx, uart.rbr) /\ th' = woken(waked, buffer.not_empty)
          ELSE th' = waked /\ ier' = write_ier(tx, buffer) /\ UNCHANGED <<buffer, pending_in>>
       /\ uart' = [thr |-> IF send THEN first(txq) ELSE uart.thr,
                   rbr |-> IF receive THEN Empty ELSE uart.rbr]
       /\ UNCHANGED <<mode, console_lock, kbd, pending_out, intr_prints, load>>

\* sys_read of the standard input.
input_getc_begin(t) ==
    /\ mode # "PANIC" /\ t \in Readers /\ th[t].op = "idle"
    /\ th' = [th EXCEPT ![t].op = "getc"]
    /\ UNCHANGED <<mode, txq, buffer, ier, uart, console_lock, kbd, pending_in, pending_out, intr_prints, load>>

\* A wrong reader: it does not tell the serial port that there is room again.
input_getc_Quiet(t) ==
    /\ t \in Readers /\ th[t].op = "getc"
    /\ IF intq_empty(buffer)
       THEN buffer' = wait_empty(t, buffer) /\ th' = waiting(t, buffer) /\ UNCHANGED <<ier, pending_in>>
       ELSE /\ buffer' = intq_getc(buffer)
            /\ pending_in' = Tail(pending_in)
            /\ th' = [th EXCEPT ![t].op = "idle"]
            /\ UNCHANGED ier
    /\ UNCHANGED <<mode, txq, uart, console_lock, kbd, pending_out, intr_prints, load>>

input_getc(t) ==
    /\ t \in Readers /\ th[t].op = "getc"
    /\ IF intq_empty(buffer)
       THEN buffer' = wait_empty(t, buffer) /\ th' = waiting(t, buffer) /\ UNCHANGED <<ier, pending_in>>
       ELSE /\ buffer' = intq_getc(buffer)
            /\ pending_in' = Tail(pending_in)
            /\ th' = [th EXCEPT ![t].op = "idle"]
            /\ ier' = serial_notify(txq, buffer')
    /\ UNCHANGED <<mode, txq, uart, console_lock, kbd, pending_out, intr_prints, load>>

\* lock_acquire (&q->lock) returned: wait asserts that the queue is still empty.
locked(t) ==
    /\ t \in Readers /\ th[t].op = "lock" /\ buffer.lock = NULL
    /\ IF intq_empty(buffer) THEN buffer' = wait_empty(t, buffer) /\ th' = waiting(t, buffer)
       ELSE th' = [th EXCEPT ![t].op = "panic"] /\ UNCHANGED buffer
    /\ UNCHANGED <<mode, txq, ier, uart, console_lock, kbd, pending_in, pending_out, intr_prints, load>>

\* lock_release (&q->lock), and the loop looks at the queue again.
lock_release(t) ==
    /\ th[t].op = "woken"
    /\ th' = [th EXCEPT ![t].op = IF t \in Readers THEN "getc" ELSE "putc"]
    /\ buffer' = IF t \in Readers THEN [buffer EXCEPT !.lock = NULL] ELSE buffer
    /\ txq' = IF t \in Readers THEN txq ELSE [txq EXCEPT !.lock = NULL]
    /\ UNCHANGED <<mode, ier, uart, console_lock, kbd, pending_in, pending_out, intr_prints, load>>

-----------------------------------------------------------------------------
(* The keyboard *)

invariant_keymap == {<<1, <<27>>>>, <<14, <<8>>>>, <<15, <<9, 81, 87, 69, 82, 84, 89, 85, 73, 79, 80>>>>,
                     <<28, <<13>>>>, <<30, <<65, 83, 68, 70, 71, 72, 74, 75, 76>>>>,
                     <<44, <<90, 88, 67, 86, 66, 78, 77>>>>, <<55, <<42>>>>, <<57, <<32>>>>}
unshifted_keymap == {<<2, <<49, 50, 51, 52, 53, 54, 55, 56, 57, 48, 45, 61>>>>, <<26, <<91, 93>>>>,
                     <<39, <<59, 39, 96>>>>, <<43, <<92>>>>, <<51, <<44, 46, 47>>>>}
shifted_keymap == {<<2, <<33, 64, 35, 36, 37, 94, 38, 42, 40, 41, 95, 43>>>>, <<26, <<123, 125>>>>,
                   <<39, <<58, 34, 126>>>>, <<43, <<124>>>>, <<51, <<60, 62, 63>>>>}
shift_keys == {42, 54, 56, 57400, 29, 57373}       \* shift, alt, ctrl: 0xe038 and 0xe01d on the right
CapsLock == 58

rows(k, code) == {r \in k : code \in r[1]..r[1] + Len(r[2]) - 1}
map_key(k, code) == LET r == CHOOSE r \in rows(k, code) : TRUE IN r[2][code - r[1] + 1]
tolower(c) == IF c \in 65..90 THEN c + 32 ELSE c

keymap == invariant_keymap \cup (IF keys.down \cap {42, 54} # {} THEN shifted_keymap ELSE unshifted_keymap)

\* Ctrl overrides Shift; Alt sets the high bit.
key_char(code) ==
    LET c == map_key(keymap, code)
        shift == keys.down \cap {42, 54} # {}
        ctrl == keys.down \cap {29, 57373} # {}
        plain == IF ctrl /\ c \in 64..95 THEN c - 64
                 ELSE IF shift = keys.caps_lock THEN tolower(c) ELSE c
    IN plain + (IF keys.down \cap {56, 57400} # {} THEN 128 ELSE 0)

\* A wrong test: the prefix 0xe0 has the bit too.
is_release_Prefixed(scan) == scan >= 57344 \/ (scan \div 128) % 2 = 1
is_release(scan) == (scan \div 128) % 2 = 1

\* A key that does not fit is dropped.
key_pressed(code) ==
    IF intq_full(buffer) THEN UNCHANGED <<buffer, pending_in, ier, th>>
    ELSE input_putc(txq, key_char(code)) /\ th' = woken(th, buffer.not_empty)

\* The key code goes down or, when held, up; both bytes of a prefixed code are
\* read.  held is the keyboard itself.
keyboard_interrupt(k) ==
    LET scan == k + (IF k \in held THEN 128 ELSE 0)
        release == is_release(scan)
        code == IF (scan \div 128) % 2 = 1 THEN scan - 128 ELSE scan
        typed == rows(keymap, code) # {}
    IN /\ mode # "PANIC" /\ k \in load.codes
       /\ held' = IF k \in held THEN held \ {k} ELSE held \cup {k}
       /\ caps_presses' = IF k = CapsLock /\ k \notin held THEN 1 - caps_presses ELSE caps_presses
       /\ keys' = [caps_lock |-> IF code = CapsLock /\ ~release THEN ~keys.caps_lock ELSE keys.caps_lock,
                   down |-> IF typed \/ code \notin shift_keys THEN keys.down
                            ELSE IF release THEN keys.down \ {code} ELSE keys.down \cup {code}]
       /\ IF code # CapsLock /\ typed /\ ~release THEN key_pressed(code)
          ELSE UNCHANGED <<buffer, pending_in, ier, th>>
       /\ UNCHANGED <<mode, txq, uart, console_lock, pending_out, intr_prints, load>>

-----------------------------------------------------------------------------
(* The port's line *)

transmit ==
    /\ uart.thr # Empty
    /\ uart' = [uart EXCEPT !.thr = Empty]
    /\ pending_out' = Tail(pending_out)
    /\ UNCHANGED <<mode, txq, buffer, ier, console_lock, th, kbd, pending_in, intr_prints, load>>

arrive(c) ==
    /\ uart.rbr = Empty
    /\ uart' = [uart EXCEPT !.rbr = c]
    /\ UNCHANGED <<mode, txq, buffer, ier, console_lock, th, kbd, pending_in, pending_out, intr_prints, load>>

-----------------------------------------------------------------------------
ConInit == /\ mode = "POLL" /\ txq = intq_init /\ buffer = intq_init /\ ier = {}
           /\ uart = [thr |-> Empty, rbr |-> Empty]
           /\ console_lock = NULL
           /\ th = [t \in Readers \cup Writers |-> [op |-> "idle", left |-> 0]]
           /\ keys = [caps_lock |-> FALSE, down |-> {}] /\ held = {} /\ caps_presses = 0
           /\ pending_in = <<>> /\ pending_out = <<>> /\ intr_prints = 0
           /\ load \in Loads

Run(t) == serial_putc(t) \/ input_getc(t) \/ locked(t) \/ lock_release(t)

ConNext == \/ \E t \in Readers \cup Writers : Run(t)
           \/ \E t \in Readers : input_getc_begin(t)
           \/ \E t \in Writers, n \in 1..2 : putbuf(t, n)
           \/ serial_init_queue \/ serial_interrupt \/ printf_intr \/ serial_flush
           \/ \E k \in load.codes : keyboard_interrupt(k)
           \/ \E c \in load.serial : arrive(c)
           \/ transmit

\* Threads are scheduled, the port sends, its interrupts are delivered.
ConFairness == /\ \A t \in Readers \cup Writers : WF_conVars(Run(t))
               /\ WF_conVars(serial_init_queue) /\ WF_conVars(serial_interrupt) /\ WF_conVars(transmit)

ConSpec == ConInit /\ [][ConNext]_conVars /\ ConFairness

-----------------------------------------------------------------------------
(* Properties *)

\* No byte is lost, doubled or overtaken between a writer and the port or
\* between the port and a reader: the ring holds exactly the bytes under way,
\* also when an interrupt handler prints with the queue full.
BytesInOrder ==
    /\ contents(buffer) = pending_in
    /\ (IF uart.thr = Empty THEN <<>> ELSE <<uart.thr>>) \o contents(txq) = pending_out

\* While there are bytes to send or room to receive, the interrupt that moves
\* them is enabled: every change of a queue is followed by write_ier.
SerialArmed == mode = "QUEUE" => /\ ~intq_empty(txq) => "XMIT" \in ier
                                 /\ ~intq_full(buffer) <=> "RECV" \in ier

\* The driver's shift states are the keys held down and its caps lock the
\* parity of the presses: prefixed codes and releases are told apart and no
\* key map shadows a shift key.
KeysAsHeld == keys.down = held \cap shift_keys /\ (keys.caps_lock <=> caps_presses = 1)

\* What wait asserts (devices/intq.c): a thread that waits for a byte does so
\* only while the queue is empty.
WaitAsserted == \A t \in Readers : th[t].op # "panic"

\* A thread that prints comes to its end, and a byte in the input queue reaches
\* the thread that reads, unless the kernel panics.
TerminalServes ==
    /\ \A t \in Writers : th[t].op # "idle" ~> th[t].op \in {"idle", "halted"}
    /\ \A t \in Readers : (th[t].op # "idle" /\ ~intq_empty(buffer)) ~> th[t].op \in {"idle", "halted"}
=============================================================================
