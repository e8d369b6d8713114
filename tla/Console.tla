------------------------------ MODULE Console ------------------------------
(***************************************************************************)
(* Character I/O: the interrupt queues of devices/intq.c, the serial port  *)
(* of devices/serial.c, the input buffer of devices/input.c and the        *)
(* console of lib/kernel/console.c.                                        *)
(*                                                                         *)
(* Threads run one at a time and the code between intr_disable and         *)
(* intr_set_level is one step, unless the thread blocks in it; interrupts  *)
(* come between the steps.                                                 *)
(***************************************************************************)
EXTENDS Integers, SequencesExt

CONSTANTS
  Writer,            (* threads that print                                  *)
  Reader,            (* threads that read the keyboard with the read call   *)
  Intr,              (* who prints in an interrupt handler                  *)
  INTQ_BUFSIZE,
  MsgLen,            (* characters of a message                             *)
  MaxEvents,         (* bound on characters printed and keys typed          *)
  Nobody

ASSUME ConsoleAssumption == INTQ_BUFSIZE \in Nat \ {0, 1} /\ MsgLen \in Nat \ {0}

VARIABLES
  mode,              (* transmission mode                                   *)
  txq, buffer,       (* the queues of serial.c and input.c                  *)
  ier, thr, rbr,     (* UART: interrupts on, THR empty, byte received       *)
  cpc, left,         (* where a thread is, characters it has yet to print   *)
  console,           (* holder of console_lock and console_lock_depth       *)
  call_lock,         (* holder of filesys_syscall_lock                      *)
  out, wrote,        (* bytes transmitted, bytes given to serial_putc       *)
  got, typed,        (* keys read, keys put in the buffer                   *)
  keys,              (* keys pressed and bytes received                     *)
  chalt              (* why the kernel stopped                              *)

queueVars == <<txq, buffer>>
uartVars == <<mode, ier, thr, rbr>>
consoleVars == <<mode, txq, buffer, ier, thr, rbr, cpc, left, console, call_lock, out, wrote, got,
                 typed, keys, chalt>>

-----------------------------------------------------------------------------
(* intq.c *)

EmptyBuf == [i \in 0..(INTQ_BUFSIZE - 1) |-> Nobody]

intq_init == [buf |-> EmptyBuf, head |-> 0, tail |-> 0, not_full |-> Nobody, not_empty |-> Nobody,
              lock |-> Nobody]

next(pos) == (pos + 1) % INTQ_BUFSIZE

intq_empty(q) == q.head = q.tail

intq_full(q) == next(q.head) = q.tail

(* signal: the thread it wakes. *)
signal(q, waiter) == {waiter} \ {Nobody}

Getc(q) == [q EXCEPT !.buf[q.tail] = Nobody, !.tail = next(@), !.not_full = Nobody]

Putc(q, byte) == [q EXCEPT !.buf[q.head] = byte, !.head = next(@), !.not_empty = Nobody]

(* The threads in woken leave thread_block in wait. *)
Unblock(pc, woken) == [t \in DOMAIN pc |-> IF t \in woken THEN "woken" ELSE pc[t]]

(* The bytes of a queue, oldest first. *)
Contents(q) == [i \in 1..((q.head - q.tail) % INTQ_BUFSIZE) |-> q.buf[(q.tail + i - 1) % INTQ_BUFSIZE]]

-----------------------------------------------------------------------------
ConsoleInit ==
  /\ mode = "UNINIT"
  /\ txq = intq_init /\ buffer = intq_init
  /\ ier = {} /\ thr = TRUE /\ rbr = FALSE
  /\ cpc = [t \in Writer \cup Reader |-> "idle"]
  /\ left = [t \in Writer |-> 0]
  /\ console = [holder |-> Nobody, depth |-> 0] /\ call_lock = Nobody
  /\ out = <<>> /\ wrote = <<>> /\ got = <<>> /\ typed = <<>>
  /\ keys = 0 /\ chalt = "none"

Within == Len(wrote) + keys < MaxEvents

(* Faulty variant: the transmit interrupt is forgotten. *)
write_ier_recv(tx, in) == {i \in {"RECV"} : ~intq_full(in)}

(* write_ier: the interrupts there is work for. *)
write_ier(tx, in) ==
  {i \in {"XMIT", "RECV"} : IF i = "XMIT" THEN ~intq_empty(tx) ELSE ~intq_full(in)}

(* serial_notify *)
serial_notify(tx, in) == IF mode = "QUEUE" THEN write_ier(tx, in) ELSE ier

(* serial_init_queue *)
serial_init_queue ==
  /\ mode # "QUEUE"
  /\ mode' = "QUEUE"
  /\ ier' = write_ier(txq, buffer)
  /\ UNCHANGED <<queueVars, thr, rbr, cpc, left, console, call_lock, out, wrote, got, typed, keys, chalt>>

-----------------------------------------------------------------------------
(* Printing *)

acquire_console(t) == IF console.holder = t THEN [console EXCEPT !.depth = @ + 1]
                      ELSE [console EXCEPT !.holder = t]

release_console == IF console.depth > 0 THEN [console EXCEPT !.depth = @ - 1]
                   ELSE [console EXCEPT !.holder = Nobody]

(* vprintf, puts, putbuf, putchar: a message begins. *)
vprintf(t) ==
  /\ cpc[t] = "idle" /\ console.holder = Nobody /\ Within
  /\ console' = acquire_console(t)
  /\ cpc' = [cpc EXCEPT ![t] = "put"] /\ left' = [left EXCEPT ![t] = MsgLen]
  /\ UNCHANGED <<queueVars, uartVars, call_lock, out, wrote, got, typed, keys, chalt>>

(* A page fault in putbuf, which reads the user's buffer, prints inside.   *)
nested_vprintf(t) ==
  /\ cpc[t] = "put" /\ console.depth = 0 /\ Within
  /\ console' = acquire_console(t)
  /\ left' = [left EXCEPT ![t] = @ + 1]
  /\ UNCHANGED <<queueVars, uartVars, cpc, call_lock, out, wrote, got, typed, keys, chalt>>

Byte(t) == <<t, IF console.depth > 0 THEN 0 ELSE left[t]>>

(* The rest of the message: release_console when it, or the nested one, is *)
(* complete.                                                               *)
Printed(t) ==
  /\ left' = [left EXCEPT ![t] = @ - 1]
  /\ wrote' = Append(wrote, Byte(t))
  /\ console' = IF left[t] = 1 \/ console.depth > 0 THEN release_console ELSE console

(* serial_putc by a thread, interrupts on before.  When the queue is full  *)
(* the thread takes the lock of the queue and waits, or waits for the lock.*)
serial_putc(t) ==
  /\ cpc[t] = "put"
  /\ CASE mode # "QUEUE" ->
            /\ Printed(t)
            /\ mode' = "POLL" /\ out' = Append(out, Byte(t)) /\ thr' = FALSE
            /\ cpc' = [cpc EXCEPT ![t] = IF left[t] = 1 THEN "idle" ELSE "put"]
            /\ UNCHANGED <<txq, ier>>
       [] mode = "QUEUE" /\ ~intq_full(txq) ->
            \E q \in {Putc(txq, Byte(t))} :
              /\ Printed(t)
              /\ txq' = q
              /\ cpc' = Unblock([cpc EXCEPT ![t] = IF left[t] = 1 THEN "idle" ELSE "put"],
                                signal(txq, txq.not_empty))
              /\ ier' = write_ier(q, buffer)
              /\ UNCHANGED <<mode, out, thr>>
       [] mode = "QUEUE" /\ intq_full(txq) /\ txq.lock = Nobody ->
            /\ txq' = [txq EXCEPT !.lock = t, !.not_full = t]
            /\ cpc' = [cpc EXCEPT ![t] = "wait"]
            /\ UNCHANGED <<mode, out, thr, ier, left, wrote, console>>
       [] OTHER ->
            /\ cpc' = [cpc EXCEPT ![t] = "qlock"]
            /\ UNCHANGED <<txq, mode, out, thr, ier, left, wrote, console>>
  /\ UNCHANGED <<buffer, rbr, call_lock, got, typed, keys, chalt>>

(* Faulty variant: the new byte overtakes the queue. *)
Polled_new(q, byte) == byte

(* The byte that is polled out to make room. *)
Polled(q, byte) == q.buf[q.tail]

(* serial_putc with interrupts off, in an interrupt handler. *)
serial_putc_off ==
  /\ mode = "QUEUE" /\ Within
  /\ \E byte \in {<<Intr, 1>>} : \E q \in {IF intq_full(txq) THEN Getc(txq) ELSE txq} :
       /\ out' = IF intq_full(txq) THEN Append(out, Polled(txq, byte)) ELSE out
       /\ thr' = IF intq_full(txq) THEN FALSE ELSE thr
       /\ cpc' = Unblock(cpc, IF intq_full(txq) THEN signal(txq, txq.not_full) ELSE {})
       /\ txq' = Putc(q, byte)
       /\ wrote' = Append(wrote, byte)
       /\ ier' = write_ier(Putc(q, byte), buffer)
  /\ UNCHANGED <<mode, buffer, rbr, left, console, call_lock, got, typed, keys, chalt>>

(* serial_flush: everything is polled out; the interrupts stay as they are.*)
serial_flush ==
  /\ ~intq_empty(txq)
  /\ out' = out \o Contents(txq)
  /\ txq' = [intq_init EXCEPT !.lock = txq.lock, !.head = txq.head, !.tail = txq.head]
  /\ cpc' = Unblock(cpc, signal(txq, txq.not_full))
  /\ thr' = FALSE
  /\ UNCHANGED <<mode, buffer, ier, rbr, left, console, call_lock, wrote, got, typed, keys, chalt>>

-----------------------------------------------------------------------------
(* Waiting: for a writer the queue is txq, for a reader buffer *)

(* wait after lock_acquire has blocked: an assertion says that the         *)
(* condition still holds.                                                  *)
AcquireTx(t) ==
  /\ t \in Writer /\ cpc[t] = "qlock" /\ txq.lock = Nobody
  /\ IF intq_full(txq)
     THEN /\ txq' = [txq EXCEPT !.lock = t, !.not_full = t] /\ cpc' = [cpc EXCEPT ![t] = "wait"]
          /\ UNCHANGED chalt
     ELSE chalt' = "assert" /\ UNCHANGED <<txq, cpc>>
  /\ UNCHANGED <<uartVars, buffer, left, console, call_lock, out, wrote, got, typed, keys>>

AcquireIn(t) ==
  /\ t \in Reader /\ cpc[t] = "qlock" /\ buffer.lock = Nobody
  /\ IF intq_empty(buffer)
     THEN /\ buffer' = [buffer EXCEPT !.lock = t, !.not_empty = t] /\ cpc' = [cpc EXCEPT ![t] = "wait"]
          /\ UNCHANGED chalt
     ELSE chalt' = "assert" /\ UNCHANGED <<buffer, cpc>>
  /\ UNCHANGED <<uartVars, txq, left, console, call_lock, out, wrote, got, typed, keys>>

Let_go(q) == [q EXCEPT !.lock = Nobody]

(* wait returns; lock_release, which may yield; the condition is tested    *)
(* again.                                                                  *)
Woken(t) ==
  /\ cpc[t] = "woken"
  /\ cpc' = [cpc EXCEPT ![t] = IF t \in Writer THEN "put" ELSE "get"]
  /\ txq' = IF t \in Writer THEN Let_go(txq) ELSE txq
  /\ buffer' = IF t \in Reader THEN Let_go(buffer) ELSE buffer
  /\ UNCHANGED <<uartVars, left, console, call_lock, out, wrote, got, typed, keys, chalt>>

-----------------------------------------------------------------------------
(* Reading *)

(* Faulty variant: the system call does not take its lock. *)
CallFree_always == TRUE

CallFree == call_lock = Nobody

(* read with fd 0: filesys_syscall_lock. *)
read(t) ==
  /\ cpc[t] = "idle" /\ CallFree
  /\ call_lock' = t
  /\ cpc' = [cpc EXCEPT ![t] = "get"]
  /\ UNCHANGED <<queueVars, uartVars, left, console, out, wrote, got, typed, keys, chalt>>

(* input_getc, and the end of read. *)
input_getc(t) ==
  /\ cpc[t] = "get"
  /\ CASE ~intq_empty(buffer) ->
            \E q \in {Getc(buffer)} :
              /\ buffer' = q
              /\ got' = Append(got, buffer.buf[buffer.tail])
              /\ cpc' = Unblock([cpc EXCEPT ![t] = "idle"], signal(buffer, buffer.not_full))
              /\ ier' = serial_notify(txq, q)
              /\ call_lock' = Nobody
       [] intq_empty(buffer) /\ buffer.lock = Nobody ->
            /\ buffer' = [buffer EXCEPT !.lock = t, !.not_empty = t]
            /\ cpc' = [cpc EXCEPT ![t] = "wait"]
            /\ UNCHANGED <<got, ier, call_lock>>
       [] OTHER ->
            /\ cpc' = [cpc EXCEPT ![t] = "qlock"]
            /\ UNCHANGED <<buffer, got, ier, call_lock>>
  /\ UNCHANGED <<mode, txq, thr, rbr, left, console, out, wrote, typed, keys, chalt>>

input_full == intq_full(buffer)

(* input_putc *)
input_putc(key) ==
  \E q \in {Putc(buffer, key)} :
    /\ buffer' = q
    /\ typed' = Append(typed, key)

(* key_typed: a key is dropped when the buffer is full. *)
key_typed ==
  /\ Within
  /\ keys' = keys + 1
  /\ IF input_full THEN UNCHANGED <<buffer, typed, cpc, ier>>
     ELSE /\ input_putc(keys)
          /\ cpc' = Unblock(cpc, signal(buffer, buffer.not_empty))
          /\ ier' = serial_notify(txq, buffer')
  /\ UNCHANGED <<mode, txq, thr, rbr, left, console, call_lock, out, wrote, got, chalt>>

-----------------------------------------------------------------------------
(* The serial port *)

(* A byte arrives. *)
receive ==
  /\ ~rbr /\ Within
  /\ rbr' = TRUE /\ keys' = keys + 1
  /\ UNCHANGED <<queueVars, mode, ier, thr, cpc, left, console, call_lock, out, wrote, got, typed, chalt>>

(* The transmitter is ready for a byte. *)
transmit ==
  /\ ~thr
  /\ thr' = TRUE
  /\ UNCHANGED <<queueVars, mode, ier, rbr, cpc, left, console, call_lock, out, wrote, got, typed, keys,
                 chalt>>

(* serial_interrupt: receive while there is room, transmit while the THR   *)
(* is empty, which it is not after a byte.                                 *)
serial_interrupt ==
  LET takes == rbr /\ ~input_full
      sends == thr /\ ~intq_empty(txq)
  IN  /\ ("RECV" \in ier /\ rbr) \/ ("XMIT" \in ier /\ thr)
      /\ IF takes THEN input_putc(keys) ELSE UNCHANGED <<buffer, typed>>
      /\ rbr' = (rbr /\ ~takes)
      /\ out' = IF sends THEN Append(out, txq.buf[txq.tail]) ELSE out
      /\ txq' = IF sends THEN Getc(txq) ELSE txq
      /\ thr' = (thr /\ ~sends)
      /\ cpc' = Unblock(cpc, (IF takes THEN signal(buffer, buffer.not_empty) ELSE {})
                             \cup (IF sends THEN signal(txq, txq.not_full) ELSE {}))
      /\ ier' = write_ier(txq', buffer')
      /\ UNCHANGED <<mode, left, console, call_lock, wrote, got, keys, chalt>>

-----------------------------------------------------------------------------
(* What a thread does by itself. *)
ThreadStep(t) ==
  /\ chalt = "none"
  /\ \/ t \in Writer /\ serial_putc(t)
     \/ t \in Reader /\ input_getc(t)
     \/ Woken(t)

LockStep(t) == chalt = "none" /\ (AcquireTx(t) \/ AcquireIn(t))

Hardware == chalt = "none" /\ (transmit \/ serial_interrupt)

ConsoleNext ==
  \/ \E t \in Writer \cup Reader : ThreadStep(t) \/ LockStep(t)
  \/ Hardware
  \/ /\ chalt = "none"
     /\ \/ serial_init_queue
        \/ \E t \in Writer : vprintf(t) \/ nested_vprintf(t)
        \/ \E t \in Reader : read(t)
        \/ serial_putc_off \/ serial_flush
        \/ key_typed \/ receive

-----------------------------------------------------------------------------
(* Properties *)

(* The bytes given to serial_putc leave the port once each and in order,   *)
(* whether they go through the queue and the interrupt, are polled out to  *)
(* make room, are flushed, or were sent before there was a queue.          *)
BytesInOrder == out \o Contents(txq) = wrote

(* The keys that found room reach the readers once each and in order.      *)
KeysInOrder == got \o Contents(buffer) = typed

(* The messages of two threads are not mixed: console_lock is kept over a  *)
(* message, also when the thread prints another one inside.                *)
Lines == SelectSeq(wrote, LAMBDA b : b[1] # Intr /\ b[2] # 0)

LinesWhole ==
  \A i \in 2..Len(Lines) :
    Lines[i - 1][2] > 1 => Lines[i] = <<Lines[i - 1][1], Lines[i - 1][2] - 1>>

(* The port interrupts whenever there is something to send, and whenever   *)
(* it may receive: every change of a queue has been followed by write_ier. *)
InterruptsArmed ==
  mode = "QUEUE" /\ chalt = "none" =>
    /\ ~intq_empty(txq) => "XMIT" \in ier
    /\ ~intq_full(buffer) <=> "RECV" \in ier

(* A thread sleeps in wait only while its condition holds and it is the    *)
(* one that signal will wake, and the assertion of wait does not fail: the *)
(* lock of the caller (console_lock, filesys_syscall_lock) keeps a second  *)
(* thread from waiting for the lock of the queue.                          *)
SleepersRight ==
  /\ chalt # "assert"
  /\ \A t \in Writer : cpc[t] = "wait" => intq_full(txq) /\ txq.not_full = t
  /\ \A t \in Reader : cpc[t] = "wait" => intq_empty(buffer) /\ buffer.not_empty = t

(* A message that was begun is printed to its end.                         *)
PrintsEnd == \A t \in Writer : cpc[t] # "idle" ~> cpc[t] = "idle" \/ chalt # "none"

(* What goes in comes out: bytes, keys and messages.  *)
StreamsWhole == BytesInOrder /\ KeysInOrder /\ LinesWhole

(* Whoever waits for a queue, the port or a thread, is told when it moves. *)
QueuesServed == InterruptsArmed /\ SleepersRight
=============================================================================
