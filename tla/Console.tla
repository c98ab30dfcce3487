-------------------------------- MODULE Console -------------------------------
(***************************************************************************)
(* The console, kernel/console.c, over the serial port driver              *)
(* kernel/uart.c: processes that read() and write() it, the interrupt      *)
(* handler with its line editing, and the transmit buffer.                 *)
(*                                                                         *)
(* Grain: cons.lock and uart_tx_lock are variables; a read or a write      *)
(* moves one character per step, uartstart() one per turn of its loop, and *)
(* the handler takes one character per step.  A character that changes     *)
(* nothing (^P, or one that finds the buffer full) is no step, and \r is   *)
(* the newline it is turned into.  Consumed slots of the buffers are set   *)
(* to "none": the code never looks at them again.                          *)
(***************************************************************************)
EXTENDS Integers, Sequences

CONSTANTS
  Reader, Writer,   \* processes that read and that write the console
  Typed, Written,   \* ordinary characters, for the input and the output
  INPUT_BUF,
  UINT,             \* modulus of the uint indices (2^32 in the code)
  UART_TX_BUF_SIZE,
  MaxCount          \* largest n passed to read() and write()

Proc == Reader \union Writer
Char == Typed \union {"newline", "eof"}

ASSUME ConsoleAssumption ==
  /\ Reader \intersect Writer = {}
  /\ (Typed \union Written) \intersect {"newline", "eof", "none", "idle", "echo"} = {}
  /\ INPUT_BUF \in Nat \ {0} /\ UINT \in Nat /\ UINT > INPUT_BUF /\ UINT % INPUT_BUF = 0
  /\ UART_TX_BUF_SIZE \in Nat /\ UART_TX_BUF_SIZE > 1 /\ MaxCount \in Nat

VARIABLES
  buf, r, w, e,             \* cons: the input
  lock,                     \* holder of cons.lock, or "nobody"
  tx_buf, tx_w, tx_r,       \* the transmit buffer
  tx_lock,                  \* holder of uart_tx_lock: a writer, "intr", "nobody"
  thr, irq,                 \* the character the UART sends, or "idle"; "it is sent"
  intr,                     \* uartintr(): "off", "input" or "output"
  pc, n,                    \* where a process is; the characters left of its call
  last,                     \* the last character its read has delivered
  panicked                  \* the kernel has stopped

input == <<buf, r, w, e>>
output == <<tx_buf, tx_w, tx_r, tx_lock, thr, irq>>
procs == <<pc, n, last>>
vars == <<input, lock, output, intr, procs, panicked>>

\* consoleinit(), uartinit()
Init ==
  /\ buf = [k \in 0..(INPUT_BUF - 1) |-> "none"] /\ r = 0 /\ w = 0 /\ e = 0
  /\ lock = "nobody" /\ tx_lock = "nobody"
  /\ tx_buf = [k \in 0..(UART_TX_BUF_SIZE - 1) |-> "none"] /\ tx_w = 0 /\ tx_r = 0
  /\ thr = "idle" /\ irq = FALSE /\ intr = "off"
  /\ pc = [p \in Proc |-> "user"] /\ n = [p \in Proc |-> 0] /\ last = [p \in Proc |-> "none"]
  /\ panicked = FALSE

Inc(k) == (k + 1) % UINT
Slot(k) == k % INPUT_BUF

--------------------------------------------------------------------------------
\* uart.c

\* The hardware: a character is or one has been received.
transmitted ==
  /\ thr # "idle" /\ thr' = "idle" /\ irq' = TRUE
  /\ UNCHANGED <<input, lock, tx_buf, tx_w, tx_r, tx_lock, intr, procs, panicked>>

uartstart_Skip(h) ==
  /\ tx_lock = h
  /\ IF tx_w # tx_r /\ thr = "idle" /\ tx_w # (tx_r + 1) % UART_TX_BUF_SIZE
     THEN /\ thr' = tx_buf[tx_r]
          /\ tx_buf' = [tx_buf EXCEPT ![tx_r] = "none"]
          /\ tx_r' = (tx_r + 1) % UART_TX_BUF_SIZE
          /\ UNCHANGED <<tx_lock, intr>>
     ELSE /\ tx_lock' = "nobody" /\ intr' = IF h = "intr" THEN "off" ELSE intr
          /\ UNCHANGED <<tx_buf, tx_r, thr>>
  /\ UNCHANGED <<input, lock, tx_w, irq, procs, panicked>>

\* A turn of the loop of uartstart(), or its end and the caller's release of
\* uart_tx_lock.  (wakeup(&uart_tx_r) finds nobody: see uartputc_full.)
uartstart(h) ==
  /\ tx_lock = h
  /\ IF tx_w # tx_r /\ thr = "idle"
     THEN /\ thr' = tx_buf[tx_r]
          /\ tx_buf' = [tx_buf EXCEPT ![tx_r] = "none"]
          /\ tx_r' = (tx_r + 1) % UART_TX_BUF_SIZE
          /\ UNCHANGED <<tx_lock, intr>>
     ELSE /\ tx_lock' = "nobody" /\ intr' = IF h = "intr" THEN "off" ELSE intr
          /\ UNCHANGED <<tx_buf, tx_r, thr>>
  /\ UNCHANGED <<input, lock, tx_w, irq, procs, panicked>>

\* uartintr(): first the characters received (consoleintr below), then
\* uartstart() under uart_tx_lock.  It is called for irq, and at any time for
\* a character that has arrived.
uartintr ==
  /\ irq' = FALSE /\ intr = "off" /\ intr' = "input"
  /\ UNCHANGED <<input, lock, tx_buf, tx_w, tx_r, tx_lock, thr, procs, panicked>>

uartintr_output ==
  /\ intr = "input" /\ intr' = "output"
  /\ tx_lock = "nobody" /\ tx_lock' = "intr"
  /\ UNCHANGED <<input, lock, tx_buf, tx_w, tx_r, thr, irq, procs, panicked>>

--------------------------------------------------------------------------------
\* consoleintr(): in the handler, under cons.lock.

wakeup == pc' = [p \in Proc |-> IF pc[p] = "asleep" THEN "awake" ELSE pc[p]]

\* consputc(): uartputc_sync() spins until the transmitter is idle.
consputc == thr = "idle" /\ thr' = "echo"

consoleintr == intr = "input" /\ lock = "nobody" /\ consputc
               /\ UNCHANGED <<r, lock, tx_buf, tx_w, tx_r, tx_lock, irq, intr, n, last, panicked>>

Full == (e - r) % UINT >= INPUT_BUF

intr_default_NewlineOnly(c) ==
  /\ consoleintr /\ ~Full
  /\ buf' = [buf EXCEPT ![Slot(e)] = c] /\ e' = Inc(e)
  /\ IF c \in {"newline", "eof"} \/ e' = (r + INPUT_BUF) % UINT
     THEN w' = e' /\ (IF c = "newline" THEN wakeup ELSE UNCHANGED pc)
     ELSE UNCHANGED <<w, pc>>

\* A character is stored; a whole line, or a full buffer, is for the readers.
intr_default(c) ==
  /\ consoleintr /\ ~Full
  /\ buf' = [buf EXCEPT ![Slot(e)] = c] /\ e' = Inc(e)
  /\ IF c \in {"newline", "eof"} \/ e' = (r + INPUT_BUF) % UINT
     THEN w' = e' /\ wakeup
     ELSE UNCHANGED <<w, pc>>

\* ^H
intr_erase_BackToRead ==
  /\ consoleintr /\ e # r
  /\ e' = (e - 1) % UINT /\ buf' = [buf EXCEPT ![Slot(e - 1)] = "none"]
  /\ w' = IF e = w THEN e' ELSE w
  /\ UNCHANGED pc

intr_erase ==
  /\ consoleintr /\ e # w
  /\ e' = (e - 1) % UINT /\ buf' = [buf EXCEPT ![Slot(e - 1)] = "none"]
  /\ UNCHANGED <<w, pc>>

\* ^U: erase back to w, or to a newline.
intr_kill ==
  LET more(k) == k # (e - w) % UINT /\ buf[Slot(e - k - 1)] # "newline"
      back == CHOOSE k \in 1..((e - w) % UINT) : ~more(k) /\ \A j \in 0..(k - 1) : more(j)
      gone == {Slot(e - k) : k \in 1..back} IN
  /\ consoleintr /\ e # w
  /\ e' = (e - back) % UINT
  /\ buf' = [s \in DOMAIN buf |-> IF s \in gone THEN "none" ELSE buf[s]]
  /\ UNCHANGED <<w, pc>>

--------------------------------------------------------------------------------
\* consoleread()

goto(p, l) == pc' = [pc EXCEPT ![p] = l]

\* The call, and the way back from sleep(): both take cons.lock.
read_begin(p, m) ==
  /\ pc[p] = "user" /\ goto(p, "read") /\ lock = "nobody" /\ lock' = p
  /\ n' = [n EXCEPT ![p] = m]
  /\ UNCHANGED <<input, output, intr, last, panicked>>

read_awake(p) ==
  /\ pc[p] = "awake" /\ goto(p, "read") /\ lock = "nobody" /\ lock' = p
  /\ UNCHANGED <<input, output, intr, n, last, panicked>>

\* Nothing to read: sleep, or return -1 when killed.
read_sleep(p) ==
  /\ pc[p] = "read" /\ n[p] > 0 /\ r = w
  /\ \/ goto(p, "asleep") /\ lock' = "nobody"
     \/ goto(p, "killed") /\ UNCHANGED lock
  /\ UNCHANGED <<input, output, intr, n, last, panicked>>

\* kill() makes a sleeper runnable.
killed(p) ==
  /\ pc[p] = "asleep" /\ goto(p, "awake")
  /\ UNCHANGED <<input, lock, output, intr, n, last, panicked>>

\* Take the character at r.
Take == r' = Inc(r) /\ buf' = [buf EXCEPT ![Slot(r)] = "none"]
read_eof_Takes(p) ==
  /\ pc[p] = "read" /\ n[p] > 0 /\ r # w /\ buf[Slot(r)] = "eof"
  /\ Take /\ goto(p, "ret")
  /\ UNCHANGED <<w, e, lock, output, intr, n, last, panicked>>

\* ^D ends the read, and is left for the next one if this one has delivered
\* something.
read_eof(p) ==
  /\ pc[p] = "read" /\ n[p] > 0 /\ r # w /\ buf[Slot(r)] = "eof"
  /\ (IF last[p] # "none" THEN UNCHANGED <<r, buf>> ELSE Take) /\ goto(p, "ret")
  /\ UNCHANGED <<w, e, lock, output, intr, n, last, panicked>>

\* Any other is copied out; where that fails the read ends without it.
read_char(p) ==
  LET c == buf[Slot(r)] IN
  /\ pc[p] = "read" /\ n[p] > 0 /\ r # w /\ c # "eof"
  /\ Take
  /\ \/ /\ last' = [last EXCEPT ![p] = c] /\ n' = [n EXCEPT ![p] = @ - 1]
        /\ goto(p, IF c = "newline" THEN "ret" ELSE "read")
     \/ goto(p, "fault") /\ UNCHANGED <<last, n>>
  /\ UNCHANGED <<w, e, lock, output, intr, panicked>>

\* release(&cons.lock) and the return, of a read and of a write.
return(p) ==
  /\ lock = p /\ tx_lock # p
  /\ pc[p] \in {"ret", "killed", "fault"} \/ n[p] = 0
  /\ lock' = "nobody" /\ goto(p, "user")
  /\ n' = [n EXCEPT ![p] = 0] /\ last' = [last EXCEPT ![p] = "none"]
  /\ UNCHANGED <<input, output, intr, panicked>>

--------------------------------------------------------------------------------
\* consolewrite()

write_begin(p, m) ==
  /\ pc[p] = "user" /\ goto(p, "write") /\ lock = "nobody" /\ lock' = p
  /\ n' = [n EXCEPT ![p] = m]
  /\ UNCHANGED <<input, output, intr, last, panicked>>

\* either_copyin() fails.
write_fault(p) ==
  /\ pc[p] = "write" /\ n[p] > 0 /\ tx_lock # p /\ goto(p, "fault")
  /\ UNCHANGED <<input, lock, output, intr, n, last, panicked>>

TxFull_LastSlot == tx_w = tx_r /\ tx_buf[tx_r] # "none"
TxFull == (tx_w + 1) % UART_TX_BUF_SIZE = tx_r

\* uartputc(): the character goes into the buffer, then uartstart().
uartputc(p, c) ==
  /\ pc[p] = "write" /\ n[p] > 0 /\ tx_lock = "nobody" /\ ~TxFull
  /\ tx_lock' = p
  /\ tx_buf' = [tx_buf EXCEPT ![tx_w] = c] /\ tx_w' = (tx_w + 1) % UART_TX_BUF_SIZE
  /\ n' = [n EXCEPT ![p] = @ - 1]
  /\ UNCHANGED <<input, lock, tx_r, thr, irq, intr, pc, last, panicked>>

\* uartputc() finds the buffer full and sleeps, but consolewrite() holds
\* cons.lock: sched() panics, "sched locks".
uartputc_full(p) ==
  /\ pc[p] = "write" /\ n[p] > 0 /\ tx_lock = "nobody" /\ TxFull
  /\ panicked' = TRUE
  /\ UNCHANGED <<input, lock, output, intr, procs>>

Read(p) ==
  \/ \E m \in 0..MaxCount : read_begin(p, m)
  \/ read_sleep(p) \/ killed(p) \/ read_awake(p) \/ read_eof(p) \/ read_char(p) \/ return(p)

Write(p) ==
  \/ \E m \in 0..MaxCount : write_begin(p, m)
  \/ \E c \in Written : uartputc(p, c)
  \/ uartstart(p) \/ uartputc_full(p) \/ write_fault(p) \/ return(p)

Interrupt ==
  \/ uartintr \/ uartintr_output \/ uartstart("intr")
  \/ intr_erase \/ intr_kill \/ \E c \in Char : intr_default(c)

Next ==
  /\ ~panicked
  /\ transmitted \/ Interrupt \/ (\E p \in Reader : Read(p)) \/ (\E p \in Writer : Write(p))

Spec == Init /\ [][Next]_vars

--------------------------------------------------------------------------------
\* Properties.

\* Every variable stays in its type, and the indices in their order:
\* r <= w <= e <= r + INPUT_BUF, also when the unsigned indices wrap around.
TypeOK ==
  /\ buf \in [0..(INPUT_BUF - 1) -> Char \union {"none"}]
  /\ r \in 0..(UINT - 1) /\ w \in 0..(UINT - 1) /\ e \in 0..(UINT - 1)
  /\ (w - r) % UINT <= (e - r) % UINT /\ (e - r) % UINT <= INPUT_BUF
  /\ tx_buf \in [0..(UART_TX_BUF_SIZE - 1) -> Written \union {"none"}]
  /\ tx_w \in 0..(UART_TX_BUF_SIZE - 1) /\ tx_r \in 0..(UART_TX_BUF_SIZE - 1)
  /\ lock \in Proc \union {"nobody"} /\ tx_lock \in Writer \union {"intr", "nobody"}
  /\ intr \in {"off", "input", "output"} /\ thr \in Written \union {"idle", "echo"}
  /\ pc \in [Proc -> {"user", "read", "write", "ret", "killed", "fault", "asleep", "awake"}]
  /\ n \in [Proc -> 0..MaxCount]

\* The input is a terminal: only the unfinished line can be edited, and
\* complete lines are read once and in order (consoleintr(), consoleread()).
Between(from, to) == [k \in 1..((to - from) % UINT) |-> buf[Slot(from + k - 1)]]
T == INSTANCE Tty WITH edit <- Between(w, e), line <- Between(r, w), Capacity <- INPUT_BUF
TtySpec == T!Spec

\* A consoleread() that ends early ends at a line: its last character is a
\* newline, or a ^D follows that the next read will see as its end of file,
\* or the ^D was its own and it has no character.
ReadEndsAtLine ==
  \A p \in Reader : pc[p] = "ret" =>
    \/ last[p] \in {"none", "newline"}
    \/ r # w /\ buf[Slot(r)] = "eof"

\* Nobody sleeps in consoleread() while there is a line to read.
NoLostWakeup == TypeOK /\ \A p \in Reader : pc[p] = "asleep" => r = w

\* The transmit buffer is a queue: characters come out once and in order,
\* whatever echo and interrupts are between (uartputc(), uartstart()).
TxQueue == [k \in 1..((tx_w - tx_r) % UART_TX_BUF_SIZE) |->
              tx_buf[(tx_r + k - 1) % UART_TX_BUF_SIZE]]
TxInOrder ==
  [][ \/ TxQueue' = TxQueue
      \/ \E c \in Written : TxQueue' = Append(TxQueue, c)
      \/ TxQueue # <<>> /\ TxQueue' = Tail(TxQueue) /\ thr' = Head(TxQueue) ]_vars

\* Output is never stuck: while characters wait, the transmitter is busy, its
\* interrupt is pending, or uartstart() is about to look, also when the echo
\* has used the transmitter without uart_tx_lock.
TxMoves == tx_w # tx_r => thr # "idle" \/ irq \/ intr # "off" \/ tx_lock # "nobody"
===============================================================================
