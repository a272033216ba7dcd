------------------------------ MODULE Console ------------------------------
(***************************************************************************)
(* The console: kernel/console.c and kernel/uart.c, with the locking of    *)
(* kernel/printf.c, the interrupt path of kernel/trap.c and kernel/plic.c, *)
(* and the spinlocks of Spinlock.  Each CPU runs one process, and on top   *)
(* of it the interrupt handler; the two are the CPU's contexts.  sleep()   *)
(* and wakeup() are one step each: module Proc has their inside.           *)
(***************************************************************************)
EXTENDS Spinlock, Sequences

CONSTANTS
  SIZE,      \* INPUT_BUF_SIZE
  WORD,      \* 2^32: the indices are uint
  BATCH,     \* sizeof(buf) in consolewrite()
  Chars,     \* what is typed: "x" (an ordinary one), "cr", "eof", "bs", "kill", "dump"
  Start,     \* characters typed and read before, modulo WORD
  Ahead,     \* keys that may have been typed since
  Ns,        \* bound: bytes a read() or write() asks for
  MaxCalls,  \* bound: system calls and kernel messages in all
  MaxTyped,  \* bound: characters typed
  MaxRx      \* bound: characters in the receiver

\* Where a context can be: in both kinds, in a system call, in the handler.
Places ==
  {"idle", "spin", "lsr", "thr"} \cup
  {"pf_return", "uw", "tx_chan", "tx_woken", "cw_next",
   "cr", "cr_sleep", "cr_return", "cons_r", "cons_woken"} \cup
  {"tx_done", "getc", "echo", "edit", "dump_end", "complete"}

ASSUME ConsoleAssumption ==
  /\ Locks = {"cons", "tx", "pr"}
  /\ IsFiniteSet(CPUs) /\ None \notin CPUs \cup Places \cup {"nl", "eof", "fault"}
  /\ SIZE \in Nat \ {0, 1} /\ WORD \in Nat /\ SIZE < WORD /\ WORD % SIZE = 0
  /\ BATCH \in Nat \ {0} /\ Ns \subseteq Nat /\ Start \in 0..(WORD - 1)
  /\ "fault" \notin Chars \cup Ahead /\ "eof" \notin Ahead

VARIABLES
  frame,     \* frame[x]: where context x is, and its locals
  killed,    \* p->killed of each CPU's process
  buf, r, w, e,    \* cons
  tx_busy,
  rx,        \* characters in the receiver
  fifo,      \* how many are in the transmitter
  thri,      \* the transmitter's interrupt condition
  plic,      \* the CPU that has claimed the UART's interrupt, or None
  calls, typed

cons == <<buf, r, w, e>>
uart == <<rx, fifo, thri, plic>>
locks == <<lk, cpu, panic>>
vars == <<locks, frame, killed, cons, tx_busy, uart, calls, typed>>

Contexts == CPUs \X {"proc", "intr"}
CpuOf(x) == x[1]

\* lock and next: of the acquire() in progress; ret: where uartputc_sync()
\* returns to; n: bytes to go; i: bytes read; c: character; k: left to echo, or of a batch.
Idle == [pc |-> "idle", lock |-> None, next |-> None, ret |-> None, n |-> 0, i |-> 0, c |-> None, k |-> 0]

\* Nobody has read the key typed last, and Start others have been read.
Init ==
  /\ SpinlockInit
  /\ frame = [x \in Contexts |-> Idle]
  /\ killed = [c \in CPUs |-> FALSE]
  /\ \E c \in Ahead : buf = [i \in 0..(SIZE - 1) |-> c]
  /\ r = Start
  /\ e = (Start + 1) % WORD
  /\ w = IF buf[Start % SIZE] = "nl" THEN e ELSE r
  /\ tx_busy = FALSE
  /\ rx = <<>> /\ fifo = 0
  /\ thri = TRUE
  /\ plic = None
  /\ calls = 0 /\ typed = 0

\* Context x is the one its CPU runs, and it is at pc.
At(x, pc) ==
  /\ frame[x].pc = pc
  /\ x[2] = "proc" => frame[<<x[1], "intr">>].pc = "idle"

\* x goes on at pc.
Then(x, pc) == frame' = [frame EXCEPT ![x].pc = pc]

\* x, with its CPU in state k and locals f, calls acquire(l) and goes on at pc.
AcquireFrom(x, k, f, l, pc) ==
  /\ acquire(CpuOf(x), k, l)
  /\ frame' = [frame EXCEPT ![x] =
       IF lk[l] = None THEN [f EXCEPT !.pc = pc]
       ELSE [f EXCEPT !.pc = "spin", !.lock = l, !.next = pc]]

ThenAcquire(x, f, l, pc) == AcquireFrom(x, cpu[CpuOf(x)], f, l, pc)

\* x releases l and sleeps, or goes on, at pc.
ThenRelease(x, l, pc) == release(CpuOf(x), l) /\ Then(x, pc)

\* Where sleep() on a channel goes on.
WokenOn == [tx_chan |-> "tx_woken", cons_r |-> "cons_woken"]

\* The system call returns; a killed process exits and another takes the CPU.
Return(x, l) ==
  /\ release(CpuOf(x), l)
  /\ frame' = [frame EXCEPT ![x] = Idle]
  /\ killed' = [killed EXCEPT ![CpuOf(x)] = FALSE]

\* wakeup(chan), for the sleepers among the frames fr.
Woken(fr, chan) ==
  [x \in Contexts |-> IF fr[x].pc = chan THEN [fr[x] EXCEPT !.pc = WokenOn[chan]] ELSE fr[x]]

Call(x) ==
  /\ x[2] = "proc" /\ At(x, "idle") /\ cpu[CpuOf(x)].intr
  /\ calls < MaxCalls /\ calls' = calls + 1
  /\ UNCHANGED <<killed, cons, tx_busy, uart, typed>>

Step(x, pc) == At(x, pc) /\ UNCHANGED <<calls, typed>>

\* acquire() of any lock, at the swap.
spin(x) ==
  /\ Step(x, "spin")
  /\ acquire_swap(CpuOf(x), frame[x].lock)
  /\ frame' = [frame EXCEPT ![x].pc = frame[x].next, ![x].lock = None, ![x].next = None]
  /\ UNCHANGED <<cpu, panic, killed, cons, tx_busy, uart>>

-----------------------------------------------------------------------------
(* uartputc_sync(), with nothing but LSR between it and other writers      *)

\* x sends k characters with uartputc_sync() and goes on at pc.
ThenPut(x, k, pc) ==
  frame' = [frame EXCEPT ![x].pc = "lsr", ![x].k = k, ![x].ret = pc]

\* push_off() and the last look at LSR, which finds TX_IDLE.
uartputc_lsr(x) ==
  /\ Step(x, "lsr")
  /\ fifo = 0
  /\ cpu' = [cpu EXCEPT ![CpuOf(x)] = push_off(@)]
  /\ Then(x, "thr")
  /\ UNCHANGED <<lk, panic, killed, cons, tx_busy, uart>>

\* The write to THR and pop_off().
uartputc_thr(x) ==
  /\ Step(x, "thr")
  /\ fifo' = fifo + 1 /\ thri' = FALSE
  /\ cpu' = [cpu EXCEPT ![CpuOf(x)] = pop_off(@)]
  /\ panic' = (panic \/ pop_panics(cpu[CpuOf(x)]))
  /\ IF frame[x].k = 1
     THEN frame' = [frame EXCEPT ![x].pc = frame[x].ret, ![x].k = 0, ![x].ret = None]
     ELSE frame' = [frame EXCEPT ![x].pc = "lsr", ![x].k = @ - 1]
  /\ UNCHANGED <<lk, killed, cons, tx_busy, rx, plic>>

\* x calls printf() and goes on at pc, with pr.lock: one character stands for
\* what it prints.
ThenPrintf(x, pc) == ThenAcquire(x, [frame[x] EXCEPT !.k = 1, !.ret = pc], "pr", "lsr")

\* printf() from a system call.
printf(x) == Call(x) /\ ThenPrintf(x, "pf_return")

printf_return(x) ==
  /\ Step(x, "pf_return")
  /\ Return(x, "pr")
  /\ UNCHANGED <<cons, tx_busy, uart>>

-----------------------------------------------------------------------------
(* write(): consolewrite() and uartwrite()                                 *)

\* Bytes of the next batch: either_copyin() moves them to buf.
Batch(n) == IF n < BATCH THEN n ELSE BATCH

consolewrite(x, n) ==
  /\ Call(x)
  /\ ThenAcquire(x, [Idle EXCEPT !.n = n - Batch(n), !.k = Batch(n)], "tx", "uw")

\* The write to THR.
uartwrite_thr(x) ==
  /\ ~tx_busy
  /\ fifo' = fifo + 1 /\ thri' = FALSE
  /\ tx_busy' = TRUE
  /\ frame' = [frame EXCEPT ![x].k = @ - 1]
  /\ UNCHANGED locks

\* uartwrite()'s loop, which sleeps while the UART is busy.
uartwrite(x) ==
  /\ Step(x, "uw")
  /\ frame[x].k > 0
  /\ \/ uartwrite_thr(x)
     \/ tx_busy /\ ThenRelease(x, "tx", "tx_chan") /\ UNCHANGED <<fifo, thri, tx_busy>>
  /\ UNCHANGED <<killed, cons, rx, plic>>

\* uartwrite() releases tx_lock, and consolewrite() goes on with the next
\* batch, or returns: all is written, or either_copyin() fails.
uartwrite_end(x) ==
  /\ Step(x, "uw")
  /\ frame[x].k = 0
  /\ \/ Return(x, "tx")
     \/ frame[x].n > 0 /\ ThenRelease(x, "tx", "cw_next") /\ UNCHANGED killed
  /\ UNCHANGED <<cons, tx_busy, uart>>

\* Back from sleep(&tx_chan, &tx_lock).
uartwrite_woken(x) ==
  /\ Step(x, "tx_woken")
  /\ ThenAcquire(x, frame[x], "tx", "uw")
  /\ UNCHANGED <<killed, cons, tx_busy, uart>>

consolewrite_next(x) ==
  /\ Step(x, "cw_next")
  /\ LET n == frame[x].n IN
       ThenAcquire(x, [Idle EXCEPT !.n = n - Batch(n), !.k = Batch(n)], "tx", "uw")
  /\ UNCHANGED <<killed, cons, tx_busy, uart>>

-----------------------------------------------------------------------------
(* read(): consoleread().  n is what is left of the request, i what it has *)

consoleread(x, n) ==
  /\ Call(x)
  /\ ThenAcquire(x, [Idle EXCEPT !.n = n], "cons", "cr")

\* Nothing to read: return -1 if killed, or go to sleep.
consoleread_wait(x) ==
  /\ Step(x, "cr")
  /\ frame[x].n > 0 /\ r = w
  /\ Then(x, IF killed[CpuOf(x)] THEN "cr_return" ELSE "cr_sleep")
  /\ UNCHANGED <<locks, killed, cons, tx_busy, uart>>

consoleread_sleep(x) ==
  /\ Step(x, "cr_sleep")
  /\ ThenRelease(x, "cons", "cons_r")
  /\ UNCHANGED <<killed, cons, tx_busy, uart>>

consoleread_woken(x) ==
  /\ Step(x, "cons_woken")
  /\ ThenAcquire(x, frame[x], "cons", "cr")
  /\ UNCHANGED <<killed, cons, tx_busy, uart>>

Next_(i) == (i + 1) % WORD

\* Mutant of eof_index: the end of file is always used up.
eof_index_used(i) == Next_(r)

\* cons.r after an end of file that follows i bytes.
eof_index(i) == IF i > 0 THEN r ELSE Next_(r)

\* One character of consoleread()'s loop; the last disjunct is a failing
\* either_copyout().
consoleread_char(x) ==
  /\ Step(x, "cr")
  /\ frame[x].n > 0 /\ r # w
  /\ LET f == frame[x]
         c == buf[r % SIZE]
     IN
     \/ /\ c = "eof"
        /\ r' = eof_index(f.i)
        /\ frame' = [frame EXCEPT ![x].pc = "cr_return", ![x].c = IF f.i > 0 THEN @ ELSE c]
     \/ /\ c # "eof"
        /\ r' = Next_(r)
        /\ frame' = [frame EXCEPT ![x].pc = IF c = "nl" THEN "cr_return" ELSE "cr",
                                  ![x].n = @ - 1, ![x].i = @ + 1, ![x].c = c]
     \/ /\ c # "eof"
        /\ r' = Next_(r)
        /\ frame' = [frame EXCEPT ![x].pc = "cr_return", ![x].c = "fault"]
  /\ UNCHANGED <<locks, killed, buf, w, e, tx_busy, uart>>

consoleread_return(x) ==
  /\ \/ Step(x, "cr") /\ frame[x].n = 0
     \/ Step(x, "cr_return")
  /\ Return(x, "cons")
  /\ UNCHANGED <<cons, tx_busy, uart>>

\* kkill() of CPU c's process: it sleeps no more.
kkill(c) ==
  LET x == <<c, "proc">> IN
  /\ frame[x].pc # "idle" /\ ~killed[c]
  /\ calls < MaxCalls /\ calls' = calls + 1
  /\ killed' = [killed EXCEPT ![c] = TRUE]
  /\ frame' = IF frame[x].pc \in DOMAIN WokenOn
              THEN [frame EXCEPT ![x].pc = WokenOn[@]] ELSE frame
  /\ UNCHANGED <<locks, cons, tx_busy, uart, typed>>

-----------------------------------------------------------------------------
(* The interrupt handler: kerneltrap(), devintr(), uartintr() and          *)
(* consoleintr() for every character                                       *)

plic_claim(c) == plic = None /\ plic' = c
plic_complete == plic' = None

\* plic_claim(), with interrupts off as the hardware leaves them; uartintr()'s
\* read of ISR, which acknowledges the transmitter's interrupt, and its
\* acquire(&tx_lock).
devintr(c) ==
  /\ Step(<<c, "intr">>, "idle")
  /\ cpu[c].intr
  /\ thri \/ rx # <<>>
  /\ plic_claim(c)
  /\ thri' = FALSE
  /\ AcquireFrom(<<c, "intr">>, [cpu[c] EXCEPT !.intr = FALSE], Idle, "tx", "tx_done")
  /\ UNCHANGED <<killed, cons, tx_busy, rx, fifo>>

\* LSR_TX_IDLE, as uartintr() reads it.
TxIdle == fifo = 0

\* Mutant of TxWakeup: the sleepers are not woken.
TxWakeupNot(fr) == fr

TxWakeup(fr) == Woken(fr, "tx_chan")

uartintr_tx(x) ==
  /\ Step(x, "tx_done")
  /\ release(CpuOf(x), "tx")
  /\ LET go == [frame EXCEPT ![x].pc = "getc"] IN
     \/ TxIdle /\ tx_busy' = FALSE /\ frame' = TxWakeup(go)
     \/ ~TxIdle /\ frame' = go /\ UNCHANGED tx_busy
  /\ UNCHANGED <<killed, cons, uart>>

\* uartgetc(), and acquire(&cons.lock) if there is a character.
uartgetc(x) ==
  /\ Step(x, "getc")
  /\ \/ /\ rx # <<>>
        /\ rx' = Tail(rx)
        /\ ThenAcquire(x, [frame[x] EXCEPT !.c = Head(rx)], "cons", "echo")
     \/ rx = <<>> /\ Then(x, "complete") /\ UNCHANGED <<locks, rx>>
  /\ UNCHANGED <<killed, cons, tx_busy, fifo, thri, plic>>

\* Characters between two indices.
Held(from, to) == (to - from) % WORD

\* How many characters ^U erases: back to cons.w or to a newline.
KillCount ==
  CHOOSE j \in 0..Held(w, e) :
    LET stop(k) == k = Held(w, e) \/ buf[((e - 1 - k) % WORD) % SIZE] = "nl"
    IN  stop(j) /\ \A k \in 0..(j - 1) : ~stop(k)

\* Mutant of Erased: backspace also erases what is ready to be read.
ErasedReady(c) ==
  IF c = "kill" THEN KillCount ELSE IF c = "bs" /\ e # r THEN 1 ELSE 0

\* The characters that c erases.
Erased(c) ==
  IF c = "kill" THEN KillCount ELSE IF c = "bs" /\ e # w THEN 1 ELSE 0

Stored(c) == c \notin {"kill", "bs", "dump"} /\ Held(r, e) < SIZE

\* consoleintr()'s echo; a BACKSPACE is three characters, and procdump()
\* prints.  cons.lock hides that ^U and ^H change cons.e before the echo.
consoleintr_echo(x) ==
  /\ Step(x, "echo")
  /\ LET c == frame[x].c
         k == IF Stored(c) THEN 1 ELSE 3 * Erased(c)
     IN
     \/ c = "dump" /\ ThenPrintf(x, "dump_end")
     \/ c # "dump" /\ k = 0 /\ Then(x, "edit") /\ UNCHANGED locks
     \/ c # "dump" /\ k > 0 /\ ThenPut(x, k, "edit") /\ UNCHANGED locks
  /\ UNCHANGED <<killed, cons, tx_busy, uart>>

procdump_end(x) ==
  /\ Step(x, "dump_end")
  /\ ThenRelease(x, "pr", "edit")
  /\ UNCHANGED <<killed, cons, tx_busy, uart>>

\* Storing c, which makes the edit index e1, hands the input to the readers.
Commits(c, e1) == c \in {"nl", "eof"} \/ Held(r, e1) = SIZE

\* What consoleintr() does to cons, wakeup() and release().
consoleintr(x) ==
  /\ Step(x, "edit")
  /\ release(CpuOf(x), "cons")
  /\ LET c == IF frame[x].c = "cr" THEN "nl" ELSE frame[x].c
         go == [frame EXCEPT ![x].pc = "getc", ![x].c = None]
         e1 == Next_(e)
     IN
     \/ /\ ~Stored(c)
        /\ e' = (e - Erased(c)) % WORD
        /\ frame' = go
        /\ UNCHANGED <<buf, w>>
     \/ /\ Stored(c)
        /\ buf' = [buf EXCEPT ![e % SIZE] = c]
        /\ e' = e1
        /\ w' = IF Commits(c, e1) THEN e1 ELSE w
        /\ frame' = IF Commits(c, e1) THEN Woken(go, "cons_r") ELSE go
  /\ UNCHANGED <<killed, r, tx_busy, uart>>

\* plic_complete() and the return from the interrupt.
devintr_end(x) ==
  /\ Step(x, "complete")
  /\ plic_complete
  /\ cpu' = [cpu EXCEPT ![CpuOf(x)].intr = TRUE]
  /\ frame' = [frame EXCEPT ![x] = Idle]
  /\ UNCHANGED <<lk, panic, killed, cons, tx_busy, rx, fifo, thri>>

-----------------------------------------------------------------------------
(* The UART and the interrupt controller                                   *)

uart_type(c) ==
  /\ typed < MaxTyped /\ typed' = typed + 1
  /\ Len(rx) < MaxRx
  /\ rx' = Append(rx, c)
  /\ UNCHANGED <<locks, frame, killed, cons, tx_busy, fifo, thri, plic, calls>>

\* The transmitter sends; when it is empty that is an interrupt condition.
uart_send ==
  /\ fifo > 0
  /\ fifo' = fifo - 1
  /\ thri' = (fifo = 1)
  /\ UNCHANGED <<locks, frame, killed, cons, tx_busy, rx, plic, calls, typed>>

\* Nothing is left to do but wait for input, and the bounds allow none.
Quiet ==
  /\ \A x \in Contexts : frame[x].pc \in {"idle", "cons_r"}
  /\ rx = <<>> /\ fifo = 0 /\ plic = None /\ ~thri
  /\ UNCHANGED vars

Next ==
  \/ \E x \in Contexts :
       \/ printf(x) \/ \E n \in Ns : consolewrite(x, n) \/ consoleread(x, n)
       \/ spin(x) \/ uartputc_lsr(x) \/ uartputc_thr(x)
       \/ printf_return(x)
       \/ uartwrite(x) \/ uartwrite_end(x) \/ uartwrite_woken(x) \/ consolewrite_next(x)
       \/ consoleread_wait(x) \/ consoleread_sleep(x) \/ consoleread_woken(x)
       \/ consoleread_char(x) \/ consoleread_return(x)
       \/ uartintr_tx(x) \/ uartgetc(x)
       \/ consoleintr_echo(x) \/ procdump_end(x) \/ consoleintr(x) \/ devintr_end(x)
  \/ \E c \in CPUs : kkill(c) \/ devintr(c)
  \/ \E c \in Chars : uart_type(c)
  \/ uart_send
  \/ Quiet

Spec == Init /\ [][Next]_vars
-----------------------------------------------------------------------------
\* push_off()s not yet undone on CPU c: locks held or waited for, and a
\* uartputc_sync() about to write.
Nesting(c) ==
  Cardinality({l \in Locks : lk[l] = c}) +
  Cardinality({x \in {c} \X {"proc", "intr"} : frame[x].pc \in {"spin", "thr"}})

\* Interrupts are on exactly when neither a handler nor a push_off() keeps
\* them off, whatever nests in what, so that no handler comes between
\* acquire() and release(): acquire() never finds its own CPU holding the
\* lock, release() always does, and pop_off() is matched.
InterruptsNest ==
  /\ ~panic
  /\ \A c \in CPUs :
       LET handler == frame[<<c, "intr">>].pc # "idle" IN
       /\ handler = (plic = c)
       /\ cpu[c].noff = Nesting(c)
       /\ cpu[c].intr = (~handler /\ Nesting(c) = 0)

\* uartputc_sync() and uartwrite() write THR without a common lock, so a look
\* at LSR may be stale.  Even so no more characters are ever in the
\* transmitter than one for each CPU and one of uartwrite(): with NCPU = 8
\* they fit the 16550's FIFO of 16 and none is lost.
FifoFits == fifo <= Cardinality(CPUs) + 1

\* No sleeper is forgotten.  A writer in sleep(&tx_chan) has an interrupt
\* ahead that will find the transmitter idle; a reader in sleep(&cons.r) has
\* nothing to read, also after another reader put an end of file back.
NotStranded ==
  /\ (\E x \in Contexts : frame[x].pc = "tx_chan") =>
       /\ tx_busy
       /\ fifo > 0 \/ thri \/
            \E x \in Contexts : "tx_done" \in {frame[x].pc, frame[x].next}
  /\ (\E x \in Contexts : frame[x].pc = "cons_r") => r = w

\* The ring buffer with its three wrapping indices, filled from interrupts
\* and emptied by any number of readers, behaves as the queue of edited lines
\* of LineDiscipline.
Window(from, to) == [j \in 1..Held(from, to) |-> buf[((from + j - 1) % WORD) % SIZE]]

LD == INSTANCE LineDiscipline WITH
        Readers <- CPUs,
        ready <- Window(r, w),
        line <- Window(w, e),
        got <- [c \in CPUs |-> frame[<<c, "proc">>].i],
        cbuf <- [c \in CPUs |-> frame[<<c, "proc">>].c]

ImplementsLineDiscipline == LD!LSpec

\* Types; the UART is not overrun; the indices of cons stay in
\* order and at most INPUT_BUF_SIZE apart through the wrap of uint.
ConsoleInv ==
  /\ FifoFits
  /\ r \in 0..(WORD - 1) /\ w \in 0..(WORD - 1) /\ e \in 0..(WORD - 1)
  /\ plic \in CPUs \cup {None} /\ tx_busy \in BOOLEAN
  /\ Held(r, w) <= Held(r, e) /\ Held(r, e) <= SIZE
=============================================================================
