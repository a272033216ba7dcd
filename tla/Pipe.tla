-------------------------------- MODULE Pipe --------------------------------
(***************************************************************************)
(* kernel/pipe.c: one pipe shared by processes that hold its read or its   *)
(* write end.  pi->lock is held from the call to its return or to sleep(), *)
(* so a call is a run of steps under the lock, one per byte copied; only   *)
(* kill() comes between them.  nread and nwrite are unsigned and wrap.     *)
(* The last descriptor of an end goes in fileclose(), before pipeclose()   *)
(* has the lock; calls on the other end go on in between.                  *)
(***************************************************************************)
EXTENDS Integers, Sequences, FiniteSets

CONSTANTS
  Readers, Writers,  \* processes holding each end
  Killable,          \* those that may be killed
  Bytes,
  PIPESIZE,
  WORD,              \* 2^32: the range of nread and nwrite
  MaxN,              \* bound: the byte count of a call
  NoProc             \* holder of the free pi->lock

ASSUME PipeAssumption ==
  /\ PIPESIZE \in Nat \ {0} /\ WORD \in Nat \ {0}
  /\ PIPESIZE < WORD /\ WORD % PIPESIZE = 0
  /\ MaxN \in Nat
  /\ Readers \cap Writers = {}
  /\ Killable \subseteq Readers \cup Writers
  /\ NoProc \notin Readers \cup Writers

VARIABLES
  data, nread, nwrite, readopen, writeopen,  \* struct pipe
  lock,      \* holder of pi->lock
  holds,     \* processes whose file descriptor for the pipe is open
  freed,     \* kfree(pi) has been called
  killed,
  pc,        \* where each process is in its call
  left       \* n - i of the call in progress

pipe == <<data, nread, nwrite, readopen, writeopen>>
vars == <<pipe, lock, holds, freed, killed, pc, left>>

Procs == Readers \cup Writers

TypeOK ==
  /\ data \in [0..(PIPESIZE - 1) -> Bytes]
  /\ nread \in 0..(WORD - 1) /\ nwrite \in 0..(WORD - 1)
  /\ readopen \in BOOLEAN /\ writeopen \in BOOLEAN
  /\ lock \in Procs \cup {NoProc}
  /\ holds \subseteq Procs
  /\ killed \in [Procs -> BOOLEAN]
  /\ freed \in BOOLEAN
  /\ pc \in [Procs -> {"idle", "enter", "loop", "copy", "asleep", "close", "free"}]
  /\ left \in [Procs -> 0..MaxN]

\* pipealloc(); data is whatever kalloc() left in the page.
Init ==
  /\ data \in [0..(PIPESIZE - 1) -> Bytes]
  /\ nread = 0 /\ nwrite = 0
  /\ readopen = TRUE /\ writeopen = TRUE
  /\ lock = NoProc
  /\ holds = Procs /\ freed = FALSE
  /\ killed = [p \in Procs |-> FALSE]
  /\ pc = [p \in Procs |-> "idle"]
  /\ left = [p \in Procs |-> 0]

-----------------------------------------------------------------------------

\* Mutant of Inc: the counter is kept as an index into data.
IncIndex(n) == (n + 1) % PIPESIZE

Inc(n) == (n + 1) % WORD
Empty == nread = nwrite
Full == nwrite = (nread + PIPESIZE) % WORD

Goto(p, l) == pc' = [pc EXCEPT ![p] = l]

\* wakeup(&pi->nread) is Woken(Readers), wakeup(&pi->nwrite) Woken(Writers):
\* the sleepers go on to take the lock again.
Woken(S) == [q \in Procs |-> IF q \in S /\ pc[q] = "asleep" THEN "enter" ELSE pc[q]]

\* read() or write() of n bytes; a killed process does not get here.
call(p, n) ==
  /\ pc[p] = "idle" /\ p \in holds /\ ~killed[p]
  /\ left' = [left EXCEPT ![p] = n]
  /\ Goto(p, "enter")
  /\ UNCHANGED <<pipe, lock, holds, freed, killed>>

\* acquire(&pi->lock), at the start or at the end of sleep().
acquire(p) ==
  /\ pc[p] = "enter" /\ lock = NoProc
  /\ lock' = p
  /\ Goto(p, "loop")
  /\ UNCHANGED <<pipe, holds, freed, killed, left>>

\* Return with the lock released, after wakeup of the sleepers S.
Return(p, S) ==
  /\ lock' = NoProc
  /\ pc' = [Woken(S) EXCEPT ![p] = "idle"]
  /\ left' = [left EXCEPT ![p] = 0]

\* sleep(): the lock is released, after wakeup of the sleepers S.
Sleep(p, S) ==
  /\ lock' = NoProc
  /\ pc' = [Woken(S) EXCEPT ![p] = "asleep"]
  /\ UNCHANGED left

-----------------------------------------------------------------------------
(* pipewrite()                                                             *)

\* No reader, or killed: return -1 at once, waking nobody.
write_fails(p) ==
  /\ pc[p] = "loop" /\ left[p] > 0
  /\ ~readopen \/ killed[p]
  /\ Return(p, {})
  /\ UNCHANGED <<pipe, holds, freed, killed>>

write_full(p) ==
  /\ pc[p] = "loop" /\ left[p] > 0
  /\ readopen /\ ~killed[p]
  /\ Full
  /\ Sleep(p, Readers)
  /\ UNCHANGED <<pipe, holds, freed, killed>>

write_byte(p) ==
  /\ pc[p] = "loop" /\ left[p] > 0
  /\ readopen /\ ~killed[p]
  /\ ~Full
  /\ \E ch \in Bytes : data' = [data EXCEPT ![nwrite % PIPESIZE] = ch]
  /\ nwrite' = Inc(nwrite)
  /\ left' = [left EXCEPT ![p] = @ - 1]
  /\ UNCHANGED <<nread, readopen, writeopen, lock, holds, freed, killed, pc>>

\* Mutant of write_done: sleeping readers are not woken.
write_done_silent(p) ==
  /\ pc[p] = "loop"
  /\ left[p] > 0 => readopen /\ ~killed[p] /\ ~Full
  /\ Return(p, {})
  /\ UNCHANGED <<pipe, holds, freed, killed>>

\* All bytes written, or copyin() of the next one fails.
write_done(p) ==
  /\ pc[p] = "loop"
  /\ left[p] > 0 => readopen /\ ~killed[p] /\ ~Full
  /\ Return(p, Readers)
  /\ UNCHANGED <<pipe, holds, freed, killed>>

-----------------------------------------------------------------------------
(* piperead()                                                              *)

read_killed(p) ==
  /\ pc[p] = "loop"
  /\ Empty /\ writeopen
  /\ killed[p]
  /\ Return(p, {})
  /\ UNCHANGED <<pipe, holds, freed, killed>>

read_empty(p) ==
  /\ pc[p] = "loop"
  /\ Empty /\ writeopen
  /\ ~killed[p]
  /\ Sleep(p, {})
  /\ UNCHANGED <<pipe, holds, freed, killed>>

\* Bytes to read or no writer left: on to the copy loop.
read_ready(p) ==
  /\ pc[p] = "loop"
  /\ ~Empty \/ ~writeopen
  /\ Goto(p, "copy")
  /\ UNCHANGED <<pipe, lock, holds, freed, killed, left>>

read_byte(p) ==
  /\ pc[p] = "copy" /\ left[p] > 0
  /\ ~Empty
  /\ nread' = Inc(nread)
  /\ left' = [left EXCEPT ![p] = @ - 1]
  /\ UNCHANGED <<data, nwrite, readopen, writeopen, lock, holds, freed, killed, pc>>

\* Enough bytes, no more bytes, or copyout() fails.
read_done(p) ==
  /\ pc[p] = "copy"
  /\ Return(p, Writers)
  /\ UNCHANGED <<pipe, holds, freed, killed>>

-----------------------------------------------------------------------------
(* Closing and kill()                                                      *)

End(p) == IF p \in Writers THEN Writers ELSE Readers

\* fileclose(), from close() or exit: the descriptor goes; if it was the last
\* of its end, pipeclose() is to come.
fileclose(p) ==
  /\ pc[p] = "idle" /\ p \in holds
  /\ holds' = holds \ {p}
  /\ pc' = IF holds' \cap End(p) = {} THEN [pc EXCEPT ![p] = "close"] ELSE pc
  /\ UNCHANGED <<pipe, lock, freed, killed, left>>

\* Mutant of BothClosed: one end suffices.
EitherClosed == ~readopen' \/ ~writeopen'

BothClosed == ~readopen' /\ ~writeopen'

\* pipeclose(), up to the release of the lock.
pipeclose(p) ==
  /\ pc[p] = "close" /\ lock = NoProc
  /\ writeopen' = (writeopen /\ p \notin Writers)
  /\ readopen' = (readopen /\ p \in Writers)
  /\ pc' = [Woken(IF p \in Writers THEN Readers ELSE Writers) EXCEPT
              ![p] = IF BothClosed THEN "free" ELSE "idle"]
  /\ UNCHANGED <<data, nread, nwrite, lock, holds, freed, killed, left>>

kfree(p) ==
  /\ pc[p] = "free"
  /\ freed' = TRUE
  /\ Goto(p, "idle")
  /\ UNCHANGED <<pipe, lock, holds, killed, left>>

kkill(p) ==
  /\ p \in Killable /\ ~killed[p]
  /\ killed' = [killed EXCEPT ![p] = TRUE]
  /\ pc' = IF pc[p] = "asleep" THEN [pc EXCEPT ![p] = "enter"] ELSE pc
  /\ UNCHANGED <<pipe, lock, holds, freed, left>>

-----------------------------------------------------------------------------

Write(p) == write_fails(p) \/ write_full(p) \/ write_byte(p) \/ write_done(p)
Read(p) == read_killed(p) \/ read_empty(p) \/ read_ready(p) \/ read_byte(p)
           \/ read_done(p)

\* A step of a call in progress.
InCall(p) == acquire(p) \/ (p \in Writers /\ Write(p)) \/ (p \in Readers /\ Read(p))

Done == freed /\ UNCHANGED vars

Next ==
  \/ \E p \in Procs : InCall(p) \/ fileclose(p) \/ pipeclose(p) \/ kfree(p) \/ kkill(p)
  \/ \E p \in Procs, n \in 0..MaxN : call(p, n)
  \/ Done

Spec == Init /\ [][Next]_vars

-----------------------------------------------------------------------------
(* Properties                                                              *)

\* The bytes in the pipe, oldest first, as the wrapping counters place them.
Held == (nwrite - nread) % WORD
Queue == [k \in 1..Held |-> data[((nread + k - 1) % WORD) % PIPESIZE]]

BQ == INSTANCE ByteQueue WITH
        Capacity <- PIPESIZE, queue <- Queue,
        readable <- readopen, writable <- writeopen

\* The pipe is a queue of PIPESIZE bytes: none lost, repeated, reordered or
\* overwritten, across any number of wraps of nread and nwrite.
ImplementsQueue == BQ!Spec

\* A reader that sleeps has nothing to read and a writer to wait for, unless a
\* writer holding the lock is about to wake it. A killed writer is the one
\* exception: pipewrite() then returns without the wakeup(), and the bytes it
\* stored wait for the next write or the last close.
ReaderNotStranded ==
  \A p \in Readers :
    pc[p] = "asleep" =>
      \/ Empty /\ writeopen
      \/ lock \in Writers
      \/ writeopen /\ \E w \in Writers : killed[w]

\* A writer that sleeps finds the pipe full and open for reading, unless a
\* reader holding the lock is about to wake it.
WriterNotStranded ==
  \A p \in Writers : pc[p] = "asleep" => (Full /\ readopen) \/ lock \in Readers

\* An end is open as long as a process holds it or is still to close it, and
\* only processes that hold an end are in a call.
OpenWhileHeld ==
  /\ readopen <=> holds \cap Readers # {} \/ \E p \in Readers : pc[p] = "close"
  /\ writeopen <=> holds \cap Writers # {} \/ \E p \in Writers : pc[p] = "close"
  /\ \A p \in Procs : pc[p] \in {"enter", "loop", "copy", "asleep"} => p \in holds

\* The page of the pipe is given back once and not before its time, whichever
\* end closes last and however the two pipeclose() interleave with calls on
\* the other end: one process at most calls kfree(pi), when no process holds an end, is in a
\* call or has an end to close; and when all that is over, it has been called.
FreedLast ==
  /\ freed <=> holds = {} /\ \A p \in Procs : pc[p] = "idle"
  /\ \A p \in Procs :
       pc[p] = "free" => holds = {} /\ \A q \in Procs \ {p} : pc[q] = "idle"

\* The three above, and what they rest on: pi->lock is held exactly inside the loops of
\* pipewrite() and piperead(), only readers get to the copy loop, and the
\* wrapping counters are never more than PIPESIZE apart.
PipeInv ==
  /\ TypeOK /\ OpenWhileHeld /\ FreedLast /\ WriterNotStranded
  /\ Held <= PIPESIZE
  /\ \A p \in Procs : pc[p] \in {"loop", "copy"} <=> lock = p
  /\ \A p \in Writers : pc[p] # "copy"
=============================================================================
