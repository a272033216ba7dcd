--------------------------- MODULE ConsoleProofs ---------------------------
(***************************************************************************)
(* Proofs about Console, for any number of CPUs and any size of the        *)
(* buffer: interrupts nest, no sleeper is forgotten, the transmitter is    *)
(* not overrun, and the ring buffer is a queue of edited lines.            *)
(***************************************************************************)
EXTENDS ConsoleSteps, FiniteSetTheorems

USE Zenon

-----------------------------------------------------------------------------
(* The sleepers                                                            *)

\* The transmitter and those who wait for it.
TxAhead == \E x \in Contexts : "tx_done" \in {frame[x].pc, frame[x].next}

WriterInv ==
  /\ fifo \in Nat /\ tx_busy \in BOOLEAN /\ thri \in BOOLEAN
  /\ \A x \in Contexts : frame[x].pc = "tx_chan" => tx_busy
  /\ tx_busy => fifo > 0 \/ thri \/ TxAhead

\* Those who wait for input, or are about to.
ReaderInv == \A x \in Contexts : frame[x].pc \in {"cr_sleep", "cons_r"} => r = w

\* What the running context does not do, no context does: the others are at
\* most woken.
LEMMA MoveAll ==
  ASSUME NestInv, FrameData, NEW x \in Contexts, Kept(x)
  PROVE  /\ NoNewSleeper(frame[x], frame'[x]) =>
              \A y \in Contexts : NoNewSleeper(frame[y], frame'[y])
         /\ SameThr(frame[x], frame'[x]) =>
              \A y \in Contexts : SameThr(frame[y], frame'[y])
         /\ KeepsTx(frame[x], frame'[x]) =>
              \A y \in Contexts : KeepsTx(frame[y], frame'[y])
         /\ \A y \in Contexts : y # x => NoNewSleeper(frame[y], frame'[y])
BY KeptOthers DEF PlainMove, NestInv

\* Whoever was going to wake the writers is still going to.
LEMMA TxStays ==
  ASSUME TxAhead, \A y \in Contexts : KeepsTx(frame[y], frame'[y])
  PROVE  TxAhead'
BY DEF TxAhead, KeepsTx, Contexts

\* Every step keeps the promise to the sleeping writers.
LEMMA WriterNext ==
  ASSUME NestInv, RingNow, WriterInv, [Next]_vars
  PROVE  WriterInv'
<1> USE DEF RingNow
<1>1. fifo \in Nat /\ tx_busy \in BOOLEAN /\ thri \in BOOLEAN
  BY DEF WriterInv
<1>2. ASSUME \A y \in Contexts : NoNewSleeper(frame[y], frame'[y]), tx_busy' = tx_busy
      PROVE  \A y \in Contexts : frame'[y].pc = "tx_chan" => tx_busy'
  BY <1>2 DEF NoNewSleeper, WriterInv
<1>3. ASSUME \A y \in Contexts : NoNewSleeper(frame[y], frame'[y]),
             \A y \in Contexts : KeepsTx(frame[y], frame'[y]),
             UNCHANGED <<tx_busy, fifo, thri>>
      PROVE  WriterInv'
  <2>1. TxAhead => TxAhead'
    BY <1>3, TxStays
  <2> QED
    BY <1>1, <1>2, <1>3, <2>1 DEF WriterInv, Contexts
<1>4. CASE Eventless
  BY <1>3, <1>4 DEF Eventless, PlainMove
<1>5. ASSUME NEW x \in Contexts, uartputc_lsr(x) \/ uartputc_thr(x) PROVE WriterInv'
  <2>1. /\ \A y \in Contexts : NoNewSleeper(frame[y], frame'[y])
        /\ \A y \in Contexts : KeepsTx(frame[y], frame'[y])
    BY <1>5, PutMove, MoveAll
  <2>2. CASE uartputc_lsr(x)
    <3>1. UNCHANGED <<tx_busy, fifo, thri>>
      BY <2>2 DEF uartputc_lsr, uart
    <3> QED
      BY <1>3, <2>1, <3>1
  <2>3. CASE uartputc_thr(x)
    <3>1. tx_busy' = tx_busy /\ fifo' = fifo + 1 /\ thri' = FALSE
      BY <2>3 DEF uartputc_thr
    <3>2. \A y \in Contexts : frame'[y].pc = "tx_chan" => tx_busy'
      BY <1>2, <2>1, <3>1
    <3>3. fifo' \in Nat /\ fifo' > 0
      BY SMTT(30), <1>1, <3>1
    <3> QED
      BY <1>1, <3>1, <3>2, <3>3 DEF WriterInv, Contexts
  <2> QED
    BY <1>5, <2>2, <2>3
<1>6. ASSUME NEW x \in Contexts, uartwrite(x) PROVE WriterInv'
  <2>1. CASE uartwrite_thr(x)
    <3>1. tx_busy' = TRUE /\ fifo' = fifo + 1 /\ thri' = FALSE
      BY <2>1 DEF uartwrite_thr
    <3>2. fifo' \in Nat /\ fifo' > 0
      BY SMTT(30), <1>1, <3>1
    <3> QED
      BY <3>1, <3>2 DEF WriterInv, Contexts
  <2>2. CASE ~uartwrite_thr(x)
    <3>1. tx_busy /\ UNCHANGED <<fifo, thri, tx_busy>>
      BY <1>6, <2>2 DEF uartwrite
    <3>2. \A y \in Contexts : KeepsTx(frame[y], frame'[y])
      BY <1>6, WriteMove, MoveAll
    <3>3. TxAhead => TxAhead'
      BY <3>2, TxStays
    <3> QED
      BY <1>1, <3>1, <3>3 DEF WriterInv, Contexts
  <2> QED
    BY <2>1, <2>2
<1>7. ASSUME NEW x \in Contexts, consoleread_wait(x) \/ consoleread_sleep(x) PROVE WriterInv'
  <2>1. \A y \in Contexts : KeepsTx(frame[y], frame'[y])
    BY <1>7, WaitMove, MoveAll
  <2>2. UNCHANGED <<fifo, thri, tx_busy>>
    BY <1>7 DEF consoleread_wait, consoleread_sleep, uart
  <2>3. \A y \in Contexts : frame'[y].pc = "tx_chan" => frame[y].pc = "tx_chan"
    <3>1. Kept(x) /\ frame'[x].pc # "tx_chan"
      BY <1>7, WaitMove
    <3>2. \A y \in Contexts : y # x => NoNewSleeper(frame[y], frame'[y])
      BY <3>1, MoveAll
    <3> QED
      BY <3>1, <3>2 DEF NoNewSleeper
  <2>4. TxAhead => TxAhead'
    BY <2>1, TxStays
  <2> QED
    BY <1>1, <2>2, <2>3, <2>4 DEF WriterInv, Contexts
<1>8. ASSUME NEW x \in Contexts, consoleread_char(x) \/ consoleread_return(x) \/ consoleintr(x)
      PROVE  WriterInv'
  <2>1. /\ \A y \in Contexts : NoNewSleeper(frame[y], frame'[y])
        /\ \A y \in Contexts : KeepsTx(frame[y], frame'[y])
    BY <1>8, CharMove, ReadReturnMove, EditMove, MoveAll DEF Plain, PlainMove
  <2>2. UNCHANGED <<tx_busy, fifo, thri>>
    BY <1>8 DEF consoleread_char, consoleread_return, consoleintr, uart
  <2> QED
    BY <1>3, <2>1, <2>2
<1>9. ASSUME NEW x \in Contexts, uartintr_tx(x) PROVE WriterInv'
  <2>1. UNCHANGED <<fifo, thri>>
    BY <1>9 DEF uartintr_tx, uart
  <2>2. CASE fifo = 0
    <3>1. tx_busy' = FALSE /\ \A y \in Contexts : frame'[y].pc # "tx_chan"
      BY <1>9, <2>2, TxMove
    <3> QED
      BY <1>1, <2>1, <3>1 DEF WriterInv, Contexts
  <2>3. CASE fifo # 0
    <3>1. tx_busy' = tx_busy /\ \A y \in Contexts : NoNewSleeper(frame[y], frame'[y])
      BY <1>9, <2>3, TxMove, MoveAll
    <3>2. \A y \in Contexts : frame'[y].pc = "tx_chan" => tx_busy'
      BY <1>2, <3>1
    <3> QED
      BY SMTT(30), <1>1, <2>1, <2>3, <3>1, <3>2 DEF WriterInv, Contexts
  <2> QED
    BY <2>2, <2>3
<1>10. ASSUME NEW c \in CPUs, devintr(c) PROVE WriterInv'
  <2>1. <<c, "intr">> \in Contexts /\ thri' = FALSE /\ UNCHANGED <<tx_busy, fifo>>
    BY <1>10 DEF Contexts, devintr
  <2>2. TxAhead'
    BY <1>10, <2>1, EnterPlain DEF TxAhead, Contexts
  <2>3. \A y \in Contexts : NoNewSleeper(frame[y], frame'[y])
    BY <1>10, <2>1, EnterPlain, PlainAll DEF PlainMove
  <2>4. \A y \in Contexts : frame'[y].pc = "tx_chan" => tx_busy'
    BY <1>2, <2>1, <2>3
  <2> QED
    BY <1>1, <2>1, <2>2, <2>4 DEF WriterInv, Contexts
<1>11. CASE uart_send
  <2>1. /\ fifo > 0 /\ fifo' = fifo - 1 /\ thri' = (fifo = 1)
        /\ UNCHANGED <<frame, tx_busy>>
    BY <1>11 DEF uart_send
  <2>2. fifo' \in Nat /\ (fifo' > 0 \/ fifo = 1)
    BY SMTT(30), <1>1, <2>1
  <2>3. thri' \in BOOLEAN /\ (fifo' > 0 \/ thri')
    BY <2>1, <2>2
  <2> QED
    BY <2>1, <2>2, <2>3 DEF WriterInv, Contexts
<1> QED
  BY <1>4, <1>5, <1>6, <1>7, <1>8, <1>9, <1>10, <1>11, StepKinds, ErasedNat

\* cons.lock keeps its holders apart.
LEMMA ConsMutex ==
  ASSUME NestInv, NEW x \in Contexts, NEW y \in Contexts,
         HoldsCons(frame[x]), HoldsCons(frame[y])
  PROVE  x = y
<1>1. PICK c \in CPUs, s \in {"proc", "intr"} : x = <<c, s>>
  BY SMTT(30) DEF Contexts
<1>2. PICK d \in CPUs, t \in {"proc", "intr"} : y = <<d, t>>
  BY SMTT(30) DEF Contexts
<1> DEFINE p == frame[<<c, "proc">>]
           i == frame[<<c, "intr">>]
<1>3. c = d
  <2>1. Nested(c) /\ Nested(d)
    BY DEF NestInv
  <2>2. lk["cons"] = c /\ lk["cons"] = d
    BY <1>1, <1>2, <2>1 DEF Nested, CpuNested
  <2> QED
    BY <2>2
<1>4. ~(HoldsCons(p) /\ HoldsCons(i))
  <2>1. IntrFrame(i) /\ (i.pc # "idle" => Depth(p) = 0)
    BY DEF NestInv, Nested, CpuNested
  <2> HIDE DEF p, i
  <2>2. HoldsCons(p) => Depth(p) # 0
    BY SMTT(30) DEF Depth, One
  <2>3. i.pc = "idle" => ~HoldsCons(i)
    BY <2>1, IdleDepth
  <2> QED
    BY <2>1, <2>2, <2>3
<1> QED
  BY <1>1, <1>2, <1>3, <1>4

\* Every step keeps the promise to the sleeping readers.
LEMMA ReaderNext ==
  ASSUME NestInv, RingNow, ReaderInv, [Next]_vars
  PROVE  ReaderInv'
<1> USE DEF RingNow
<1>1. ASSUME \A y \in Contexts : NoNewSleeper(frame[y], frame'[y]), UNCHANGED <<r, w>>
      PROVE  ReaderInv'
  BY <1>1 DEF ReaderInv, NoNewSleeper, Contexts
<1>2. CASE Eventless
  BY <1>1, <1>2 DEF Eventless, PlainMove
<1>3. ASSUME NEW x \in Contexts,
             uartputc_lsr(x) \/ uartputc_thr(x) \/ consoleread_return(x) \/ uartintr_tx(x)
      PROVE  ReaderInv'
  <2>1. \A y \in Contexts : NoNewSleeper(frame[y], frame'[y])
    BY <1>3, PutMove, ReadReturnMove, TxMove, MoveAll
  <2>2. UNCHANGED <<r, w>>
    BY <1>3 DEF uartputc_lsr, uartputc_thr, consoleread_return, uartintr_tx, cons
  <2> QED
    BY <1>1, <2>1, <2>2
<1>4. ASSUME NEW x \in Contexts, uartwrite(x) PROVE ReaderInv'
  <2>1. Kept(x) /\ frame'[x].pc \in {"uw", "tx_chan"}
    BY <1>4, WriteMove
  <2>2. \A y \in Contexts : y # x => NoNewSleeper(frame[y], frame'[y])
    BY <2>1, MoveAll
  <2>3. UNCHANGED <<r, w>>
    BY <1>4 DEF uartwrite, cons
  <2> QED
    BY <2>1, <2>2, <2>3 DEF ReaderInv, NoNewSleeper, Contexts
<1>5. ASSUME NEW x \in Contexts, consoleread_wait(x) \/ consoleread_sleep(x) PROVE ReaderInv'
  <2>1. r = w
    BY <1>5, WaitMove DEF ReaderInv
  <2>2. UNCHANGED <<r, w>>
    BY <1>5 DEF consoleread_wait, consoleread_sleep, cons
  <2> QED
    BY <2>1, <2>2 DEF ReaderInv
<1>6. ASSUME NEW x \in Contexts, consoleread_char(x) PROVE ReaderInv'
  <2>1. \A y \in Contexts : NoNewSleeper(frame[y], frame'[y])
    BY <1>6, CharMove, MoveAll
  <2>2. r # w
    BY <1>6 DEF consoleread_char
  <2> QED
    BY <2>1, <2>2 DEF ReaderInv, NoNewSleeper, Contexts
<1>7. ASSUME NEW x \in Contexts, consoleintr(x) PROVE ReaderInv'
  <2>1. /\ Plain(x) /\ frame[x].pc = "edit"
        /\ w' = w \/ \A y \in Contexts : frame'[y].pc # "cons_r"
    BY <1>7, EditMove
  <2>2. \A y \in Contexts : NoNewSleeper(frame[y], frame'[y])
    BY <2>1, PlainAll DEF PlainMove
  <2>3. r' = r
    BY <1>7 DEF consoleintr
  <2>4. ASSUME NEW y \in Contexts, frame'[y].pc = "cr_sleep" PROVE FALSE
    <3>1. frame[y].pc = "cr_sleep"
      BY <2>2, <2>4 DEF NoNewSleeper
    <3>2. HoldsCons(frame[x]) /\ HoldsCons(frame[y])
      BY <2>1, <3>1 DEF HoldsCons
    <3>3. x = y
      BY <3>2, ConsMutex
    <3> QED
      BY <2>1, <3>1, <3>3
  <2> QED
    BY <1>1, <2>1, <2>2, <2>3, <2>4 DEF ReaderInv, Contexts
<1>8. ASSUME NEW c \in CPUs, devintr(c) PROVE ReaderInv'
  <2>1. <<c, "intr">> \in Contexts
    BY DEF Contexts
  <2>2. \A y \in Contexts : NoNewSleeper(frame[y], frame'[y])
    BY <1>8, <2>1, EnterPlain, PlainAll DEF PlainMove
  <2> QED
    BY <1>1, <1>8, <2>2 DEF devintr, cons
<1>9. CASE uart_send
  BY <1>9 DEF uart_send, cons, ReaderInv
<1> QED
  BY <1>2, <1>3, <1>4, <1>5, <1>6, <1>7, <1>8, <1>9, StepKinds, ErasedNat

-----------------------------------------------------------------------------
(* The transmitter's FIFO                                                  *)

\* The CPUs that are about to write THR in uartputc_sync().
Senders == {c \in CPUs : \E s \in {"proc", "intr"} : frame[<<c, s>>].pc = "thr"}

\* Each of them still has room, and so has uartwrite() unless it waits.
RoomInv == fifo + Cardinality(Senders) + One(~tx_busy) <= Cardinality(CPUs) + 1

-----------------------------------------------------------------------------
(* The beginning                                                           *)

\* The data of the idle frame is right.
LEMMA IdleData == DataOk("proc", Idle) /\ DataOk("intr", Idle)
<1>1. /\ Idle.pc = "idle" /\ Idle.next = None /\ Idle.ret = None
      /\ Idle.i = 0 /\ Idle.c = None
  BY DEF Idle
<1> QED
  BY SMTT(30), <1>1, NoneApart DEF DataOk, ProcData, Reads, IntrData, HoldsCons

\* The nesting of interrupts holds at the start: every CPU is idle.
LEMMA InitNest == ASSUME Init PROVE NestInv
<1>1. /\ frame = [x \in Contexts |-> Idle] /\ cpu = [c \in CPUs |-> CpuInit]
      /\ lk = [l \in Locks |-> None] /\ plic = None /\ ~panic
  BY DEF Init, SpinlockInit
<1>2. /\ CpuInit \in CpuStates /\ CpuInit.noff = 0 /\ CpuInit.intr
  BY SMTT(30) DEF CpuInit, CpuStates
<1>3. frame \in [Contexts -> Frames] /\ cpu \in [CPUs -> CpuStates]
      /\ lk \in [Locks -> CPUs \cup {None}]
  BY <1>1, <1>2, IdleFrame
<1>4. ASSUME NEW c \in CPUs PROVE Nested(c)
  <2>1. frame[<<c, "proc">>] = Idle /\ frame[<<c, "intr">>] = Idle /\ cpu[c] = CpuInit
    BY <1>1 DEF Contexts
  <2>2. lk["tx"] # c /\ lk["cons"] # c /\ lk["pr"] # c /\ plic # c
    BY <1>1, LockSet, NoneApart
  <2>3. Depth(Idle) = 0 /\ ~HoldsTx(Idle) /\ ~HoldsCons(Idle) /\ ~HoldsPr(Idle)
    BY IdleFrame, IdleDepth
  <2>4. CpuNested(Idle, Idle, CpuInit, lk["tx"] = c, lk["cons"] = c, lk["pr"] = c, plic = c)
    <3> HIDE DEF Idle, CpuInit
    <3> QED
      BY SMTT(30), <1>2, <2>2, <2>3, IdleFrame DEF CpuNested
  <2> QED
    BY <2>1, <2>4 DEF Nested
<1> QED
  BY <1>1, <1>3, <1>4 DEF NestInv

\* The ring holds at the start.
LEMMA InitRing == ASSUME Init PROVE RingNow /\ Held(r, e) = 1
<1>1. FrameData
  <2>1. \A x \in Contexts : frame[x] = Idle /\ x[2] \in {"proc", "intr"}
    BY DEF Init, Contexts
  <2> QED
    BY <2>1, IdleData DEF FrameData, DataOk
<1>2. PICK c \in Ahead : buf = [i \in 0..(SIZE - 1) |-> c]
  BY DEF Init
<1>3. buf \in Buffers /\ rx \in Seq(Chars)
  BY SMTT(30), <1>2 DEF Buffers, Keys, Init
<1>4. r \in Index /\ r = Start /\ e = Next_(r)
  BY ConsoleAssumption DEF Init, Index, Next_
<1>5. Held(r, r) = 0
  BY <1>4, HeldZero
<1>6. e \in Index /\ Held(r, e) = 1
  <2>1. "nl" \in Keys /\ Held(r, r) < SIZE
    BY SMTT(30), <1>5, Sizes DEF Keys
  <2>2. Next_(r) \in Index /\ Held(r, Next_(r)) = Held(r, r) + 1
    BY <1>3, <1>4, <2>1, StoreWindow
  <2> QED
    BY SMTT(30), <1>4, <1>5, <2>2
<1>7. CASE buf[r % SIZE] = "nl"
  <2>1. w = e
    BY <1>4, <1>7 DEF Init
  <2>2. Held(e, e) = 0
    BY <1>6, HeldZero
  <2>3. RingInv
    BY SMTT(30), <1>6, <2>1, <2>2, Sizes DEF RingInv, Ring
  <2> QED
    BY <1>1, <1>3, <1>4, <1>6, <2>1, <2>3 DEF RingNow, DataTypes, Index, Buffers
<1>8. CASE buf[r % SIZE] # "nl"
  <2>1. w = r
    BY <1>4, <1>8 DEF Init
  <2>2. r # e
    BY SMTT(30), <1>4, <1>6, HeldZero
  <2>3. WindowOf(buf, w, e)[1] # "nl"
    BY <1>3, <1>4, <1>6, <1>8, <2>1, <2>2, TakeWindow
  <2>4. RingInv
    BY SMTT(30), <1>5, <1>6, <2>1, <2>3, Sizes DEF RingInv, Ring
  <2> QED
    BY <1>1, <1>3, <1>4, <1>6, <2>1, <2>4 DEF RingNow, DataTypes, Index, Buffers
<1> QED
  BY <1>6, <1>7, <1>8

-----------------------------------------------------------------------------
(* The line discipline                                                     *)

\* What the reads have, as LineDiscipline sees it.
LEMMA SameReads ==
  ASSUME \A y \in Contexts : SameData(y[2], frame[y], frame'[y])
  PROVE  /\ [c \in CPUs |-> frame'[<<c, "proc">>].i] = [c \in CPUs |-> frame[<<c, "proc">>].i]
         /\ [c \in CPUs |-> frame'[<<c, "proc">>].c] = [c \in CPUs |-> frame[<<c, "proc">>].c]
BY DEF SameData, Contexts

\* Only the running process changes how far its read() has come.
LEMMA OneRead ==
  ASSUME NestInv, FrameData, NEW c \in CPUs, Kept(<<c, "proc">>)
  PROVE  LET g == frame'[<<c, "proc">>] IN
         /\ [d \in CPUs |-> frame'[<<d, "proc">>].i] =
              [[d \in CPUs |-> frame[<<d, "proc">>].i] EXCEPT ![c] = g.i]
         /\ [d \in CPUs |-> frame'[<<d, "proc">>].c] =
              [[d \in CPUs |-> frame[<<d, "proc">>].c] EXCEPT ![c] = g.c]
<1>1. ASSUME NEW d \in CPUs, d # c
      PROVE  /\ frame'[<<d, "proc">>].i = frame[<<d, "proc">>].i
             /\ frame'[<<d, "proc">>].c = frame[<<d, "proc">>].c
  <2> DEFINE x == <<c, "proc">>
             y == <<d, "proc">>
  <2>1. x \in Contexts /\ y \in Contexts /\ y # x /\ y[2] = "proc"
    BY <1>1 DEF Contexts
  <2>2. frame \in [Contexts -> Frames]
    BY DEF NestInv
  <2> HIDE DEF x, y
  <2>3. PlainMove(y[2], frame[y], frame'[y])
    BY <2>1, <2>2, KeptOthers DEF x
  <2> QED
    BY <2>1, <2>3 DEF PlainMove, SameData, y
<1> QED
  BY <1>1

\* Nothing that LineDiscipline sees.
LEMMA LineStutter ==
  ASSUME \A y \in Contexts : SameData(y[2], frame[y], frame'[y]), UNCHANGED <<buf, r, w, e>>
  PROVE  UNCHANGED LD!lvars
<1>1. Window(r, w)' = Window(r, w) /\ Window(w, e)' = Window(w, e)
  BY DEF Window
<1> QED
  BY <1>1, SameReads DEF LD!lvars

\* The windows of the current indices, before and after a step.
LEMMA WindowIs ==
  /\ Window(r, w) = WindowOf(buf, r, w) /\ Window(w, e) = WindowOf(buf, w, e)
  /\ Window(r, w)' = WindowOf(buf', r', w') /\ Window(w, e)' = WindowOf(buf', w', e')
BY DEF Window, WindowOf, Held

\* A step that moves the data of one frame of an unchanged ring buffer by
\* nothing that LineDiscipline sees.
LEMMA KeptStutter ==
  ASSUME NestInv, FrameData, NEW x \in Contexts, Kept(x),
         SameData(x[2], frame[x], frame'[x]), UNCHANGED <<buf, r, w, e>>
  PROVE  UNCHANGED LD!lvars
<1>1. \A y \in Contexts : SameData(y[2], frame[y], frame'[y])
  BY KeptOthers DEF PlainMove, NestInv
<1> QED
  BY <1>1, LineStutter

\* consoleread() returning is Return of LineDiscipline.
LEMMA ReturnImplements ==
  ASSUME NestInv, FrameData, NEW x \in Contexts, consoleread_return(x)
  PROVE  LD!LNext
<1>1. /\ Kept(x) /\ x[2] = "proc" /\ frame'[x].i = 0 /\ frame'[x].c = None
  BY ReadReturnMove
<1>2. PICK c \in CPUs : x = <<c, "proc">>
  BY SMTT(30), <1>1 DEF Contexts
<1>3. UNCHANGED <<buf, r, w, e>>
  BY DEF consoleread_return, cons
<1>4. Window(r, w)' = Window(r, w) /\ Window(w, e)' = Window(w, e)
  BY <1>3 DEF Window
<1>5. /\ [d \in CPUs |-> frame'[<<d, "proc">>].i] =
           [[d \in CPUs |-> frame[<<d, "proc">>].i] EXCEPT ![c] = 0]
      /\ [d \in CPUs |-> frame'[<<d, "proc">>].c] =
           [[d \in CPUs |-> frame[<<d, "proc">>].c] EXCEPT ![c] = None]
  BY <1>1, <1>2, OneRead
<1>6. LD!Return(c)
  BY <1>4, <1>5 DEF LD!Return
<1> QED
  BY <1>6 DEF LD!LNext

\* The end of consoleread()'s loop is a step of LineDiscipline: the character
\* at r goes to this read(), ends it, is lost, or stays where it is.
LEMMA CharImplements ==
  ASSUME NestInv, RingNow, NEW x \in Contexts, consoleread_char(x)
  PROVE  [LD!LNext]_(LD!lvars)
<1> USE DEF RingNow
<1> DEFINE ch == buf[r % SIZE]
           f == frame[x]
           g == frame'[x]
<1>1. /\ Kept(x) /\ x[2] = "proc"
      /\ f.c \notin {"nl", "eof", "fault"}
      /\ \/ ch = "eof" /\ f.i # 0 /\ r' = r /\ g.i = f.i /\ g.c = f.c
         \/ ch = "eof" /\ f.i = 0 /\ r' = Next_(r) /\ g.i = f.i /\ g.c = "eof"
         \/ ch # "eof" /\ r' = Next_(r) /\ g.i = f.i + 1 /\ g.c = ch
         \/ ch # "eof" /\ r' = Next_(r) /\ g.i = f.i /\ g.c = "fault"
  BY CharMove
<1>2. PICK c \in CPUs : x = <<c, "proc">>
  BY SMTT(30), <1>1 DEF Contexts
<1>3. UNCHANGED <<buf, w, e>> /\ r # w
  BY CharRing
<1>4. buf \in Buffers /\ r \in Index /\ w \in Index
  BY DEF DataTypes, Index, Buffers
<1>5. /\ Window(r, w) # <<>> /\ Head(Window(r, w)) = ch
      /\ r' = Next_(r) => Window(r, w)' = Tail(Window(r, w))
      /\ Window(w, e)' = Window(w, e)
  <2>1. /\ WindowOf(buf, r, w) # <<>> /\ WindowOf(buf, r, w)[1] = ch
        /\ WindowOf(buf, Next_(r), w) = Tail(WindowOf(buf, r, w))
    BY <1>3, <1>4, TakeWindow
  <2>2. Window(r, w) = WindowOf(buf, r, w) /\ Window(r, w)' = WindowOf(buf', r', w')
    BY WindowIs
  <2>3. Window(w, e)' = Window(w, e)
    BY <1>3, WindowIs
  <2>4. Head(WindowOf(buf, r, w)) = WindowOf(buf, r, w)[1]
    BY SMTT(30)
  <2> QED
    BY <1>3, <2>1, <2>2, <2>3, <2>4
<1>6. /\ [d \in CPUs |-> frame'[<<d, "proc">>].i] =
           [[d \in CPUs |-> frame[<<d, "proc">>].i] EXCEPT ![c] = g.i]
      /\ [d \in CPUs |-> frame'[<<d, "proc">>].c] =
           [[d \in CPUs |-> frame[<<d, "proc">>].c] EXCEPT ![c] = g.c]
  BY <1>1, <1>2, OneRead
<1>7. /\ [d \in CPUs |-> frame[<<d, "proc">>].i][c] = f.i
      /\ [d \in CPUs |-> frame[<<d, "proc">>].c][c] = f.c
  BY <1>2
<1>8. g.i = f.i => [d \in CPUs |-> frame'[<<d, "proc">>].i] = [d \in CPUs |-> frame[<<d, "proc">>].i]
  BY <1>6, <1>7
<1>9. ~LD!Ended(c)
  BY <1>1, <1>7 DEF LD!Ended
<1> HIDE DEF ch, f, g
<1>10. CASE ch = "eof" /\ f.i # 0 /\ r' = r /\ g.i = f.i /\ g.c = f.c
  <2>1. SameData(x[2], frame[x], frame'[x])
    BY <1>10 DEF SameData, f, g
  <2> QED
    BY <1>1, <1>3, <1>10, <2>1, KeptStutter
<1>11. CASE ch = "eof" /\ f.i = 0 /\ r' = Next_(r) /\ g.i = f.i /\ g.c = "eof"
  <2>1. LD!GetEof(c)
    BY <1>5, <1>6, <1>7, <1>8, <1>9, <1>11 DEF LD!GetEof
  <2> QED
    BY <2>1 DEF LD!LNext
<1>12. CASE ch # "eof" /\ r' = Next_(r) /\ g.i = f.i + 1 /\ g.c = ch
  <2>1. LD!Get(c)
    BY <1>5, <1>6, <1>7, <1>9, <1>12 DEF LD!Get
  <2> QED
    BY <2>1 DEF LD!LNext
<1>13. CASE ch # "eof" /\ r' = Next_(r) /\ g.i = f.i /\ g.c = "fault"
  <2>1. LD!Fault(c)
    BY <1>5, <1>6, <1>8, <1>9, <1>13 DEF LD!Fault
  <2> QED
    BY <2>1 DEF LD!LNext
<1> QED
  BY <1>1, <1>10, <1>11, <1>12, <1>13 DEF ch, f, g

\* consoleintr() with one character is a step of LineDiscipline: it is kept
\* in the line or joins it to the input, erases, kills the line, or is nothing.
LEMMA EditImplements ==
  ASSUME NestInv, RingNow, NEW x \in Contexts, consoleintr(x)
  PROVE  [LD!LNext]_(LD!lvars)
<1> USE DEF RingNow
<1> DEFINE q == Window(r, w)
           s == Window(w, e)
           q1 == Window(r, w)'
           s1 == Window(w, e)'
<1>1. Edits(q, s, q1, s1)
  BY EditRing, WindowIs
<1>2. Plain(x)
  BY EditMove
<1>3. /\ [c \in CPUs |-> frame'[<<c, "proc">>].i] = [c \in CPUs |-> frame[<<c, "proc">>].i]
      /\ [c \in CPUs |-> frame'[<<c, "proc">>].c] = [c \in CPUs |-> frame[<<c, "proc">>].c]
  <2>1. \A y \in Contexts : SameData(y[2], frame[y], frame'[y])
    BY <1>2, PlainAll DEF PlainMove
  <2> QED
    BY <2>1, SameReads
<1>4. CASE q1 = q /\ s1 = s
  BY <1>3, <1>4 DEF LD!lvars
<1>5. CASE q1 = q /\ s1 = <<>>
  <2>1. LD!KillLine
    BY <1>3, <1>5 DEF LD!KillLine
  <2> QED
    BY <2>1 DEF LD!LNext
<1>6. CASE s # <<>> /\ q1 = q /\ s1 = SubSeq(s, 1, Len(s) - 1)
  <2>1. LD!Erase
    BY <1>3, <1>6 DEF LD!Erase
  <2> QED
    BY <2>1 DEF LD!LNext
<1>7. ASSUME Len(q) + Len(s) < SIZE, NEW c \in Chars,
             LET new == Append(s, KeyOf(c)) IN
             IF KeyOf(c) \in {"nl", "eof"} \/ Len(q) + Len(s) + 1 = SIZE
             THEN q1 = q \o new /\ s1 = <<>>
             ELSE q1 = q /\ s1 = new
      PROVE  LD!LNext
  <2>1. LD!Key(c) = KeyOf(c)
    BY DEF LD!Key, KeyOf
  <2>2. LD!Type(c)
    BY <1>3, <1>7, <2>1 DEF LD!Type
  <2> QED
    BY <2>2 DEF LD!LNext
<1> HIDE DEF q, s, q1, s1
<1> QED
  BY <1>1, <1>4, <1>5, <1>6, <1>7 DEF Edits

\* Every step of the console is a step of the line discipline, or none.
LEMMA StepImplements ==
  ASSUME NestInv, RingNow, [Next]_vars
  PROVE  [LD!LNext]_(LD!lvars)
<1> USE DEF RingNow
<1>1. CASE Eventless
  BY <1>1, LineStutter DEF Eventless, PlainMove
<1>2. ASSUME NEW x \in Contexts,
             \/ uartputc_lsr(x) \/ uartputc_thr(x) \/ uartwrite(x)
             \/ consoleread_wait(x) \/ consoleread_sleep(x) \/ uartintr_tx(x)
      PROVE  UNCHANGED LD!lvars
  <2>1. Kept(x) /\ SameData(x[2], frame[x], frame'[x])
    BY <1>2, PutMove, WriteMove, WaitMove, TxMove
  <2>2. UNCHANGED <<buf, r, w, e>>
    BY <1>2 DEF uartputc_lsr, uartputc_thr, uartwrite, consoleread_wait, consoleread_sleep,
                uartintr_tx, cons
  <2> QED
    BY <2>1, <2>2, KeptStutter
<1>3. ASSUME NEW c \in CPUs, devintr(c) PROVE UNCHANGED LD!lvars
  <2>1. <<c, "intr">> \in Contexts
    BY DEF Contexts
  <2>2. \A y \in Contexts : SameData(y[2], frame[y], frame'[y])
    BY <1>3, <2>1, EnterPlain, PlainAll DEF PlainMove
  <2> QED
    BY <1>3, <2>2, LineStutter DEF devintr, cons
<1>4. CASE uart_send
  <2>1. UNCHANGED <<frame, buf, r, w, e>>
    BY <1>4 DEF uart_send, cons
  <2>2. \A y \in Contexts : SameData(y[2], frame[y], frame'[y])
    BY <2>1 DEF SameData
  <2> QED
    BY <2>1, <2>2, LineStutter
<1> QED
  BY <1>1, <1>2, <1>3, <1>4, ReturnImplements, CharImplements, EditImplements, StepKinds, ErasedNat

\* The console starts as the line discipline does.
LEMMA InitImplements == ASSUME Init PROVE LD!LInit
<1>1. RingNow /\ Held(r, e) = 1
  BY InitRing
<1>2. buf \in Buffers /\ r \in Index /\ w \in Index /\ e \in Index
  BY <1>1 DEF RingNow, DataTypes, Index, Buffers
<1>3. Len(Window(r, w)) = Held(r, w) /\ Len(Window(w, e)) = Held(w, e)
  BY SMTT(30), <1>2, WindowSeq, WindowIs
<1>4. Held(r, w) + Held(w, e) = 1
  BY <1>1, <1>2, RingSplit DEF RingNow, RingInv
<1>5. \A c \in CPUs : frame[<<c, "proc">>].i = 0 /\ frame[<<c, "proc">>].c = None
  BY DEF Init, Contexts, Idle
<1>6. 1 < SIZE
  BY SMTT(30), Sizes
<1> QED
  BY <1>3, <1>4, <1>5, <1>6 DEF LD!LInit

-----------------------------------------------------------------------------
(* Room in the transmitter, and how deep interrupts nest                   *)

\* A set of CPUs is finite and no larger than the set of all.
LEMMA CpuSubset ==
  ASSUME NEW S \in SUBSET CPUs
  PROVE  /\ IsFiniteSet(S) /\ Cardinality(S) \in Nat /\ Cardinality(CPUs) \in Nat
         /\ Cardinality(S) <= Cardinality(CPUs)
BY SMTT(30), ConsoleAssumption, FS_Subset, FS_CardinalityType

\* The CPUs that are about to send are the same when no context comes to THR
\* or leaves it.
LEMMA SameSenders ==
  ASSUME \A y \in Contexts : SameThr(frame[y], frame'[y])
  PROVE  Senders' = Senders
BY DEF SameThr, Senders, Contexts

\* A CPU writes THR in one of its contexts at most.
LEMMA SenderOnce ==
  ASSUME NestInv, NEW c \in CPUs, frame[<<c, "intr">>].pc = "thr"
  PROVE  frame[<<c, "proc">>].pc # "thr"
<1> DEFINE p == frame[<<c, "proc">>]
<1>1. Depth(p) = 0
  BY DEF NestInv, Nested, CpuNested
<1> HIDE DEF p
<1>2. p.pc # "thr"
  BY SMTT(30), <1>1 DEF Depth, One
<1> QED
  BY <1>2 DEF p

\* Every step keeps the bound on what is written to the transmitter.
LEMMA RoomNext ==
  ASSUME NestInv, RingNow, WriterInv, RoomInv, [Next]_vars
  PROVE  RoomInv'
<1> USE DEF RingNow
<1> DEFINE n == Cardinality(CPUs)
           m == Cardinality(Senders)
           m1 == Cardinality(Senders')
<1>1. /\ fifo \in Nat /\ m \in Nat /\ m <= n /\ m1 \in Nat /\ m1 <= n /\ n \in Nat
      /\ IsFiniteSet(Senders)
  <2>1. Senders \subseteq CPUs /\ Senders' \subseteq CPUs
    BY DEF Senders
  <2> QED
    BY <2>1, CpuSubset DEF WriterInv
<1>2. fifo + m + One(~tx_busy) <= n + 1
  BY SMTT(30) DEF RoomInv
<1>3. One(~tx_busy) \in 0..1 /\ One(~tx_busy') \in 0..1
  BY SMTT(30) DEF One
<1>4. RoomInv' <=> fifo' + m1 + One(~tx_busy') <= n + 1
  BY SMTT(30) DEF RoomInv
<1>5. ASSUME \A y \in Contexts : SameThr(frame[y], frame'[y]) PROVE m1 = m
  BY <1>5, SameSenders
<1>6. ASSUME \A y \in Contexts : SameThr(frame[y], frame'[y]), UNCHANGED <<fifo, tx_busy>>
      PROVE  RoomInv'
  BY <1>2, <1>4, <1>5, <1>6
<1>7. CASE Eventless
  BY <1>6, <1>7 DEF Eventless, PlainMove
<1>8. ASSUME NEW x \in Contexts,
             \/ consoleread_wait(x) \/ consoleread_sleep(x)
             \/ consoleread_char(x) \/ consoleread_return(x) \/ consoleintr(x)
      PROVE  RoomInv'
  <2>1. \A y \in Contexts : SameThr(frame[y], frame'[y])
    BY <1>8, WaitMove, CharMove, ReadReturnMove, EditMove, MoveAll DEF Plain, PlainMove
  <2>2. UNCHANGED <<fifo, tx_busy>>
    BY <1>8 DEF consoleread_wait, consoleread_sleep, consoleread_char, consoleread_return,
                consoleintr, uart
  <2> QED
    BY <1>6, <2>1, <2>2
<1>9. ASSUME NEW x \in Contexts, uartputc_lsr(x) PROVE RoomInv'
  <2>1. fifo' = 0
    BY <1>9 DEF uartputc_lsr, uart
  <2> HIDE DEF n, m, m1
  <2> QED
    BY SMTT(30), <1>1, <1>3, <1>4, <2>1
<1>10. ASSUME NEW x \in Contexts, uartputc_thr(x) PROVE RoomInv'
  <2>1. PICK c \in CPUs, s \in {"proc", "intr"} : x = <<c, s>>
    BY SMTT(30) DEF Contexts
  <2>2. Kept(x) /\ frame[x].pc = "thr" /\ frame'[x].pc # "thr"
    BY <1>10, PutMove
  <2>3. c \in Senders
    BY <2>1, <2>2 DEF Senders
  <2>4. \A y \in Contexts : y # x => SameThr(frame[y], frame'[y])
    BY <2>2, KeptOthers DEF PlainMove, NestInv
  <2>5. \A t \in {"proc", "intr"} : t # s => frame[<<c, t>>].pc # "thr"
    BY <2>1, <2>2, SenderOnce
  <2>6. Senders' = Senders \ {c}
    <3>1. c \notin Senders'
      BY <2>1, <2>2, <2>4, <2>5 DEF Senders, SameThr, Contexts
    <3>2. \A d \in CPUs : d # c => (d \in Senders' <=> d \in Senders)
      BY <2>1, <2>4 DEF Senders, SameThr, Contexts
    <3> QED
      BY <3>1, <3>2 DEF Senders
  <2>7. m1 = m - 1
    BY <1>1, <2>3, <2>6, FS_RemoveElement
  <2>8. fifo' = fifo + 1 /\ tx_busy' = tx_busy
    BY <1>10 DEF uartputc_thr
  <2> HIDE DEF n, m, m1
  <2> QED
    BY SMTT(30), <1>1, <1>2, <1>3, <1>4, <2>7, <2>8
<1>11. ASSUME NEW x \in Contexts, uartwrite(x) PROVE RoomInv'
  <2>1. \A y \in Contexts : SameThr(frame[y], frame'[y])
    BY <1>11, WriteMove, MoveAll
  <2>2. CASE uartwrite_thr(x)
    <3>1. fifo' = fifo + 1 /\ ~tx_busy /\ tx_busy'
      BY <2>2 DEF uartwrite_thr
    <3>2. One(~tx_busy) = 1 /\ One(~tx_busy') = 0
      BY <3>1 DEF One
    <3>3. m1 = m
      BY <1>5, <2>1
    <3> HIDE DEF n, m, m1
    <3> QED
      BY SMTT(30), <1>1, <1>2, <1>4, <3>1, <3>2, <3>3
  <2>3. CASE ~uartwrite_thr(x)
    <3>1. UNCHANGED <<fifo, tx_busy>>
      BY <1>11, <2>3 DEF uartwrite
    <3> QED
      BY <1>6, <2>1, <3>1
  <2> QED
    BY <2>2, <2>3
<1>12. ASSUME NEW x \in Contexts, uartintr_tx(x) PROVE RoomInv'
  <2>1. fifo' = fifo
    BY <1>12 DEF uartintr_tx, uart
  <2>2. CASE fifo = 0
    <3> HIDE DEF n, m, m1
    <3> QED
      BY SMTT(30), <1>1, <1>3, <1>4, <2>1, <2>2
  <2>3. CASE fifo # 0
    <3>1. tx_busy' = tx_busy /\ \A y \in Contexts : SameThr(frame[y], frame'[y])
      BY <1>12, <2>3, TxMove, MoveAll
    <3> QED
      BY <1>6, <2>1, <3>1
  <2> QED
    BY <2>2, <2>3
<1>13. ASSUME NEW c \in CPUs, devintr(c) PROVE RoomInv'
  <2>1. <<c, "intr">> \in Contexts
    BY DEF Contexts
  <2>2. \A y \in Contexts : SameThr(frame[y], frame'[y])
    BY <1>13, <2>1, EnterPlain, PlainAll DEF PlainMove
  <2> QED
    BY <1>6, <1>13, <2>2 DEF devintr
<1>14. CASE uart_send
  <2>1. fifo > 0 /\ fifo' = fifo - 1 /\ UNCHANGED <<frame, tx_busy>>
    BY <1>14 DEF uart_send
  <2>2. m1 = m
    BY <2>1 DEF Senders
  <2> HIDE DEF n, m, m1
  <2> QED
    BY SMTT(30), <1>1, <1>2, <1>3, <1>4, <2>1, <2>2
<1> QED
  BY <1>7, <1>8, <1>9, <1>10, <1>11, <1>12, <1>13, <1>14, StepKinds, ErasedNat

-----------------------------------------------------------------------------
(* The inductive invariant                                                 *)

IInv == NestInv /\ RingNow /\ WriterInv /\ ReaderInv /\ RoomInv

\* The inductive invariant holds at the start.
LEMMA InitInv == ASSUME Init PROVE IInv
<1>1. \A x \in Contexts : frame[x].pc = "idle"
  BY DEF Init, Idle
<1>2. fifo = 0 /\ tx_busy = FALSE /\ thri = TRUE
  BY DEF Init
<1>3. WriterInv /\ ReaderInv
  BY <1>1, <1>2 DEF WriterInv, ReaderInv
<1>4. RoomInv
  <2>1. Senders = {}
    BY SMTT(30), <1>1 DEF Senders, Contexts
  <2>2. Cardinality(Senders) = 0 /\ Cardinality(CPUs) \in Nat
    BY <2>1, FS_EmptySet, CpuSubset
  <2>3. One(~tx_busy) = 1
    BY <1>2 DEF One
  <2> QED
    BY SMTT(30), <1>2, <2>2, <2>3 DEF RoomInv
<1> QED
  BY <1>3, <1>4, InitNest, InitRing DEF IInv

\* What is used of IInv holds in every behaviour.
THEOREM ConsoleInductive == Spec => []IInv
<1>1. Init => IInv
  BY InitInv
<1>2. IInv /\ [Next]_vars => IInv'
  <2> SUFFICES ASSUME IInv, [Next]_vars PROVE IInv'
    OBVIOUS
  <2>1. NestInv' /\ RingNow' /\ WriterInv' /\ ReaderInv' /\ RoomInv'
    BY NestNext, ErasedNat, RingNext, WriterNext, ReaderNext, RoomNext DEF IInv, RingNow
  <2> QED
    BY <2>1 DEF IInv
<1> QED
  BY <1>1, <1>2, PTL DEF Spec

\* A set with one more element or with the same.
LEMMA AddOne ==
  ASSUME NEW S, IsFiniteSet(S), NEW y, y \notin S, NEW T, T = S \/ T = S \cup {y}
  PROVE  IsFiniteSet(T) /\ Cardinality(T) = Cardinality(S) + One(y \in T)
<1>0. Cardinality(S) \in Nat
  BY FS_CardinalityType
<1>1. CASE T = S
  BY SMTT(30), <1>0, <1>1 DEF One
<1>2. CASE T = S \cup {y}
  <2>1. IsFiniteSet(T) /\ Cardinality(T) = Cardinality(S) + 1
    BY <1>2, FS_AddElement
  <2> QED
    BY <1>2, <2>1 DEF One
<1> QED
  BY <1>1, <1>2

\* The empty set has no member to count.
LEMMA EmptyCount == IsFiniteSet({}) /\ Cardinality({}) = 0
BY FS_EmptySet

\* The nesting, counted out.
LEMMA NestingCount ==
  ASSUME NEW c
  PROVE  Nesting(c) =
           One(lk["tx"] = c) + One(lk["cons"] = c) + One(lk["pr"] = c)
           + One(frame[<<c, "proc">>].pc \in {"spin", "thr"})
           + One(frame[<<c, "intr">>].pc \in {"spin", "thr"})
<1> DEFINE L == {l \in Locks : lk[l] = c}
           L1 == {l \in {"tx"} : lk[l] = c}
           L2 == {l \in {"tx", "cons"} : lk[l] = c}
           X == {x \in {c} \X {"proc", "intr"} : frame[x].pc \in {"spin", "thr"}}
           X1 == {x \in {<<c, "proc">>} : frame[x].pc \in {"spin", "thr"}}
<1>1. IsFiniteSet(L1) /\ Cardinality(L1) = 0 + One("tx" \in L1)
  <2>1. L1 = {} \/ L1 = {} \cup {"tx"}
    OBVIOUS
  <2> HIDE DEF L1
  <2> QED
    BY SMTT(30), <2>1, AddOne, EmptyCount
<1>2. IsFiniteSet(L2) /\ Cardinality(L2) = Cardinality(L1) + One("cons" \in L2)
  <2>1. (L2 = L1 \/ L2 = L1 \cup {"cons"}) /\ "cons" \notin L1
    OBVIOUS
  <2> HIDE DEF L1, L2
  <2> QED
    BY SMTT(30), <1>1, <2>1, AddOne
<1>3. Cardinality(L) = Cardinality(L2) + One("pr" \in L)
  <2>1. (L = L2 \/ L = L2 \cup {"pr"}) /\ "pr" \notin L2
    BY LockSet
  <2> HIDE DEF L, L2
  <2> QED
    BY SMTT(30), <1>2, <2>1, AddOne
<1>4. IsFiniteSet(X1) /\ Cardinality(X1) = 0 + One(<<c, "proc">> \in X1)
  <2>1. X1 = {} \/ X1 = {} \cup {<<c, "proc">>}
    OBVIOUS
  <2> HIDE DEF X1
  <2> QED
    BY SMTT(30), <2>1, AddOne, EmptyCount
<1>5. Cardinality(X) = Cardinality(X1) + One(<<c, "intr">> \in X)
  <2>1. (X = X1 \/ X = X1 \cup {<<c, "intr">>}) /\ <<c, "intr">> \notin X1
    BY SMTT(30)
  <2> HIDE DEF X, X1
  <2> QED
    BY SMTT(30), <1>4, <2>1, AddOne
<1>6. /\ ("tx" \in L1) = (lk["tx"] = c) /\ ("cons" \in L2) = (lk["cons"] = c)
      /\ ("pr" \in L) = (lk["pr"] = c)
  BY SMTT(30), LockSet
<1>7. /\ (<<c, "proc">> \in X1) = (frame[<<c, "proc">>].pc \in {"spin", "thr"})
      /\ (<<c, "intr">> \in X) = (frame[<<c, "intr">>].pc \in {"spin", "thr"})
  BY SMTT(30)
<1>8. Nesting(c) = Cardinality(L) + Cardinality(X)
  BY SMTT(30) DEF Nesting
<1> HIDE DEF L, L1, L2, X, X1
<1>9. /\ One("tx" \in L1) = One(lk["tx"] = c) /\ One("cons" \in L2) = One(lk["cons"] = c)
      /\ One("pr" \in L) = One(lk["pr"] = c)
      /\ One(<<c, "proc">> \in X1) = One(frame[<<c, "proc">>].pc \in {"spin", "thr"})
      /\ One(<<c, "intr">> \in X) = One(frame[<<c, "intr">>].pc \in {"spin", "thr"})
  BY <1>6, <1>7 DEF One
<1> QED
  BY SMTT(30), <1>1, <1>2, <1>3, <1>4, <1>5, <1>8, <1>9 DEF One

\* A CPU's contexts hold what the CPU holds, one of them at a time.
LEMMA NestingDepth ==
  ASSUME NestInv, NEW c \in CPUs
  PROVE  cpu[c].noff = Nesting(c)
<1> DEFINE p == frame[<<c, "proc">>]
           i == frame[<<c, "intr">>]
           tx == lk["tx"] = c
           co == lk["cons"] = c
           pr == lk["pr"] = c
<1>1. CpuNested(p, i, cpu[c], tx, co, pr, plic = c)
  BY DEF NestInv, Nested
<1>2. Nesting(c) = One(tx) + One(co) + One(pr)
                   + One(p.pc \in {"spin", "thr"}) + One(i.pc \in {"spin", "thr"})
  BY NestingCount
<1> HIDE DEF p, i, tx, co, pr
<1>3. CASE i.pc = "idle"
  <2>1. Depth(i) = 0 /\ ~HoldsTx(i) /\ ~HoldsCons(i) /\ ~HoldsPr(i)
    BY <1>1, <1>3, IdleDepth DEF CpuNested
  <2>2. /\ (tx <=> HoldsTx(p)) /\ (co <=> HoldsCons(p)) /\ (pr <=> HoldsPr(p))
        /\ cpu[c].noff = Depth(p) + 0
    BY <1>1, <2>1 DEF CpuNested
  <2>3. /\ One(tx) = One(HoldsTx(p)) /\ One(co) = One(HoldsCons(p)) /\ One(pr) = One(HoldsPr(p))
        /\ One(i.pc \in {"spin", "thr"}) = 0
    BY <1>3, <2>2 DEF One
  <2>4. Depth(p) = One(tx) + One(co) + One(pr) + One(p.pc \in {"spin", "thr"}) /\ Depth(p) \in Nat
    BY <2>3, DepthNat DEF Depth
  <2> QED
    BY <1>2, <2>2, <2>3, <2>4 DEF One
<1>4. CASE i.pc # "idle"
  <2>1. Depth(p) = 0
    BY <1>1, <1>4 DEF CpuNested
  <2>2. ~HoldsTx(p) /\ ~HoldsCons(p) /\ ~HoldsPr(p) /\ p.pc \notin {"spin", "thr"}
    BY SMTT(30), <2>1 DEF Depth, One
  <2>3. /\ (tx <=> HoldsTx(i)) /\ (co <=> HoldsCons(i)) /\ (pr <=> HoldsPr(i))
        /\ cpu[c].noff = 0 + Depth(i)
    BY <1>1, <2>1, <2>2 DEF CpuNested
  <2>4. /\ One(tx) = One(HoldsTx(i)) /\ One(co) = One(HoldsCons(i)) /\ One(pr) = One(HoldsPr(i))
        /\ One(p.pc \in {"spin", "thr"}) = 0
    BY <2>2, <2>3 DEF One
  <2>5. Depth(i) = One(tx) + One(co) + One(pr) + One(i.pc \in {"spin", "thr"}) /\ Depth(i) \in Nat
    BY <2>4, DepthNat DEF Depth
  <2> QED
    BY SMTT(30), <1>2, <2>3, <2>4, <2>5 DEF One
<1> QED
  BY <1>3, <1>4

\* push_off() and pop_off() nest on every CPU, through system calls, the
\* handler and whatever either waits for: acquire(), release() and pop_off()
\* do not panic, and interrupts are on exactly when nothing keeps them off.
THEOREM InterruptsNesting == Spec => []InterruptsNest
<1>1. IInv => InterruptsNest
  <2> SUFFICES ASSUME IInv PROVE InterruptsNest
    OBVIOUS
  <2>1. NestInv
    BY DEF IInv
  <2>2. ASSUME NEW c \in CPUs
        PROVE  LET handler == frame[<<c, "intr">>].pc # "idle" IN
               /\ handler = (plic = c)
               /\ cpu[c].noff = Nesting(c)
               /\ cpu[c].intr = (~handler /\ Nesting(c) = 0)
    <3> DEFINE i == frame[<<c, "intr">>]
               k == cpu[c]
    <3>1. /\ plic = c <=> i.pc # "idle"
          /\ k.intr <=> (i.pc = "idle" /\ k.noff = 0)
          /\ k \in CpuStates
      BY <2>1 DEF NestInv, Nested, CpuNested
    <3>2. k.noff = Nesting(c)
      BY <2>1, NestingDepth
    <3>3. k.intr \in BOOLEAN
      BY <3>1 DEF CpuStates
    <3> HIDE DEF i, k
    <3>4. k.intr = (i.pc = "idle" /\ Nesting(c) = 0)
      BY <3>1, <3>2, <3>3
    <3> QED
      BY <3>1, <3>2, <3>4 DEF i, k
  <2> QED
    BY <2>1, <2>2 DEF InterruptsNest, NestInv
<1> QED
  BY <1>1, ConsoleInductive, PTL

\* A writer asleep on tx_chan has an interrupt ahead that will find the
\* transmitter idle, and a reader asleep on cons.r has nothing to read.
THEOREM NobodyStranded == Spec => []NotStranded
<1>1. IInv => NotStranded
  BY DEF IInv, WriterInv, ReaderInv, TxAhead, NotStranded
<1> QED
  BY <1>1, ConsoleInductive, PTL

\* The indices of cons stay in order and at most INPUT_BUF_SIZE apart through
\* the wrap of uint, and the transmitter never has more than one character
\* of each CPU and one of uartwrite().
THEOREM ConsoleInvariant == Spec => []ConsoleInv
<1>1. IInv => ConsoleInv
  <2> SUFFICES ASSUME IInv PROVE ConsoleInv
    OBVIOUS
  <2>1. FifoFits
    <3> DEFINE m == Cardinality(Senders)
               n == Cardinality(CPUs)
    <3>1. m \in Nat /\ n \in Nat
      BY CpuSubset DEF Senders
    <3>2. fifo + m + One(~tx_busy) <= n + 1 /\ fifo \in Nat
      BY SMTT(30) DEF IInv, RoomInv, WriterInv
    <3>3. One(~tx_busy) \in 0..1
      BY SMTT(30) DEF One
    <3> HIDE DEF m, n
    <3>4. fifo <= n + 1
      BY SMTT(30), <3>1, <3>2, <3>3
    <3> QED
      BY SMTT(30), <3>4 DEF FifoFits, n
  <2>2. /\ r \in 0..(WORD - 1) /\ w \in 0..(WORD - 1) /\ e \in 0..(WORD - 1)
        /\ plic \in CPUs \cup {None} /\ tx_busy \in BOOLEAN
    BY DEF IInv, RingNow, DataTypes, NestInv, WriterInv
  <2>3. Held(r, w) <= Held(r, e) /\ Held(r, e) <= SIZE
    BY DEF IInv, RingNow, RingInv, Ring
  <2> QED
    BY <2>1, <2>2, <2>3 DEF ConsoleInv
<1> QED
  BY <1>1, ConsoleInductive, PTL


\* The ring buffer with its three wrapping indices, edited by handlers on one
\* CPU while readers on others take from it, is the line discipline: input is
\* edited as a line, is delivered in lines, and each character of it goes to
\* one read(), in order.
THEOREM ConsoleImplementsLineDiscipline == Spec => ImplementsLineDiscipline
<1>1. Init => LD!LInit
  BY InitImplements
<1>2. IInv /\ [Next]_vars => [LD!LNext]_(LD!lvars)
  BY StepImplements DEF IInv
<1> QED
  BY <1>1, <1>2, ConsoleInductive, PTL DEF Spec, ImplementsLineDiscipline, LD!LSpec
=============================================================================
