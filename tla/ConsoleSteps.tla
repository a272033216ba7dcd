--------------------------- MODULE ConsoleSteps ---------------------------
(***************************************************************************)
(* What the proofs of ConsoleProofs rest on, for any number of CPUs: how   *)
(* locks and push_off()s nest in the contexts of a CPU, what every step    *)
(* does to the frames, and how the indices of the ring buffer stay in      *)
(* order.                                                                  *)
(***************************************************************************)
EXTENDS Console, TLAPS

USE Zenon

Keys == Chars \cup Ahead \cup {"nl"}

Codes == Keys \cup {"eof", "fault", None}

Frames == [pc : Places, lock : Locks \cup {None}, next : Places \cup {None},
           ret : Places \cup {None}, n : Int, i : Int, c : Codes, k : Int]

\* What acquire() and uartputc_sync() in progress go on to, in a system call
\* and in the interrupt handler.
NoReturn(f) == f.lock = None /\ f.next = None /\ f.ret = None

ProcFrame(f) ==
  /\ f \in Frames
  /\ \/ /\ f.pc \in {"idle", "pf_return", "uw", "tx_chan", "tx_woken", "cw_next", "cr",
                     "cr_sleep", "cr_return", "cons_r", "cons_woken"}
        /\ NoReturn(f)
     \/ f.pc \in {"lsr", "thr"} /\ f.lock = None /\ f.next = None /\ f.ret = "pf_return"
     \/ f.pc = "spin" /\ f.lock = "pr" /\ f.next = "lsr" /\ f.ret = "pf_return"
     \/ f.pc = "spin" /\ f.lock = "tx" /\ f.next = "uw" /\ f.ret = None
     \/ f.pc = "spin" /\ f.lock = "cons" /\ f.next = "cr" /\ f.ret = None

IntrFrame(f) ==
  /\ f \in Frames
  /\ \/ /\ f.pc \in {"idle", "tx_done", "getc", "echo", "edit", "dump_end", "complete"}
        /\ NoReturn(f)
     \/ f.pc \in {"lsr", "thr"} /\ f.lock = None /\ f.next = None /\ f.ret \in {"edit", "dump_end"}
     \/ f.pc = "spin" /\ f.lock = "pr" /\ f.next = "lsr" /\ f.ret = "dump_end"
     \/ f.pc = "spin" /\ f.lock = "tx" /\ f.next = "tx_done" /\ f.ret = None
     \/ f.pc = "spin" /\ f.lock = "cons" /\ f.next = "echo" /\ f.ret = None

\* The locks that a context holds, from where it is.
HoldsTx(f) == f.pc \in {"uw", "tx_done"}

HoldsCons(f) ==
  \/ f.pc \in {"cr", "cr_sleep", "cr_return", "echo", "edit", "dump_end"}
  \/ f.ret \in {"edit", "dump_end"}

HoldsPr(f) == f.pc \in {"pf_return", "dump_end"} \/ (f.pc \in {"lsr", "thr"} /\ f.ret # "edit")

One(b) == IF b THEN 1 ELSE 0

\* The push_off()s of a context that are not yet undone.
Depth(f) ==
  One(HoldsTx(f)) + One(HoldsCons(f)) + One(HoldsPr(f)) + One(f.pc \in {"spin", "thr"})

CpuStates == [intr : BOOLEAN, noff : Int, intena : BOOLEAN]

\* A CPU in state k whose process and handler are at p and i, and which holds
\* tx_lock, cons.lock and pr.lock and the UART's interrupt if the last four say so.
CpuNested(p, i, k, tx, co, pr, claim) ==
  /\ ProcFrame(p) /\ IntrFrame(i)
  /\ k \in CpuStates
  /\ i.pc # "idle" => Depth(p) = 0
  /\ k.noff = Depth(p) + Depth(i)
  /\ k.intr <=> (i.pc = "idle" /\ k.noff = 0)
  /\ k.noff > 0 => (k.intena <=> i.pc = "idle")
  /\ tx <=> HoldsTx(p) \/ HoldsTx(i)
  /\ co <=> HoldsCons(p) \/ HoldsCons(i)
  /\ pr <=> HoldsPr(p) \/ HoldsPr(i)
  /\ claim <=> i.pc # "idle"

Nested(c) ==
  CpuNested(frame[<<c, "proc">>], frame[<<c, "intr">>], cpu[c],
            lk["tx"] = c, lk["cons"] = c, lk["pr"] = c, plic = c)

NestInv ==
  /\ frame \in [Contexts -> Frames]
  /\ cpu \in [CPUs -> CpuStates]
  /\ lk \in [Locks -> CPUs \cup {None}]
  /\ plic \in CPUs \cup {None}
  /\ ~panic
  /\ \A c \in CPUs : Nested(c)

\* f, or f woken from sleep().
Roused(f, g) == g = f \/ (f.pc \in {"tx_chan", "cons_r"} /\ g = [f EXCEPT !.pc = WokenOn[f.pc]])

\* A step of x does no more to the other contexts than to wake them.
Kept(x) == \A y \in Contexts : y # x => Roused(frame[y], frame'[y])

\* A step of CPU c leaves the locks and states of the others alone.
OthersKept(c) ==
  \A d \in CPUs \ {c} :
    /\ cpu'[d] = cpu[d]
    /\ \A l \in Locks : lk'[l] = d <=> lk[l] = d
    /\ plic' = d <=> plic = d

NestTypes ==
  /\ frame \in [Contexts -> Frames]
  /\ cpu \in [CPUs -> CpuStates]
  /\ lk \in [Locks -> CPUs \cup {None}]
  /\ plic \in CPUs \cup {None}

\* What is typed, and the ring buffer.
DataTypes ==
  /\ rx \in Seq(Chars)
  /\ buf \in [0..(SIZE - 1) -> Keys]
  /\ r \in 0..(WORD - 1) /\ w \in 0..(WORD - 1) /\ e \in 0..(WORD - 1)

\* Depth is a count.
LEMMA DepthNat == ASSUME NEW f PROVE Depth(f) \in Nat
BY SMTT(30) DEF Depth, One

\* The three locks of the console.
LEMMA LockSet == Locks = {"cons", "tx", "pr"}
BY ConsoleAssumption

\* The absent return place is none of the real ones.
LEMMA NotNone == None # "edit" /\ None # "dump_end" /\ None # "pf_return" /\ None # "lsr"
BY ConsoleAssumption DEF Places

\* An idle context holds nothing.
LEMMA IdleDepth ==
  ASSUME NEW f, IntrFrame(f), f.pc = "idle"
  PROVE  Depth(f) = 0 /\ ~HoldsTx(f) /\ ~HoldsCons(f) /\ ~HoldsPr(f)
<1>1. f.ret = None
  BY DEF IntrFrame, NoReturn
<1>2. ~HoldsTx(f) /\ ~HoldsCons(f) /\ ~HoldsPr(f)
  BY <1>1, NotNone DEF HoldsTx, HoldsCons, HoldsPr
<1> QED
  BY SMTT(30), <1>2 DEF Depth, One

\* Outside acquire() and uartputc_sync() the place alone says what is held.
LEMMA AtPlace ==
  ASSUME NEW f, ProcFrame(f) \/ IntrFrame(f), f.pc \notin {"spin", "lsr", "thr"}
  PROVE  /\ f \in Frames /\ NoReturn(f)
         /\ HoldsTx(f) <=> f.pc \in {"uw", "tx_done"}
         /\ HoldsCons(f) <=>
              f.pc \in {"cr", "cr_sleep", "cr_return", "echo", "edit", "dump_end"}
         /\ HoldsPr(f) <=> f.pc \in {"pf_return", "dump_end"}
         /\ Depth(f) = One(HoldsTx(f)) + One(HoldsCons(f)) + One(HoldsPr(f))
<1>1. f \in Frames /\ NoReturn(f)
  BY DEF ProcFrame, IntrFrame
<1>2. /\ HoldsTx(f) <=> f.pc \in {"uw", "tx_done"}
      /\ HoldsCons(f) <=>
           f.pc \in {"cr", "cr_sleep", "cr_return", "echo", "edit", "dump_end"}
      /\ HoldsPr(f) <=> f.pc \in {"pf_return", "dump_end"}
  BY <1>1, NotNone DEF NoReturn, HoldsTx, HoldsCons, HoldsPr
<1>3. f.pc \notin {"spin", "thr"}
  OBVIOUS
<1>4. Depth(f) = One(HoldsTx(f)) + One(HoldsCons(f)) + One(HoldsPr(f))
  BY SMTT(30), <1>3 DEF Depth, One
<1> QED
  BY <1>1, <1>2, <1>4

\* Which context is at a place.
LEMMA ProcAt ==
  ASSUME NestInv, NEW x \in Contexts, NEW pc, At(x, pc),
         pc \in {"pf_return", "uw", "tx_woken", "cw_next", "cr", "cr_sleep", "cr_return",
                 "cons_woken"} \/ (pc = "idle" /\ x[2] = "proc")
  PROVE  \E c \in CPUs :
           /\ x = <<c, "proc">> /\ CpuOf(x) = c
           /\ frame[<<c, "intr">>].pc = "idle"
           /\ frame[x].pc = pc /\ ProcFrame(frame[x])
           /\ frame[x] \in Frames /\ NoReturn(frame[x])
<1>1. PICK c \in CPUs, s \in {"proc", "intr"} : x = <<c, s>>
  BY SMTT(30) DEF Contexts
<1>2. x[1] = c /\ x[2] = s
  BY <1>1
<1>3. ProcFrame(frame[<<c, "proc">>]) /\ IntrFrame(frame[<<c, "intr">>])
  BY DEF NestInv, Nested, CpuNested
<1>4. s = "proc"
  <2> SUFFICES ASSUME s = "intr" PROVE FALSE
    OBVIOUS
  <2>1. frame[<<c, "intr">>].pc = pc
    BY <1>1 DEF At
  <2> QED
    BY <1>2, <1>3, <2>1 DEF IntrFrame
<1>5. frame[x].pc = pc /\ frame[<<c, "intr">>].pc = "idle"
  BY <1>1, <1>2, <1>4 DEF At
<1> QED
  BY <1>1, <1>2, <1>3, <1>4, <1>5, AtPlace DEF CpuOf

\* At these places it is an interrupt handler that runs, in no call.
LEMMA IntrAt ==
  ASSUME NestInv, NEW x \in Contexts, NEW pc, At(x, pc),
         pc \in {"tx_done", "getc", "echo", "edit", "dump_end", "complete"}
  PROVE  \E c \in CPUs :
           /\ x = <<c, "intr">> /\ CpuOf(x) = c
           /\ frame[x].pc = pc /\ IntrFrame(frame[x])
           /\ frame[x] \in Frames /\ NoReturn(frame[x])
<1>1. PICK c \in CPUs, s \in {"proc", "intr"} : x = <<c, s>>
  BY SMTT(30) DEF Contexts
<1>2. x[1] = c /\ x[2] = s
  BY <1>1
<1>3. ProcFrame(frame[<<c, "proc">>]) /\ IntrFrame(frame[<<c, "intr">>])
  BY DEF NestInv, Nested, CpuNested
<1>4. s = "intr"
  <2> SUFFICES ASSUME s = "proc" PROVE FALSE
    OBVIOUS
  <2>1. frame[<<c, "proc">>].pc = pc
    BY <1>1 DEF At
  <2> QED
    BY <1>3, <2>1 DEF ProcFrame
<1> QED
  BY <1>1, <1>2, <1>3, <1>4, AtPlace DEF CpuOf, At

\* The frame of a context with nothing to do is a legal one.
LEMMA IdleFrame ==
  /\ Idle \in Frames /\ NoReturn(Idle) /\ Idle.pc = "idle"
  /\ ProcFrame(Idle) /\ IntrFrame(Idle)
<1>1. Idle \in Frames /\ NoReturn(Idle) /\ Idle.pc = "idle"
  BY SMTT(30) DEF Idle, Frames, Places, Codes, NoReturn
<1> QED
  BY <1>1 DEF ProcFrame, IntrFrame

\* The slot of an index.
LEMMA SlotIn == ASSUME NEW i \in 0..(WORD - 1) PROVE i % SIZE \in 0..(SIZE - 1)
<1>1. SIZE \in Nat \ {0} /\ i \in Int
  BY SMTT(30), ConsoleAssumption
<1> QED
  BY SMTT(30), <1>1

\* A context inside acquire() or uartputc_sync().
LEMMA InsideAt ==
  ASSUME NestInv, NEW x \in Contexts, NEW pc \in {"spin", "lsr", "thr"}, At(x, pc)
  PROVE  \E c \in CPUs, s \in {"proc", "intr"} :
           /\ x = <<c, s>> /\ CpuOf(x) = c /\ frame[x].pc = pc /\ frame[x] \in Frames
           /\ s = "proc" => frame[<<c, "intr">>].pc = "idle" /\ ProcFrame(frame[x])
           /\ s = "intr" => frame[<<c, "intr">>].pc # "idle" /\ IntrFrame(frame[x])
<1>1. PICK c \in CPUs, s \in {"proc", "intr"} : x = <<c, s>>
  BY SMTT(30) DEF Contexts
<1>2. x[1] = c /\ x[2] = s
  BY <1>1
<1>3. ProcFrame(frame[<<c, "proc">>]) /\ IntrFrame(frame[<<c, "intr">>])
  BY DEF NestInv, Nested, CpuNested
<1>4. CASE s = "proc"
  BY <1>1, <1>2, <1>3, <1>4 DEF At, CpuOf, NestInv
<1>5. CASE s = "intr"
  BY <1>1, <1>2, <1>3, <1>5 DEF At, CpuOf, NestInv
<1> QED
  BY <1>4, <1>5

\* A step of x that also wakes the sleepers on a channel.
LEMMA WokenKept ==
  ASSUME frame \in [Contexts -> Frames], NEW x \in Contexts, NEW g \in Frames,
         NEW chan \in {"tx_chan", "cons_r"}, g.pc # chan,
         frame' = Woken([frame EXCEPT ![x] = g], chan)
  PROVE  frame' \in [Contexts -> Frames] /\ Kept(x) /\ frame'[x] = g
<1> DEFINE fr == [frame EXCEPT ![x] = g]
<1>1. fr \in [Contexts -> Frames] /\ fr[x] = g /\ \A y \in Contexts : y # x => fr[y] = frame[y]
  OBVIOUS
<1> HIDE DEF fr
<1>2. frame' = [y \in Contexts |->
                  IF fr[y].pc = chan THEN [fr[y] EXCEPT !.pc = WokenOn[chan]] ELSE fr[y]]
  BY DEF Woken, fr
<1>3. WokenOn[chan] \in Places
  BY SMTT(30) DEF WokenOn, Places
<1>4. \A f \in Frames : [f EXCEPT !.pc = WokenOn[chan]] \in Frames
  BY <1>3 DEF Frames
<1>5. frame' \in [Contexts -> Frames]
  BY <1>1, <1>2, <1>4
<1>6. Kept(x)
  <2> SUFFICES ASSUME NEW y \in Contexts, y # x PROVE Roused(frame[y], frame'[y])
    BY DEF Kept
  <2>1. fr[y] = frame[y]
    BY <1>1
  <2>2. frame'[y] = IF frame[y].pc = chan THEN [frame[y] EXCEPT !.pc = WokenOn[chan]] ELSE frame[y]
    BY <1>2, <2>1
  <2> QED
    BY <2>2 DEF Roused
<1>7. frame'[x] = g
  BY <1>1, <1>2
<1> QED
  BY <1>5, <1>6, <1>7

-----------------------------------------------------------------------------
(* Interrupts nest                                                         *)

\* Every step of the console keeps the nesting of every CPU: what a step
\* does to one CPU's counters, to the locks and to the other CPUs, then the
\* steps of the code one by one.
LEMMA NestNext ==
  NestInv /\ DataTypes /\ (\A a : Erased(a) \in Nat) /\ [Next]_vars => NestInv'
\* push_off(), pop_off() and the hardware's setting of SIE, field by field.
<1>PushOff.
  ASSUME NEW k \in CpuStates
  PROVE  /\ push_off(k) \in CpuStates
         /\ push_off(k).noff = k.noff + 1 /\ ~push_off(k).intr
         /\ k.noff = 0 => (push_off(k).intena <=> k.intr)
         /\ k.noff # 0 => (push_off(k).intena <=> k.intena)
  <2> USE DEF CpuStates, push_off
  <2>1. CASE k.noff = 0
    BY SMTT(30), <2>1
  <2>2. CASE k.noff # 0
    BY SMTT(30), <2>2
  <2> QED
    BY <2>1, <2>2
<1>SetIntr.
  ASSUME NEW k \in CpuStates, NEW b \in BOOLEAN
  PROVE  LET s == [k EXCEPT !.intr = b] IN
         s \in CpuStates /\ s.noff = k.noff /\ (s.intr <=> b) /\ (s.intena <=> k.intena)
  BY DEF CpuStates
<1>SetNoff.
  ASSUME NEW k \in CpuStates, NEW m \in Int
  PROVE  LET s == [k EXCEPT !.noff = m] IN
         s \in CpuStates /\ s.noff = m /\ (s.intr <=> k.intr) /\ (s.intena <=> k.intena)
  BY DEF CpuStates
<1>PopOff.
  ASSUME NEW k \in CpuStates
  PROVE  /\ pop_off(k) \in CpuStates
         /\ pop_off(k).noff = k.noff - 1
         /\ pop_off(k).intr <=> k.noff = 1 /\ k.intena
         /\ pop_off(k).intena <=> k.intena
  <2> DEFINE b == k.noff = 1 /\ k.intena
             m == k.noff - 1
             j == [k EXCEPT !.noff = m]
  <2>1. b \in BOOLEAN /\ m \in Int
    BY SMTT(30) DEF CpuStates
  <2>2. pop_off(k) = [j EXCEPT !.intr = b]
    BY DEF pop_off
  <2>3. b <=> k.noff = 1 /\ k.intena
    OBVIOUS
  <2> HIDE DEF b
  <2>4. j \in CpuStates /\ j.noff = m /\ (j.intena <=> k.intena)
    BY <2>1, <1>SetNoff
  <2> HIDE DEF j
  <2>5. [j EXCEPT !.intr = b] \in CpuStates /\ [j EXCEPT !.intr = b].noff = j.noff
    /\ ([j EXCEPT !.intr = b].intr <=> b) /\ ([j EXCEPT !.intr = b].intena <=> j.intena)
    BY <2>1, <2>4, <1>SetIntr
  <2> QED
    BY <2>2, <2>3, <2>4, <2>5
\* A process pushes: acquire(), or uartputc_sync().
<1>MoreProc.
  ASSUME NEW p, NEW i, NEW k, NEW tx, NEW co, NEW pr, NEW claim, NEW g,
         CpuNested(p, i, k, tx, co, pr, claim), i.pc = "idle",
         ProcFrame(g), Depth(g) = Depth(p) + 1
  PROVE  CpuNested(g, i, push_off(k), HoldsTx(g), HoldsCons(g), HoldsPr(g), claim)
  <2> USE <1>MoreProc
  <2>1. Depth(p) \in Nat /\ Depth(i) = 0 /\ ~HoldsTx(i) /\ ~HoldsCons(i) /\ ~HoldsPr(i)
    BY DepthNat, IdleDepth DEF CpuNested
  <2> QED
    BY SMTT(30), <2>1, <1>PushOff DEF CpuNested
\* A process pops: release(), or the end of uartputc_sync().
<1>LessProc.
  ASSUME NEW p, NEW i, NEW k, NEW tx, NEW co, NEW pr, NEW claim, NEW g,
         CpuNested(p, i, k, tx, co, pr, claim), i.pc = "idle",
         ProcFrame(g), Depth(p) = Depth(g) + 1
  PROVE  /\ CpuNested(g, i, pop_off(k), HoldsTx(g), HoldsCons(g), HoldsPr(g), claim)
         /\ ~pop_panics(k)
  <2> USE <1>LessProc
  <2>1. Depth(g) \in Nat /\ Depth(i) = 0 /\ ~HoldsTx(i) /\ ~HoldsCons(i) /\ ~HoldsPr(i)
    BY DepthNat, IdleDepth DEF CpuNested
  <2> QED
    BY SMTT(30), <2>1, <1>PopOff DEF CpuNested, pop_panics
\* The same of the handler.
<1>FreeDepth.
  ASSUME NEW f, ProcFrame(f), Depth(f) = 0
  PROVE  ~HoldsTx(f) /\ ~HoldsCons(f) /\ ~HoldsPr(f)
  BY SMTT(30), <1>FreeDepth DEF Depth, One
<1>MoreIntr.
  ASSUME NEW p, NEW i, NEW k, NEW tx, NEW co, NEW pr, NEW claim, NEW g,
         CpuNested(p, i, k, tx, co, pr, claim), i.pc # "idle",
         IntrFrame(g), g.pc # "idle", Depth(g) = Depth(i) + 1
  PROVE  CpuNested(p, g, push_off(k), HoldsTx(g), HoldsCons(g), HoldsPr(g), claim)
  <2> USE <1>MoreIntr
  <2>1. Depth(i) \in Nat /\ Depth(p) = 0 /\ ~HoldsTx(p) /\ ~HoldsCons(p) /\ ~HoldsPr(p)
    BY DepthNat, <1>FreeDepth DEF CpuNested
  <2> QED
    BY SMTT(30), <2>1, <1>PushOff DEF CpuNested
<1>LessIntr.
  ASSUME NEW p, NEW i, NEW k, NEW tx, NEW co, NEW pr, NEW claim, NEW g,
         CpuNested(p, i, k, tx, co, pr, claim), i.pc # "idle",
         IntrFrame(g), g.pc # "idle", Depth(i) = Depth(g) + 1
  PROVE  /\ CpuNested(p, g, pop_off(k), HoldsTx(g), HoldsCons(g), HoldsPr(g), claim)
         /\ ~pop_panics(k)
  <2> USE <1>LessIntr
  <2>1. Depth(g) \in Nat /\ Depth(p) = 0 /\ ~HoldsTx(p) /\ ~HoldsCons(p) /\ ~HoldsPr(p)
    BY DepthNat, <1>FreeDepth DEF CpuNested
  <2> QED
    BY SMTT(30), <2>1, <1>PopOff DEF CpuNested, pop_panics
<1>SameIntr.
  ASSUME NEW p, NEW i, NEW k, NEW tx, NEW co, NEW pr, NEW claim, NEW g,
         CpuNested(p, i, k, tx, co, pr, claim), i.pc # "idle",
         IntrFrame(g), g.pc # "idle", Depth(g) = Depth(i)
  PROVE  CpuNested(p, g, k, HoldsTx(g), HoldsCons(g), HoldsPr(g), claim)
  <2> USE <1>SameIntr
  <2>1. Depth(p) = 0 /\ ~HoldsTx(p) /\ ~HoldsCons(p) /\ ~HoldsPr(p)
    BY <1>FreeDepth DEF CpuNested
  <2> QED
    BY <2>1 DEF CpuNested
\* The interrupt is taken, and the handler acquires its first lock.
<1>EnterIntr.
  ASSUME NEW p, NEW i, NEW k, NEW tx, NEW co, NEW pr, NEW claim, NEW g,
         CpuNested(p, i, k, tx, co, pr, claim), k.intr,
         IntrFrame(g), g.pc # "idle", Depth(g) = 1
  PROVE  CpuNested(p, g, push_off([k EXCEPT !.intr = FALSE]),
                   HoldsTx(g), HoldsCons(g), HoldsPr(g), TRUE)
  <2> USE <1>EnterIntr
  <2>1. Depth(p) = 0 /\ ~HoldsTx(p) /\ ~HoldsCons(p) /\ ~HoldsPr(p)
    BY SMTT(30), DepthNat, <1>FreeDepth DEF CpuNested
  <2>2. k.noff = 0
    BY DEF CpuNested
  <2> DEFINE j == [k EXCEPT !.intr = FALSE]
  <2>3. j \in CpuStates /\ j.noff = 0 /\ ~j.intr
    BY <2>2, <1>SetIntr DEF CpuNested
  <2> HIDE DEF j
  <2>4. CpuNested(p, g, push_off(j), HoldsTx(g), HoldsCons(g), HoldsPr(g), TRUE)
    BY SMTT(30), <2>1, <2>2, <2>3, <1>PushOff DEF CpuNested
  <2> QED
    BY <2>4 DEF j
\* The handler returns to where nothing is held.
<1>LeaveIntr.
  ASSUME NEW p, NEW i, NEW k, NEW tx, NEW co, NEW pr, NEW claim, NEW g,
         CpuNested(p, i, k, tx, co, pr, claim), i.pc # "idle", Depth(i) = 0,
         IntrFrame(g), g.pc = "idle"
  PROVE  CpuNested(p, g, [k EXCEPT !.intr = TRUE], FALSE, FALSE, FALSE, FALSE)
  <2> USE <1>LeaveIntr
  <2>1. Depth(p) = 0 /\ ~HoldsTx(p) /\ ~HoldsCons(p) /\ ~HoldsPr(p)
    BY <1>FreeDepth DEF CpuNested
  <2>2. Depth(g) = 0 /\ ~HoldsTx(g) /\ ~HoldsCons(g) /\ ~HoldsPr(g)
    BY IdleDepth
  <2> DEFINE j == [k EXCEPT !.intr = TRUE]
  <2>3. j \in CpuStates /\ j.noff = k.noff /\ j.intr /\ (j.intena <=> k.intena)
    BY <1>SetIntr DEF CpuNested
  <2> HIDE DEF j
  <2>4. CpuNested(p, g, j, FALSE, FALSE, FALSE, FALSE)
    BY SMTT(30), <2>1, <2>2, <2>3 DEF CpuNested
  <2> QED
    BY <2>4 DEF j
<1>RousedProc.
  ASSUME NEW f, NEW g, ProcFrame(f), Roused(f, g)
  PROVE  /\ ProcFrame(g) /\ Depth(g) = Depth(f)
         /\ HoldsTx(g) <=> HoldsTx(f)
         /\ HoldsCons(g) <=> HoldsCons(f)
         /\ HoldsPr(g) <=> HoldsPr(f)
  <2> USE <1>RousedProc
  <2>1. CASE g = f
    BY <2>1
  <2>2. CASE f.pc \in {"tx_chan", "cons_r"} /\ g = [f EXCEPT !.pc = WokenOn[f.pc]]
    <3>1. WokenOn[f.pc] \in {"tx_woken", "cons_woken"}
      BY SMTT(30), <2>2 DEF WokenOn
    <3>2. f \in Frames /\ NoReturn(f)
      BY <2>2 DEF ProcFrame
    <3>3. g \in Frames /\ g.pc \in {"tx_woken", "cons_woken"} /\ NoReturn(g)
      BY SMTT(30), <2>2, <3>1, <3>2 DEF Frames, Places, NoReturn
    <3>4. /\ ~HoldsTx(f) /\ ~HoldsCons(f) /\ ~HoldsPr(f)
          /\ ~HoldsTx(g) /\ ~HoldsCons(g) /\ ~HoldsPr(g)
      BY <2>2, <3>2, <3>3, NotNone DEF NoReturn, HoldsTx, HoldsCons, HoldsPr
    <3> QED
      BY <2>2, <3>3, <3>4 DEF ProcFrame, Depth, One
  <2> QED
    BY <2>1, <2>2 DEF Roused
<1>RousedIntr.
  ASSUME NEW f, NEW g, IntrFrame(f), Roused(f, g) PROVE g = f
  BY <1>RousedIntr DEF IntrFrame, Roused
<1>RousedNested.
  ASSUME NEW p, NEW q, NEW i, NEW j, NEW k, NEW tx, NEW co, NEW pr, NEW claim,
         CpuNested(p, i, k, tx, co, pr, claim), Roused(p, q), Roused(i, j)
  PROVE  CpuNested(q, j, k, tx, co, pr, claim)
  <2> USE <1>RousedNested
  <2>1. j = i
    BY <1>RousedIntr DEF CpuNested
  <2> QED
    BY SMTT(30), <2>1, <1>RousedProc DEF CpuNested
\* A step of CPU c keeps the invariant for the other CPUs.
<1>OthersNested.
  ASSUME NestInv, NEW c \in CPUs, NEW s \in {"proc", "intr"},
         Kept(<<c, s>>), OthersKept(c), NEW d \in CPUs, d # c
  PROVE  Nested(d)'
  <2> USE <1>OthersNested
  <2>1. <<d, "proc">> \in Contexts /\ <<d, "intr">> \in Contexts
    BY DEF Contexts
  <2>2. <<d, "proc">> # <<c, s>> /\ <<d, "intr">> # <<c, s>>
    OBVIOUS
  <2>3. /\ Roused(frame[<<d, "proc">>], frame'[<<d, "proc">>])
        /\ Roused(frame[<<d, "intr">>], frame'[<<d, "intr">>])
    BY <2>1, <2>2 DEF Kept
  <2>4. CpuNested(frame'[<<d, "proc">>], frame'[<<d, "intr">>], cpu[d],
                  lk["tx"] = d, lk["cons"] = d, lk["pr"] = d, plic = d)
    BY SMTT(30), <2>3, <1>RousedNested DEF NestInv, Nested
  <2>5. /\ cpu'[d] = cpu[d] /\ (plic' = d <=> plic = d)
        /\ lk'["tx"] = d <=> lk["tx"] = d
        /\ lk'["cons"] = d <=> lk["cons"] = d
        /\ lk'["pr"] = d <=> lk["pr"] = d
    BY ConsoleAssumption DEF OthersKept
  <2> QED
    BY <2>4, <2>5 DEF Nested, CpuNested
\* It is enough to look at the context that takes the step.
<1>ProcStep.
  ASSUME NestInv, NestTypes', ~panic', NEW c \in CPUs, Kept(<<c, "proc">>), OthersKept(c),
         CpuNested(frame'[<<c, "proc">>], frame[<<c, "intr">>], cpu'[c],
                   lk'["tx"] = c, lk'["cons"] = c, lk'["pr"] = c, plic' = c)
  PROVE  NestInv'
  <2> USE <1>ProcStep
  <2>1. frame'[<<c, "intr">>] = frame[<<c, "intr">>]
    <3>1. <<c, "intr">> \in Contexts /\ <<c, "intr">> # <<c, "proc">>
      BY DEF Contexts
    <3>2. Roused(frame[<<c, "intr">>], frame'[<<c, "intr">>])
      BY <3>1 DEF Kept
    <3> QED
      BY <3>2, <1>RousedIntr DEF CpuNested
  <2>2. Nested(c)'
    BY <2>1 DEF Nested
  <2>3. \A d \in CPUs : d # c => Nested(d)'
    BY <1>OthersNested
  <2> QED
    BY <2>2, <2>3 DEF NestInv, NestTypes
<1>IntrStep.
  ASSUME NestInv, NestTypes', ~panic', NEW c \in CPUs, Kept(<<c, "intr">>), OthersKept(c),
         \A p : CpuNested(p, frame[<<c, "intr">>], cpu[c],
                          lk["tx"] = c, lk["cons"] = c, lk["pr"] = c, plic = c)
                => CpuNested(p, frame'[<<c, "intr">>], cpu'[c],
                             lk'["tx"] = c, lk'["cons"] = c, lk'["pr"] = c, plic' = c)
  PROVE  NestInv'
  <2> USE <1>IntrStep
  <2>1. CpuNested(frame'[<<c, "proc">>], frame[<<c, "intr">>], cpu[c],
                  lk["tx"] = c, lk["cons"] = c, lk["pr"] = c, plic = c)
    <3>1. <<c, "proc">> \in Contexts /\ <<c, "proc">> # <<c, "intr">>
      BY DEF Contexts
    <3>2. Roused(frame[<<c, "proc">>], frame'[<<c, "proc">>])
      BY <3>1 DEF Kept
    <3> QED
      BY SMTT(30), <3>2, <1>RousedNested DEF NestInv, Nested, Roused
  <2>2. Nested(c)'
    BY <2>1 DEF Nested
  <2>3. \A d \in CPUs : d # c => Nested(d)'
    BY <1>OthersNested
  <2> QED
    BY <2>2, <2>3 DEF NestInv, NestTypes
\* Only x's frame changes.
<1>KeptAlone.
  ASSUME frame \in [Contexts -> Frames], NEW x \in Contexts, NEW g \in Frames,
         frame' = [frame EXCEPT ![x] = g]
  PROVE  frame' \in [Contexts -> Frames] /\ Kept(x) /\ frame'[x] = g
  BY <1>KeptAlone DEF Kept, Roused
\* The locks after acquire(), release() and the swap.
<1>AcquireLocks.
  ASSUME NestInv, NEW c \in CPUs, NEW l \in Locks, lk[l] = None,
         lk' = [lk EXCEPT ![l] = c]
  PROVE  /\ lk' \in [Locks -> CPUs \cup {None}]
         /\ \A d \in CPUs \ {c} : \A m \in Locks : lk'[m] = d <=> lk[m] = d
         /\ \A m \in Locks : lk'[m] = c <=> m = l \/ lk[m] = c
  BY <1>AcquireLocks, ConsoleAssumption DEF NestInv
<1>ReleaseLocks.
  ASSUME NestInv, NEW c \in CPUs, NEW l \in Locks, lk[l] = c,
         lk' = [lk EXCEPT ![l] = None]
  PROVE  /\ lk' \in [Locks -> CPUs \cup {None}]
         /\ \A d \in CPUs \ {c} : \A m \in Locks : lk'[m] = d <=> lk[m] = d
         /\ \A m \in Locks : lk'[m] = c <=> m # l /\ lk[m] = c
  BY <1>ReleaseLocks, ConsoleAssumption DEF NestInv
\* A process acquires a lock, or starts to spin, with none held.
<1>ProcAcquires.
  ASSUME NestInv, NEW c \in CPUs, frame[<<c, "intr">>].pc = "idle",
         Depth(frame[<<c, "proc">>]) = 0,
         NEW f \in Frames, f.lock = None, f.next = None, NEW l, NEW pc,
         \/ l = "tx" /\ pc = "uw" /\ f.ret = None
         \/ l = "cons" /\ pc = "cr" /\ f.ret = None
         \/ l = "pr" /\ pc = "lsr" /\ f.ret = "pf_return",
         ThenAcquire(<<c, "proc">>, f, l, pc), plic' = plic
  PROVE  NestInv'
  <2> USE <1>ProcAcquires
  <2> DEFINE x == <<c, "proc">>
             i == frame[<<c, "intr">>]
             g == IF lk[l] = None THEN [f EXCEPT !.pc = pc]
                  ELSE [f EXCEPT !.pc = "spin", !.lock = l, !.next = pc]
  <2>1. x \in Contexts /\ l \in Locks
    BY ConsoleAssumption DEF Contexts
  <2>2. /\ cpu' = [cpu EXCEPT ![c] = push_off(cpu[c])]
        /\ panic' = (panic \/ lk[l] = c)
        /\ lk' = IF lk[l] = None THEN [lk EXCEPT ![l] = c] ELSE lk
        /\ frame' = [frame EXCEPT ![x] = g]
    BY DEF ThenAcquire, AcquireFrom, CpuOf, acquire, holding
  <2>3. CpuNested(frame[x], i, cpu[c], lk["tx"] = c, lk["cons"] = c, lk["pr"] = c, plic = c)
    BY DEF NestInv, Nested
  <2>4. lk["tx"] # c /\ lk["cons"] # c /\ lk["pr"] # c
    BY <2>3, <1>FreeDepth, IdleDepth DEF CpuNested
  <2>5. /\ g \in Frames /\ ProcFrame(g) /\ Depth(g) = 1
        /\ HoldsTx(g) <=> lk[l] = None /\ l = "tx"
        /\ HoldsCons(g) <=> lk[l] = None /\ l = "cons"
        /\ HoldsPr(g) <=> lk[l] = None /\ l = "pr"
    <3>1. CASE lk[l] = None
      <4>1. g \in Frames /\ g.pc = pc /\ g.lock = None /\ g.next = None /\ g.ret = f.ret
        BY SMTT(30), <3>1 DEF Frames, Places
      <4> HIDE DEF g
      <4>2. ProcFrame(g)
        BY <4>1 DEF ProcFrame, NoReturn
      <4>3. (HoldsTx(g) <=> l = "tx") /\ (HoldsCons(g) <=> l = "cons") /\ (HoldsPr(g) <=> l = "pr")
        BY <4>1, NotNone DEF HoldsTx, HoldsCons, HoldsPr
      <4>4. Depth(g) = 1
        BY SMTT(30), <4>1, <4>3 DEF Depth, One
      <4> QED
        BY <3>1, <4>1, <4>2, <4>3, <4>4
    <3>2. CASE lk[l] # None
      <4>1. g \in Frames /\ g.pc = "spin" /\ g.lock = l /\ g.next = pc /\ g.ret = f.ret
        <5>1. g = [f EXCEPT !.pc = "spin", !.lock = l, !.next = pc] /\ pc \in Places
          BY <3>2 DEF Places
        <5>2. "spin" \in Places /\ f \in Frames /\ l \in Locks
          BY <2>1 DEF Places
        <5> QED
          BY ONLY Zenon, <5>1, <5>2 DEF Frames
      <4> HIDE DEF g
      <4>2. ProcFrame(g)
        BY <4>1 DEF ProcFrame
      <4>3. ~HoldsTx(g) /\ ~HoldsCons(g) /\ ~HoldsPr(g)
        BY <4>1, NotNone DEF HoldsTx, HoldsCons, HoldsPr
      <4>4. Depth(g) = 1
        BY SMTT(30), <4>1, <4>3 DEF Depth, One
      <4> QED
        BY <3>2, <4>1, <4>2, <4>3, <4>4
    <3> QED
      BY <3>1, <3>2
  <2> HIDE DEF g
  <2>6. CpuNested(g, i, push_off(cpu[c]), HoldsTx(g), HoldsCons(g), HoldsPr(g), plic = c)
    BY SMTT(30), <2>3, <2>5, <1>MoreProc
  <2>7. frame' \in [Contexts -> Frames] /\ Kept(x) /\ frame'[x] = g
    BY <2>1, <2>2, <2>5, <1>KeptAlone DEF NestInv
  <2>8. /\ lk' \in [Locks -> CPUs \cup {None}]
        /\ \A d \in CPUs \ {c} : \A m \in Locks : lk'[m] = d <=> lk[m] = d
        /\ \A m \in Locks : lk'[m] = c <=> lk[l] = None /\ m = l
    <3>1. CASE lk[l] = None
      BY <2>1, <2>2, <2>4, <3>1, <1>AcquireLocks, ConsoleAssumption
    <3>2. CASE lk[l] # None
      BY <2>1, <2>2, <2>4, <3>2, ConsoleAssumption DEF NestInv
    <3> QED
      BY <3>1, <3>2
  <2>9. push_off(cpu[c]) \in CpuStates
    BY <1>PushOff DEF NestInv
  <2>10. NestTypes' /\ OthersKept(c)
    <3>1. cpu' \in [CPUs -> CpuStates] /\ \A d \in CPUs \ {c} : cpu'[d] = cpu[d]
      BY <2>2, <2>9 DEF NestInv
    <3> QED
      BY <2>7, <2>8, <3>1 DEF NestTypes, NestInv, OthersKept
  <2>11. ~panic'
    <3>1. lk[l] # c
      BY <2>1, <2>4, LockSet
    <3> QED
      BY <2>2, <3>1 DEF NestInv
  <2>12. CpuNested(frame'[x], i, cpu'[c], lk'["tx"] = c, lk'["cons"] = c, lk'["pr"] = c, plic' = c)
    <3>1. cpu'[c] = push_off(cpu[c])
      BY <2>2 DEF NestInv
    <3>2. /\ lk'["tx"] = c <=> HoldsTx(g)
          /\ lk'["cons"] = c <=> HoldsCons(g)
          /\ lk'["pr"] = c <=> HoldsPr(g)
      BY <2>5, <2>8, ConsoleAssumption
    <3> QED
      BY <2>6, <2>7, <3>1, <3>2 DEF CpuNested
  <2> QED
    BY <2>7, <2>10, <2>11, <2>12, <1>ProcStep
\* A process releases the one lock it has.
<1>ProcReleases.
  ASSUME NestInv, NEW c \in CPUs, frame[<<c, "intr">>].pc = "idle",
         NEW l \in Locks, release(c, l), plic' = plic,
         \/ frame[<<c, "proc">>].pc = "pf_return" /\ l = "pr"
         \/ frame[<<c, "proc">>].pc = "uw" /\ l = "tx"
         \/ frame[<<c, "proc">>].pc \in {"cr", "cr_sleep", "cr_return"} /\ l = "cons",
         NEW g, ProcFrame(g), g.pc \in {"idle", "tx_chan", "cw_next", "cons_r"},
         frame' = [frame EXCEPT ![<<c, "proc">>] = g]
  PROVE  NestInv'
  <2> USE <1>ProcReleases
  <2> DEFINE x == <<c, "proc">>
             i == frame[<<c, "intr">>]
  <2>1. x \in Contexts
    BY DEF Contexts
  <2>2. /\ cpu' = [cpu EXCEPT ![c] = pop_off(cpu[c])]
        /\ panic' = (panic \/ lk[l] # c \/ pop_panics(cpu[c]))
        /\ lk' = [lk EXCEPT ![l] = None]
    BY DEF release, holding
  <2>3. CpuNested(frame[x], i, cpu[c], lk["tx"] = c, lk["cons"] = c, lk["pr"] = c, plic = c)
    BY DEF NestInv, Nested
  <2>4. ~HoldsTx(i) /\ ~HoldsCons(i) /\ ~HoldsPr(i)
    BY <2>3, IdleDepth DEF CpuNested
  <2>5. /\ HoldsTx(frame[x]) <=> l = "tx"
        /\ HoldsCons(frame[x]) <=> l = "cons"
        /\ HoldsPr(frame[x]) <=> l = "pr"
        /\ Depth(frame[x]) = 1
    <3>1. ProcFrame(frame[x]) /\ frame[x].pc \notin {"spin", "lsr", "thr"}
      BY <2>3 DEF CpuNested
    <3> QED
      BY SMTT(30), <3>1, AtPlace DEF One
  <2>6. \A m \in Locks : lk[m] = c <=> m = l
    BY <2>3, <2>4, <2>5, LockSet DEF CpuNested
  <2>7. g \in Frames /\ ~HoldsTx(g) /\ ~HoldsCons(g) /\ ~HoldsPr(g) /\ Depth(g) = 0
    BY SMTT(30), AtPlace DEF One
  <2>8. /\ CpuNested(g, i, pop_off(cpu[c]), HoldsTx(g), HoldsCons(g), HoldsPr(g), plic = c)
        /\ ~pop_panics(cpu[c])
    BY SMTT(30), <2>3, <2>5, <2>7, <1>LessProc
  <2>9. frame' \in [Contexts -> Frames] /\ Kept(x) /\ frame'[x] = g
    BY <2>1, <2>7, <1>KeptAlone DEF NestInv
  <2>10. /\ lk' \in [Locks -> CPUs \cup {None}]
         /\ \A d \in CPUs \ {c} : \A m \in Locks : lk'[m] = d <=> lk[m] = d
         /\ \A m \in Locks : lk'[m] # c
    <3>1. lk[l] = c
      BY <2>6
    <3>2. /\ lk' \in [Locks -> CPUs \cup {None}]
          /\ \A d \in CPUs \ {c} : \A m \in Locks : lk'[m] = d <=> lk[m] = d
          /\ \A m \in Locks : lk'[m] = c <=> m # l /\ lk[m] = c
      BY <3>1, <2>2, <1>ReleaseLocks
    <3> QED
      BY <3>2, <2>6
  <2>11. NestTypes' /\ OthersKept(c) /\ ~panic'
    <3>1. pop_off(cpu[c]) \in CpuStates
      BY <1>PopOff DEF NestInv
    <3>2. cpu' \in [CPUs -> CpuStates] /\ \A d \in CPUs \ {c} : cpu'[d] = cpu[d]
      BY <2>2, <3>1 DEF NestInv
    <3> QED
      BY <2>2, <2>6, <2>8, <2>9, <2>10, <3>2 DEF NestTypes, NestInv, OthersKept
  <2>12. CpuNested(frame'[x], i, cpu'[c], lk'["tx"] = c, lk'["cons"] = c, lk'["pr"] = c, plic' = c)
    <3>1. cpu'[c] = pop_off(cpu[c])
      BY <2>2 DEF NestInv
    <3>2. lk'["tx"] # c /\ lk'["cons"] # c /\ lk'["pr"] # c
      BY <2>10, LockSet
    <3> QED
      BY <2>7, <2>8, <2>9, <3>1, <3>2 DEF CpuNested
  <2> QED
    BY <2>9, <2>11, <2>12, <1>ProcStep
\* A process goes on with the locks it has.
<1>ProcSame.
  ASSUME NestInv, NEW c \in CPUs, UNCHANGED <<locks, plic>>,
         NEW g, ProcFrame(g), frame' = [frame EXCEPT ![<<c, "proc">>] = g],
         HoldsTx(g) <=> HoldsTx(frame[<<c, "proc">>]),
         HoldsCons(g) <=> HoldsCons(frame[<<c, "proc">>]),
         HoldsPr(g) <=> HoldsPr(frame[<<c, "proc">>]),
         Depth(g) = Depth(frame[<<c, "proc">>])
  PROVE  NestInv'
  <2> USE <1>ProcSame
  <2> DEFINE x == <<c, "proc">>
             i == frame[<<c, "intr">>]
  <2>1. x \in Contexts /\ g \in Frames
    BY DEF Contexts, ProcFrame
  <2>2. cpu' = cpu /\ lk' = lk /\ panic' = panic /\ plic' = plic
    BY DEF locks
  <2>3. CpuNested(frame[x], i, cpu[c], lk["tx"] = c, lk["cons"] = c, lk["pr"] = c, plic = c)
    BY DEF NestInv, Nested
  <2>4. frame' \in [Contexts -> Frames] /\ Kept(x) /\ frame'[x] = g
    BY <2>1, <1>KeptAlone DEF NestInv
  <2>5. NestTypes' /\ OthersKept(c) /\ ~panic'
    BY <2>2, <2>4 DEF NestTypes, NestInv, OthersKept
  <2>6. CpuNested(g, i, cpu[c], lk["tx"] = c, lk["cons"] = c, lk["pr"] = c, plic = c)
    BY <2>3 DEF CpuNested
  <2> QED
    BY <2>2, <2>4, <2>5, <2>6, <1>ProcStep
\* The handler acquires cons.lock, or with it pr.lock, or starts to spin.
<1>IntrAcquires.
  ASSUME NestInv, NEW c \in CPUs, NEW f \in Frames, f.lock = None, f.next = None,
         NEW l, NEW pc,
         \/ l = "cons" /\ pc = "echo" /\ f.ret = None /\ frame[<<c, "intr">>].pc = "getc"
         \/ l = "pr" /\ pc = "lsr" /\ f.ret = "dump_end" /\ frame[<<c, "intr">>].pc = "echo",
         ThenAcquire(<<c, "intr">>, f, l, pc), plic' = plic
  PROVE  NestInv'
  <2> USE <1>IntrAcquires
  <2> DEFINE x == <<c, "intr">>
             i == frame[x]
             g == IF lk[l] = None THEN [f EXCEPT !.pc = pc]
                  ELSE [f EXCEPT !.pc = "spin", !.lock = l, !.next = pc]
  <2>1. x \in Contexts /\ l \in Locks
    BY ConsoleAssumption DEF Contexts
  <2>2. /\ cpu' = [cpu EXCEPT ![c] = push_off(cpu[c])]
        /\ panic' = (panic \/ lk[l] = c)
        /\ lk' = IF lk[l] = None THEN [lk EXCEPT ![l] = c] ELSE lk
        /\ frame' = [frame EXCEPT ![x] = g]
    BY DEF ThenAcquire, AcquireFrom, CpuOf, acquire, holding
  <2>3. CpuNested(frame[<<c, "proc">>], i, cpu[c],
                  lk["tx"] = c, lk["cons"] = c, lk["pr"] = c, plic = c)
    BY DEF NestInv, Nested
  <2>4. /\ ~HoldsTx(i) /\ ~HoldsPr(i) /\ (HoldsCons(i) <=> l = "pr")
        /\ Depth(i) = IF l = "pr" THEN 1 ELSE 0
    <3>1. IntrFrame(i) /\ i.pc \notin {"spin", "lsr", "thr"}
      BY <2>3 DEF CpuNested
    <3> QED
      BY SMTT(30), <3>1, AtPlace DEF One
  <2>5. lk["tx"] # c /\ lk["pr"] # c /\ (lk["cons"] = c <=> l = "pr")
    <3>1. Depth(frame[<<c, "proc">>]) = 0 /\ ProcFrame(frame[<<c, "proc">>])
      BY <2>3 DEF CpuNested
    <3> QED
      BY <2>3, <2>4, <3>1, <1>FreeDepth DEF CpuNested
  <2>6. /\ g \in Frames /\ IntrFrame(g) /\ g.pc # "idle"
        /\ Depth(g) = IF l = "pr" THEN 2 ELSE 1
        /\ ~HoldsTx(g)
        /\ HoldsCons(g) <=> l = "pr" \/ lk[l] = None
        /\ HoldsPr(g) <=> lk[l] = None /\ l = "pr"
    <3>1. CASE lk[l] = None
      <4>1. g \in Frames /\ g.pc = pc /\ g.lock = None /\ g.next = None /\ g.ret = f.ret
        BY <3>1 DEF Frames, Places
      <4> HIDE DEF g
      <4>2. IntrFrame(g)
        BY <4>1 DEF IntrFrame, NoReturn
      <4>3. ~HoldsTx(g) /\ HoldsCons(g) /\ (HoldsPr(g) <=> l = "pr")
        BY <4>1, NotNone DEF HoldsTx, HoldsCons, HoldsPr
      <4>4. Depth(g) = IF l = "pr" THEN 2 ELSE 1
        BY SMTT(30), <4>1, <4>3 DEF Depth, One
      <4> QED
        BY <3>1, <4>1, <4>2, <4>3, <4>4
    <3>2. CASE lk[l] # None
      <4>1. g \in Frames /\ g.pc = "spin" /\ g.lock = l /\ g.next = pc /\ g.ret = f.ret
        BY <2>1, <3>2 DEF Frames, Places
      <4> HIDE DEF g
      <4>2. IntrFrame(g)
        BY <4>1 DEF IntrFrame
      <4>3. ~HoldsTx(g) /\ (HoldsCons(g) <=> l = "pr") /\ ~HoldsPr(g)
        BY <4>1, NotNone DEF HoldsTx, HoldsCons, HoldsPr
      <4>4. Depth(g) = IF l = "pr" THEN 2 ELSE 1
        BY SMTT(30), <4>1, <4>3 DEF Depth, One
      <4> QED
        BY <3>2, <4>1, <4>2, <4>3, <4>4
    <3> QED
      BY <3>1, <3>2
  <2> HIDE DEF g
  <2>7. frame' \in [Contexts -> Frames] /\ Kept(x) /\ frame'[x] = g
    BY <2>1, <2>2, <2>6, <1>KeptAlone DEF NestInv
  <2>8. /\ lk' \in [Locks -> CPUs \cup {None}]
        /\ \A d \in CPUs \ {c} : \A m \in Locks : lk'[m] = d <=> lk[m] = d
        /\ \A m \in Locks : lk'[m] = c <=> (lk[l] = None /\ m = l) \/ lk[m] = c
    <3>1. CASE lk[l] = None
      <4>1. lk' = [lk EXCEPT ![l] = c]
        BY <2>2, <3>1
      <4>2. /\ lk' \in [Locks -> CPUs \cup {None}]
            /\ \A d \in CPUs \ {c} : \A m \in Locks : lk'[m] = d <=> lk[m] = d
            /\ \A m \in Locks : lk'[m] = c <=> m = l \/ lk[m] = c
        BY <2>1, <3>1, <4>1, ConsoleAssumption DEF NestInv
      <4> QED
        BY <3>1, <4>2
    <3>2. CASE lk[l] # None
      BY <2>1, <2>2, <3>2 DEF NestInv
    <3> QED
      BY <3>1, <3>2
  <2>9. NestTypes' /\ OthersKept(c)
    <3>1. push_off(cpu[c]) \in CpuStates
      BY <1>PushOff DEF NestInv
    <3>2. cpu' \in [CPUs -> CpuStates] /\ \A d \in CPUs \ {c} : cpu'[d] = cpu[d]
      BY <2>2, <3>1 DEF NestInv
    <3> QED
      BY <2>7, <2>8, <3>2 DEF NestTypes, NestInv, OthersKept
  <2>10. ~panic'
    <3>1. lk[l] # c
      BY <2>5
    <3> QED
      BY <2>2, <3>1 DEF NestInv
  <2>11. /\ lk'["tx"] = c <=> HoldsTx(g)
         /\ lk'["cons"] = c <=> HoldsCons(g)
         /\ lk'["pr"] = c <=> HoldsPr(g)
    BY <2>5, <2>6, <2>8, LockSet
  <2>12. ASSUME NEW p, CpuNested(p, i, cpu[c], lk["tx"] = c, lk["cons"] = c, lk["pr"] = c, plic = c)
         PROVE  CpuNested(p, frame'[x], cpu'[c],
                          lk'["tx"] = c, lk'["cons"] = c, lk'["pr"] = c, plic' = c)
    <3>1. CpuNested(p, g, push_off(cpu[c]), HoldsTx(g), HoldsCons(g), HoldsPr(g), plic = c)
      BY SMTT(30), <2>4, <2>6, <2>12, <1>MoreIntr
    <3>2. cpu'[c] = push_off(cpu[c])
      BY <2>2 DEF NestInv
    <3> QED
      BY <2>7, <2>11, <3>1, <3>2 DEF CpuNested
  <2> QED
    BY <2>7, <2>9, <2>10, <2>12, <1>IntrStep
\* The handler releases a lock, and may wake sleepers.
<1>IntrReleases.
  ASSUME NestInv, NEW c \in CPUs, NEW l, release(c, l), plic' = plic,
         frame' \in [Contexts -> Frames], Kept(<<c, "intr">>),
         NEW g, IntrFrame(g), frame'[<<c, "intr">>] = g,
         \/ frame[<<c, "intr">>].pc = "tx_done" /\ l = "tx" /\ g.pc = "getc"
         \/ frame[<<c, "intr">>].pc = "dump_end" /\ l = "pr" /\ g.pc = "edit"
         \/ frame[<<c, "intr">>].pc = "edit" /\ l = "cons" /\ g.pc = "getc"
  PROVE  NestInv'
  <2> USE <1>IntrReleases
  <2> DEFINE x == <<c, "intr">>
             i == frame[x]
  <2>1. l \in Locks
    BY LockSet
  <2>2. /\ cpu' = [cpu EXCEPT ![c] = pop_off(cpu[c])]
        /\ panic' = (panic \/ lk[l] # c \/ pop_panics(cpu[c]))
        /\ lk' = [lk EXCEPT ![l] = None]
    BY DEF release, holding
  <2>3. CpuNested(frame[<<c, "proc">>], i, cpu[c],
                  lk["tx"] = c, lk["cons"] = c, lk["pr"] = c, plic = c)
    BY DEF NestInv, Nested
  <2>4. /\ HoldsTx(i) <=> l = "tx"
        /\ HoldsCons(i) <=> l \in {"pr", "cons"}
        /\ HoldsPr(i) <=> l = "pr"
        /\ Depth(i) = IF l = "pr" THEN 2 ELSE 1
    <3>1. IntrFrame(i) /\ i.pc \notin {"spin", "lsr", "thr"}
      BY <2>3 DEF CpuNested
    <3> QED
      BY SMTT(30), <3>1, AtPlace DEF One
  <2>5. /\ ~HoldsTx(g) /\ (HoldsCons(g) <=> l = "pr") /\ ~HoldsPr(g)
        /\ Depth(g) = IF l = "pr" THEN 1 ELSE 0
    BY SMTT(30), AtPlace DEF One
  <2>6. /\ lk["tx"] = c <=> l = "tx"
        /\ lk["cons"] = c <=> l \in {"pr", "cons"}
        /\ lk["pr"] = c <=> l = "pr"
    <3>1. Depth(frame[<<c, "proc">>]) = 0 /\ ProcFrame(frame[<<c, "proc">>])
      BY <2>3 DEF CpuNested
    <3> QED
      BY <2>3, <2>4, <3>1, <1>FreeDepth DEF CpuNested
  <2>7. lk[l] = c
    BY <2>6
  <2>8. ~pop_panics(cpu[c])
    BY SMTT(30), <2>3, <2>4, <2>5, <1>LessIntr
  <2>9. /\ lk' \in [Locks -> CPUs \cup {None}]
        /\ \A d \in CPUs \ {c} : \A m \in Locks : lk'[m] = d <=> lk[m] = d
        /\ \A m \in Locks : lk'[m] = c <=> m # l /\ lk[m] = c
    BY <2>1, <2>2, <2>7, <1>ReleaseLocks
  <2>10. NestTypes' /\ OthersKept(c)
    <3>1. pop_off(cpu[c]) \in CpuStates
      BY <1>PopOff DEF NestInv
    <3>2. cpu' \in [CPUs -> CpuStates] /\ \A d \in CPUs \ {c} : cpu'[d] = cpu[d]
      BY <2>2, <3>1 DEF NestInv
    <3> QED
      BY <2>9, <3>2 DEF NestTypes, NestInv, OthersKept
  <2>11. ~panic'
    BY <2>2, <2>7, <2>8 DEF NestInv
  <2>12. /\ lk'["tx"] = c <=> HoldsTx(g)
         /\ lk'["cons"] = c <=> HoldsCons(g)
         /\ lk'["pr"] = c <=> HoldsPr(g)
    BY <2>5, <2>6, <2>9, LockSet
  <2>13. ASSUME NEW p, CpuNested(p, i, cpu[c], lk["tx"] = c, lk["cons"] = c, lk["pr"] = c, plic = c)
         PROVE  CpuNested(p, frame'[x], cpu'[c],
                          lk'["tx"] = c, lk'["cons"] = c, lk'["pr"] = c, plic' = c)
    <3>1. CpuNested(p, g, pop_off(cpu[c]), HoldsTx(g), HoldsCons(g), HoldsPr(g), plic = c)
      BY SMTT(30), <2>4, <2>5, <2>13, <1>LessIntr
    <3>2. cpu'[c] = pop_off(cpu[c])
      BY <2>2 DEF NestInv
    <3> QED
      BY <2>12, <3>1, <3>2 DEF CpuNested
  <2> QED
    BY <2>10, <2>11, <2>13, <1>IntrStep
\* A step of one context that changes the nesting by one or not at all.
<1>CtxStep.
  ASSUME NestInv, ~panic', plic' = plic, NEW c \in CPUs, NEW s \in {"proc", "intr"}, NEW g,
         frame' = [frame EXCEPT ![<<c, s>>] = g],
         s = "proc" => ProcFrame(g) /\ frame[<<c, "intr">>].pc = "idle",
         s = "intr" => IntrFrame(g) /\ g.pc # "idle" /\ frame[<<c, "intr">>].pc # "idle",
         \/ Depth(g) = Depth(frame[<<c, s>>]) + 1 /\ cpu' = [cpu EXCEPT ![c] = push_off(cpu[c])]
         \/ Depth(frame[<<c, s>>]) = Depth(g) + 1 /\ cpu' = [cpu EXCEPT ![c] = pop_off(cpu[c])]
         \/ Depth(g) = Depth(frame[<<c, s>>]) /\ cpu' = cpu,
         lk' \in [Locks -> CPUs \cup {None}],
         \A d \in CPUs \ {c} : \A m \in Locks : lk'[m] = d <=> lk[m] = d,
         lk'["tx"] = c <=> HoldsTx(g),
         lk'["cons"] = c <=> HoldsCons(g),
         lk'["pr"] = c <=> HoldsPr(g)
  PROVE  NestInv'
  <2> USE <1>CtxStep
  <2> DEFINE x == <<c, s>>
  <2>1. x \in Contexts /\ g \in Frames
    BY DEF Contexts, ProcFrame, IntrFrame
  <2>2. frame' \in [Contexts -> Frames] /\ Kept(x) /\ frame'[x] = g
    BY <2>1, <1>KeptAlone DEF NestInv
  <2>3. cpu[c] \in CpuStates /\ push_off(cpu[c]) \in CpuStates /\ pop_off(cpu[c]) \in CpuStates
    BY <1>PushOff, <1>PopOff DEF NestInv
  <2>4. cpu' \in [CPUs -> CpuStates] /\ \A d \in CPUs \ {c} : cpu'[d] = cpu[d]
    BY <2>3 DEF NestInv
  <2>5. NestTypes' /\ OthersKept(c)
    BY <2>2, <2>4 DEF NestTypes, NestInv, OthersKept
  <2>6. \/ Depth(g) = Depth(frame[x]) + 1 /\ cpu'[c] = push_off(cpu[c])
        \/ Depth(frame[x]) = Depth(g) + 1 /\ cpu'[c] = pop_off(cpu[c])
        \/ Depth(g) = Depth(frame[x]) /\ cpu'[c] = cpu[c]
    BY DEF NestInv
  <2>7. CASE s = "proc"
    <3> DEFINE i == frame[<<c, "intr">>]
    <3>1. CpuNested(frame[x], i, cpu[c], lk["tx"] = c, lk["cons"] = c, lk["pr"] = c, plic = c)
      BY <2>7 DEF NestInv, Nested
    <3>2. ProcFrame(g) /\ i.pc = "idle"
      BY <2>7
    <3>3. ~HoldsTx(i) /\ ~HoldsCons(i) /\ ~HoldsPr(i)
      BY <3>1, <3>2, IdleDepth DEF CpuNested
    <3>4. CpuNested(g, i, cpu'[c], HoldsTx(g), HoldsCons(g), HoldsPr(g), plic = c)
      <4>1. CASE Depth(g) = Depth(frame[x]) + 1 /\ cpu'[c] = push_off(cpu[c])
        BY SMTT(30), <3>1, <3>2, <4>1, <1>MoreProc
      <4>2. CASE Depth(frame[x]) = Depth(g) + 1 /\ cpu'[c] = pop_off(cpu[c])
        BY SMTT(30), <3>1, <3>2, <4>2, <1>LessProc
      <4>3. CASE Depth(g) = Depth(frame[x]) /\ cpu'[c] = cpu[c]
        BY <3>1, <3>2, <3>3, <4>3 DEF CpuNested
      <4> QED
        BY <2>6, <4>1, <4>2, <4>3
    <3>5. CpuNested(frame'[x], i, cpu'[c], lk'["tx"] = c, lk'["cons"] = c, lk'["pr"] = c, plic' = c)
      BY <2>2, <3>4 DEF CpuNested
    <3> QED
      BY <2>2, <2>5, <2>7, <3>5, <1>ProcStep
  <2>8. CASE s = "intr"
    <3> DEFINE i == frame[x]
    <3>1. IntrFrame(g) /\ g.pc # "idle" /\ i.pc # "idle"
      BY <2>8
    <3>2. ASSUME NEW p, CpuNested(p, i, cpu[c], lk["tx"] = c, lk["cons"] = c, lk["pr"] = c, plic = c)
          PROVE  CpuNested(p, frame'[x], cpu'[c],
                           lk'["tx"] = c, lk'["cons"] = c, lk'["pr"] = c, plic' = c)
      <4>1. CpuNested(p, g, cpu'[c], HoldsTx(g), HoldsCons(g), HoldsPr(g), plic = c)
        <5>1. CASE Depth(g) = Depth(i) + 1 /\ cpu'[c] = push_off(cpu[c])
          BY SMTT(30), <3>1, <3>2, <5>1, <1>MoreIntr
        <5>2. CASE Depth(i) = Depth(g) + 1 /\ cpu'[c] = pop_off(cpu[c])
          BY SMTT(30), <3>1, <3>2, <5>2, <1>LessIntr
        <5>3. CASE Depth(g) = Depth(i) /\ cpu'[c] = cpu[c]
          BY SMTT(30), <3>1, <3>2, <5>3, <1>SameIntr
        <5> QED
          BY <2>6, <5>1, <5>2, <5>3
      <4> QED
        BY SMTT(30), <2>2, <4>1 DEF CpuNested
    <3> QED
      BY <2>2, <2>5, <2>8, <3>2, <1>IntrStep
  <2> QED
    BY <2>7, <2>8
\* What a running context holds is what its CPU holds.
<1>RunningHolds.
  ASSUME NestInv, NEW c \in CPUs, NEW s \in {"proc", "intr"},
         s = "proc" => frame[<<c, "intr">>].pc = "idle",
         s = "intr" => frame[<<c, "intr">>].pc # "idle"
  PROVE  /\ s = "proc" => ProcFrame(frame[<<c, s>>])
         /\ s = "intr" => IntrFrame(frame[<<c, s>>])
         /\ lk["tx"] = c <=> HoldsTx(frame[<<c, s>>])
         /\ lk["cons"] = c <=> HoldsCons(frame[<<c, s>>])
         /\ lk["pr"] = c <=> HoldsPr(frame[<<c, s>>])
         /\ cpu[c] \in CpuStates
         /\ Depth(frame[<<c, s>>]) > 0 => ~pop_panics(cpu[c])
  <2> USE <1>RunningHolds
  <2> DEFINE p == frame[<<c, "proc">>]
             i == frame[<<c, "intr">>]
  <2>1. CpuNested(p, i, cpu[c], lk["tx"] = c, lk["cons"] = c, lk["pr"] = c, plic = c)
    BY DEF NestInv, Nested
  <2>2. Depth(p) \in Nat /\ Depth(i) \in Nat
    BY DepthNat
  <2>3. CASE s = "proc"
    BY SMTT(30), <2>1, <2>2, <2>3, IdleDepth DEF CpuNested, pop_panics
  <2>4. CASE s = "intr"
    BY SMTT(30), <2>1, <2>2, <2>4, <1>FreeDepth DEF CpuNested, pop_panics
  <2> QED
    BY <2>3, <2>4
\* System calls that begin, and acquire a lock.
<1>CallNest.
  ASSUME NestInv, NEW x \in Contexts, NEW n,
         printf(x) \/ (n \in Ns /\ (consolewrite(x, n) \/ consoleread(x, n)))
  PROVE  NestInv'
  <2> USE <1>CallNest
  <2>1. x[2] = "proc" /\ At(x, "idle") /\ plic' = plic
    BY DEF printf, consolewrite, consoleread, Call, uart
  <2>2. PICK c \in CPUs :
          /\ x = <<c, "proc">> /\ CpuOf(x) = c
          /\ frame[<<c, "intr">>].pc = "idle"
          /\ frame[x].pc = "idle" /\ ProcFrame(frame[x])
          /\ frame[x] \in Frames /\ NoReturn(frame[x])
    BY <2>1, ProcAt
  <2>3. Depth(frame[x]) = 0
    BY SMTT(30), <2>2, AtPlace DEF One
  <2>4. CASE printf(x)
    <3> DEFINE o == frame[x]
               one == 1
               f == [o EXCEPT !.k = one, !.ret = "pf_return"]
    <3>1. ThenAcquire(x, f, "pr", "lsr")
      BY <2>4 DEF printf, ThenPrintf
    <3>3. o \in Frames /\ o.lock = None /\ o.next = None
      BY <2>2 DEF NoReturn
    <3>4. one \in Int
      BY SMTT(30)
    <3> HIDE DEF o, one
    <3>2. f \in Frames /\ f.lock = None /\ f.next = None /\ f.ret = "pf_return"
      <4>1. "pf_return" \in Places
        BY DEF Places
      <4> QED
        BY <3>3, <3>4, <4>1 DEF Frames
    <3> HIDE DEF f
    <3> QED
      BY <2>1, <2>2, <2>3, <3>1, <3>2, <1>ProcAcquires
  <2>5. CASE n \in Ns /\ consolewrite(x, n)
    <3> DEFINE f == [Idle EXCEPT !.n = n - Batch(n), !.k = Batch(n)]
    <3>1. ThenAcquire(x, f, "tx", "uw")
      BY <2>5 DEF consolewrite
    <3>2. n - Batch(n) \in Int /\ Batch(n) \in Int
      BY SMTT(30), <2>5, ConsoleAssumption DEF Batch
    <3>3. f \in Frames /\ f.lock = None /\ f.next = None /\ f.ret = None
      BY <3>2, IdleFrame DEF Frames, NoReturn
    <3> HIDE DEF f
    <3> QED
      BY <2>1, <2>2, <2>3, <3>1, <3>3, <1>ProcAcquires
  <2>6. CASE n \in Ns /\ consoleread(x, n)
    <3> DEFINE f == [Idle EXCEPT !.n = n]
    <3>1. ThenAcquire(x, f, "cons", "cr")
      BY <2>6 DEF consoleread
    <3>2. n \in Int
      BY SMTT(30), <2>6, ConsoleAssumption
    <3>3. f \in Frames /\ f.lock = None /\ f.next = None /\ f.ret = None
      BY <3>2, IdleFrame DEF Frames, NoReturn
    <3> HIDE DEF f
    <3> QED
      BY <2>1, <2>2, <2>3, <3>1, <3>3, <1>ProcAcquires
  <2> QED
    BY <2>4, <2>5, <2>6
\* A system call acquires its lock again after sleep(), or for the next batch.
<1>AgainNest.
  ASSUME NestInv, NEW x \in Contexts,
         uartwrite_woken(x) \/ consolewrite_next(x) \/ consoleread_woken(x)
  PROVE  NestInv'
  <2> USE <1>AgainNest
  <2>1. PICK pc \in {"tx_woken", "cw_next", "cons_woken"} : At(x, pc)
    BY DEF uartwrite_woken, consolewrite_next, consoleread_woken, Step
  <2>2. plic' = plic
    BY DEF uartwrite_woken, consolewrite_next, consoleread_woken, uart
  <2>3. PICK c \in CPUs :
          /\ x = <<c, "proc">> /\ CpuOf(x) = c
          /\ frame[<<c, "intr">>].pc = "idle"
          /\ frame[x].pc = pc /\ ProcFrame(frame[x])
          /\ frame[x] \in Frames /\ NoReturn(frame[x])
    BY <2>1, ProcAt
  <2>4. Depth(frame[x]) = 0
    BY SMTT(30), <2>3, AtPlace DEF One
  <2>5. frame[x].lock = None /\ frame[x].next = None /\ frame[x].ret = None
    BY <2>3 DEF NoReturn
  <2>6. CASE uartwrite_woken(x)
    <3>1. ThenAcquire(x, frame[x], "tx", "uw")
      BY <2>6 DEF uartwrite_woken
    <3> QED
      BY <2>2, <2>3, <2>4, <2>5, <3>1, <1>ProcAcquires
  <2>7. CASE consolewrite_next(x)
    <3> DEFINE n == frame[x].n
               f == [Idle EXCEPT !.n = n - Batch(n), !.k = Batch(n)]
    <3>1. ThenAcquire(x, f, "tx", "uw")
      BY <2>7 DEF consolewrite_next
    <3>2. n - Batch(n) \in Int /\ Batch(n) \in Int
      <4>1. n \in Int
        BY <2>3 DEF Frames
      <4> QED
        BY SMTT(30), <4>1, ConsoleAssumption DEF Batch
    <3> HIDE DEF n
    <3>3. f \in Frames /\ f.lock = None /\ f.next = None /\ f.ret = None
      BY <3>2, IdleFrame DEF Frames, NoReturn
    <3> HIDE DEF f
    <3> QED
      BY <2>2, <2>3, <2>4, <3>1, <3>3, <1>ProcAcquires
  <2>8. CASE consoleread_woken(x)
    <3>1. ThenAcquire(x, frame[x], "cons", "cr")
      BY <2>8 DEF consoleread_woken
    <3> QED
      BY <2>2, <2>3, <2>4, <2>5, <3>1, <1>ProcAcquires
  <2> QED
    BY <2>6, <2>7, <2>8
\* A system call releases its lock to return, to sleep or for the next batch.
<1>DoneNest.
  ASSUME NestInv, NEW x \in Contexts,
         \/ printf_return(x) \/ uartwrite_end(x) \/ consoleread_sleep(x) \/ consoleread_return(x)
         \/ uartwrite(x) /\ ThenRelease(x, "tx", "tx_chan")
  PROVE  NestInv'
  <2> USE <1>DoneNest
  <2>1. plic' = plic
    BY DEF printf_return, uartwrite, uartwrite_end, consoleread_sleep, consoleread_return, uart
  <2>2. PICK pc \in {"pf_return", "uw", "cr_sleep", "cr", "cr_return"} :
          /\ At(x, pc)
          /\ \/ pc = "pf_return" /\ Return(x, "pr")
             \/ pc = "uw" /\ Return(x, "tx")
             \/ pc \in {"cr", "cr_return"} /\ Return(x, "cons")
             \/ pc = "uw" /\ ThenRelease(x, "tx", "tx_chan")
             \/ pc = "uw" /\ ThenRelease(x, "tx", "cw_next")
             \/ pc = "cr_sleep" /\ ThenRelease(x, "cons", "cons_r")
    BY DEF printf_return, uartwrite, uartwrite_end, consoleread_sleep, consoleread_return, Step
  <2>3. PICK c \in CPUs :
          /\ x = <<c, "proc">> /\ CpuOf(x) = c
          /\ frame[<<c, "intr">>].pc = "idle"
          /\ frame[x].pc = pc /\ ProcFrame(frame[x])
          /\ frame[x] \in Frames /\ NoReturn(frame[x])
    BY <2>2, ProcAt
  <2>4. PICK l \in Locks, g \in {Idle} \cup {[frame[x] EXCEPT !.pc = p] : p \in {"tx_chan", "cw_next", "cons_r"}} :
          /\ release(c, l) /\ frame' = [frame EXCEPT ![x] = g]
          /\ \/ pc = "pf_return" /\ l = "pr"
             \/ pc = "uw" /\ l = "tx"
             \/ pc \in {"cr", "cr_sleep", "cr_return"} /\ l = "cons"
    BY SMTT(30), <2>2, <2>3, LockSet DEF Return, ThenRelease, Then
  <2>5. ProcFrame(g) /\ g.pc \in {"idle", "tx_chan", "cw_next", "cons_r"}
    <3>1. CASE g = Idle
      BY <3>1, IdleFrame
    <3>2. CASE \E p \in {"tx_chan", "cw_next", "cons_r"} : g = [frame[x] EXCEPT !.pc = p]
      <4> DEFINE o == frame[x]
      <4>1. PICK p \in {"tx_chan", "cw_next", "cons_r"} : g = [o EXCEPT !.pc = p]
        BY <3>2
      <4>2. p \in Places
        BY DEF Places
      <4>3. o \in Frames /\ NoReturn(o)
        BY <2>3
      <4> HIDE DEF o
      <4>4. g \in Frames /\ g.pc = p /\ NoReturn(g)
        BY <4>1, <4>2, <4>3 DEF Frames, NoReturn
      <4> QED
        BY <4>4 DEF ProcFrame
    <3> QED
      BY <3>1, <3>2
  <2> QED
    BY <2>1, <2>3, <2>4, <2>5, <1>ProcReleases
\* A system call goes on under its lock.
<1>GoOnNest.
  ASSUME NestInv, DataTypes, NEW x \in Contexts,
         \/ uartwrite(x) /\ uartwrite_thr(x)
         \/ consoleread_wait(x) \/ consoleread_char(x)
  PROVE  NestInv'
  <2> USE <1>GoOnNest
  <2>1. UNCHANGED <<locks, plic>>
    BY DEF uartwrite, uartwrite_thr, consoleread_wait, consoleread_char, uart
  <2>2. PICK pc \in {"uw", "cr"} : At(x, pc) /\ (pc = "uw" <=> uartwrite(x) /\ uartwrite_thr(x))
    BY DEF uartwrite, consoleread_wait, consoleread_char, Step, At
  <2>3. PICK c \in CPUs :
          /\ x = <<c, "proc">> /\ CpuOf(x) = c
          /\ frame[<<c, "intr">>].pc = "idle"
          /\ frame[x].pc = pc /\ ProcFrame(frame[x])
          /\ frame[x] \in Frames /\ NoReturn(frame[x])
    BY <2>2, ProcAt
  <2> DEFINE o == frame[x]
  <2>4. o \in Frames /\ NoReturn(o) /\ o.pc = pc /\ o.n \in Int /\ o.i \in Int /\ o.k \in Int
    BY SMTT(30), <2>3 DEF Frames
  <2>5. \E g \in Frames :
          /\ frame' = [frame EXCEPT ![x] = g] /\ NoReturn(g)
          /\ g.pc \in {"uw", "cr", "cr_sleep", "cr_return"}
          /\ g.pc = "uw" <=> pc = "uw"
    <3>1. CASE uartwrite(x) /\ uartwrite_thr(x)
      <4> DEFINE k == o.k - 1
                 g == [o EXCEPT !.k = k]
      <4>1. frame' = [frame EXCEPT ![x] = g]
        BY <3>1 DEF uartwrite_thr
      <4>2. k \in Int
        BY SMTT(30), <2>4
      <4> HIDE DEF o, k
      <4>3. g \in Frames /\ NoReturn(g) /\ g.pc = o.pc
        BY <2>4, <4>2 DEF Frames, NoReturn
      <4> QED
        BY <2>2, <2>4, <3>1, <4>1, <4>3
    <3>2. CASE consoleread_wait(x)
      <4> DEFINE p == IF killed[CpuOf(x)] THEN "cr_return" ELSE "cr_sleep"
                 g == [o EXCEPT !.pc = p]
      <4>1. frame' = [frame EXCEPT ![x] = g]
        BY <3>2 DEF consoleread_wait, Then
      <4>2. p \in {"cr_return", "cr_sleep"} /\ p \in Places
        BY DEF Places
      <4> HIDE DEF o, p
      <4>3. g \in Frames /\ NoReturn(g) /\ g.pc = p
        BY <2>4, <4>2 DEF Frames, NoReturn
      <4>4. pc = "cr"
        BY <2>3, <3>2 DEF consoleread_wait, Step, At
      <4> QED
        BY <4>1, <4>2, <4>3, <4>4
    <3>3. CASE consoleread_char(x)
      <4>1. pc = "cr"
        BY <2>3, <3>3 DEF consoleread_char, Step, At
      <4>2. buf[r % SIZE] \in Codes /\ o.c \in Codes /\ "fault" \in Codes
        BY <2>4, SlotIn DEF DataTypes, Codes, Frames
      <4>3. PICK p \in {"cr", "cr_return"}, n \in Int, i \in Int, ch \in Codes :
              frame' = [frame EXCEPT ![x] = [o EXCEPT !.pc = p, !.n = n, !.i = i, !.c = ch]]
        <5> DEFINE ch == buf[r % SIZE]
        <5>1. CASE frame' = [frame EXCEPT ![x].pc = "cr_return", ![x].c = IF o.i > 0 THEN @ ELSE ch]
          <6> DEFINE d == IF o.i > 0 THEN o.c ELSE ch
          <6>1. frame' = [frame EXCEPT ![x] = [o EXCEPT !.pc = "cr_return", !.c = d]]
            BY <5>1, <2>3 DEF NestInv
          <6>2. [o EXCEPT !.pc = "cr_return", !.c = d]
                = [o EXCEPT !.pc = "cr_return", !.n = o.n, !.i = o.i, !.c = d]
            BY <2>4 DEF Frames
          <6>3. d \in Codes
            BY <4>2
          <6> QED
            BY <2>4, <6>1, <6>2, <6>3
        <5>2. CASE frame' = [frame EXCEPT ![x].pc = IF ch = "nl" THEN "cr_return" ELSE "cr",
                                          ![x].n = @ - 1, ![x].i = @ + 1, ![x].c = ch]
          <6> DEFINE p == IF ch = "nl" THEN "cr_return" ELSE "cr"
                     n == o.n - 1
                     i == o.i + 1
          <6>1. frame' = [frame EXCEPT ![x] = [o EXCEPT !.pc = p, !.n = n, !.i = i, !.c = ch]]
            BY <5>2, <2>3 DEF NestInv
          <6>2. p \in {"cr", "cr_return"} /\ n \in Int /\ i \in Int /\ ch \in Codes
            BY SMTT(30), <2>4, <4>2
          <6> HIDE DEF p, n, i, ch
          <6> QED
            BY <6>1, <6>2
        <5>3. CASE frame' = [frame EXCEPT ![x].pc = "cr_return", ![x].c = "fault"]
          <6>1. frame' = [frame EXCEPT ![x] = [o EXCEPT !.pc = "cr_return", !.c = "fault"]]
            BY <5>3, <2>3 DEF NestInv
          <6>2. [o EXCEPT !.pc = "cr_return", !.c = "fault"]
                = [o EXCEPT !.pc = "cr_return", !.n = o.n, !.i = o.i, !.c = "fault"]
            BY <2>4 DEF Frames
          <6> QED
            BY <2>4, <4>2, <6>1, <6>2
        <5> QED
          BY <3>3, <5>1, <5>2, <5>3 DEF consoleread_char
      <4> DEFINE g == [o EXCEPT !.pc = p, !.n = n, !.i = i, !.c = ch]
      <4>4. p \in Places
        BY DEF Places
      <4> HIDE DEF o
      <4>5. g \in Frames /\ NoReturn(g) /\ g.pc = p
        BY <2>4, <4>4 DEF Frames, NoReturn
      <4> QED
        BY <4>1, <4>3, <4>5
    <3> QED
      BY <3>1, <3>2, <3>3
  <2>6. PICK g \in Frames :
          /\ frame' = [frame EXCEPT ![x] = g] /\ NoReturn(g)
          /\ g.pc \in {"uw", "cr", "cr_sleep", "cr_return"}
          /\ g.pc = "uw" <=> pc = "uw"
    BY <2>5
  <2>7. ProcFrame(g)
    BY <2>6 DEF ProcFrame
  <2>8. /\ HoldsTx(g) <=> HoldsTx(frame[x])
        /\ HoldsCons(g) <=> HoldsCons(frame[x])
        /\ HoldsPr(g) <=> HoldsPr(frame[x])
        /\ Depth(g) = Depth(frame[x])
    BY <2>2, <2>3, <2>6, <2>7, AtPlace DEF One
  <2> QED
    BY <2>1, <2>3, <2>6, <2>7, <2>8, <1>ProcSame
\* kkill() wakes at most the process it kills.
<1>KillNest.
  ASSUME NestInv, NEW c \in CPUs, kkill(c)
  PROVE  NestInv'
  <2> USE <1>KillNest
  <2> DEFINE x == <<c, "proc">>
  <2>1. UNCHANGED <<locks, plic>> /\ x \in Contexts
    BY DEF kkill, uart, Contexts
  <2>2. ProcFrame(frame[x])
    BY DEF NestInv, Nested, CpuNested
  <2>3. PICK g : Roused(frame[x], g) /\ frame' = [frame EXCEPT ![x] = g]
    <3>1. DOMAIN WokenOn = {"tx_chan", "cons_r"}
      BY DEF WokenOn
    <3>2. CASE frame[x].pc \in {"tx_chan", "cons_r"}
      <4>1. frame' = [frame EXCEPT ![x] = [frame[x] EXCEPT !.pc = WokenOn[frame[x].pc]]]
        BY <3>1, <3>2 DEF kkill
      <4> QED
        BY <3>2, <4>1 DEF Roused
    <3>3. CASE frame[x].pc \notin {"tx_chan", "cons_r"}
      <4>1. frame' = frame
        BY <3>1, <3>3 DEF kkill
      <4>2. frame' = [frame EXCEPT ![x] = frame[x]]
        BY <2>1, <4>1 DEF NestInv
      <4> QED
        BY <4>2 DEF Roused
    <3> QED
      BY <3>2, <3>3
  <2> QED
    BY <2>1, <2>2, <2>3, <1>RousedProc, <1>ProcSame
\* The swap that finds the lock free.
<1>SpinNest.
  ASSUME NestInv, NEW x \in Contexts, spin(x)
  PROVE  NestInv'
  <2> USE <1>SpinNest
  <2>1. PICK c \in CPUs, s \in {"proc", "intr"} :
          /\ x = <<c, s>> /\ CpuOf(x) = c /\ frame[x].pc = "spin" /\ frame[x] \in Frames
          /\ s = "proc" => frame[<<c, "intr">>].pc = "idle" /\ ProcFrame(frame[x])
          /\ s = "intr" => frame[<<c, "intr">>].pc # "idle" /\ IntrFrame(frame[x])
    BY InsideAt DEF spin, Step
  <2> DEFINE o == frame[x]
             l == o.lock
             g == [o EXCEPT !.pc = o.next, !.lock = None, !.next = None]
  <2>2. /\ lk[l] = None /\ lk' = [lk EXCEPT ![l] = c]
        /\ frame' = [frame EXCEPT ![x] = g]
        /\ UNCHANGED <<cpu, panic, plic>>
    BY <2>1 DEF spin, acquire_swap, uart, NestInv
  <2>3. /\ s = "proc" => ProcFrame(o)
        /\ s = "intr" => IntrFrame(o)
        /\ lk["tx"] = c <=> HoldsTx(o)
        /\ lk["cons"] = c <=> HoldsCons(o)
        /\ lk["pr"] = c <=> HoldsPr(o)
    BY <2>1, <1>RunningHolds
  <2>4. o \in Frames /\ o.pc = "spin"
    BY <2>1
  <2>5. s = "proc" => frame[<<c, "intr">>].pc = "idle"
    BY <2>1
  <2>6. s = "intr" => frame[<<c, "intr">>].pc # "idle"
    BY <2>1
  <2> HIDE DEF o
  <2>7. /\ l \in Locks /\ o.next \in Places
        /\ s = "proc" => \/ l = "pr" /\ o.next = "lsr" /\ o.ret = "pf_return"
                         \/ l = "tx" /\ o.next = "uw" /\ o.ret = None
                         \/ l = "cons" /\ o.next = "cr" /\ o.ret = None
        /\ s = "intr" => \/ l = "pr" /\ o.next = "lsr" /\ o.ret = "dump_end"
                         \/ l = "tx" /\ o.next = "tx_done" /\ o.ret = None
                         \/ l = "cons" /\ o.next = "echo" /\ o.ret = None
    BY <2>3, <2>4, LockSet DEF ProcFrame, IntrFrame, Places
  <2>8. g \in Frames /\ g.pc = o.next /\ g.lock = None /\ g.next = None /\ g.ret = o.ret
    BY <2>4, <2>7 DEF Frames
  <2> HIDE DEF g
  <2>9. (s = "proc" => ProcFrame(g)) /\ (s = "intr" => IntrFrame(g) /\ g.pc # "idle")
    BY <2>7, <2>8 DEF ProcFrame, IntrFrame, NoReturn
  <2>10. /\ HoldsTx(g) <=> HoldsTx(o) \/ l = "tx"
         /\ HoldsCons(g) <=> HoldsCons(o) \/ l = "cons"
         /\ HoldsPr(g) <=> HoldsPr(o) \/ l = "pr"
         /\ Depth(g) = Depth(o)
    <3>1. CASE s = "proc"
      BY SMTT(30), <2>4, <2>7, <2>8, <3>1, NotNone DEF HoldsTx, HoldsCons, HoldsPr, Depth, One
    <3>2. CASE s = "intr"
      BY SMTT(30), <2>4, <2>7, <2>8, <3>2, NotNone DEF HoldsTx, HoldsCons, HoldsPr, Depth, One
    <3> QED
      BY <3>1, <3>2
  <2> HIDE DEF l
  <2>11. /\ lk' \in [Locks -> CPUs \cup {None}]
         /\ \A d \in CPUs \ {c} : \A m \in Locks : lk'[m] = d <=> lk[m] = d
         /\ \A m \in Locks : lk'[m] = c <=> m = l \/ lk[m] = c
    BY <2>2, <2>7, <1>AcquireLocks
  <2>12. /\ lk'["tx"] = c <=> HoldsTx(g)
         /\ lk'["cons"] = c <=> HoldsCons(g)
         /\ lk'["pr"] = c <=> HoldsPr(g)
    BY <2>3, <2>10, <2>11, LockSet
  <2>13. Depth(g) = Depth(frame[<<c, s>>]) /\ ~panic' /\ plic' = plic /\ cpu' = cpu
    BY <2>1, <2>2, <2>10 DEF o, NestInv
  <2>14. frame' = [frame EXCEPT ![<<c, s>>] = g]
    BY <2>1, <2>2
  <2> QED
    BY <2>5, <2>6, <2>9, <2>11, <2>12, <2>13, <2>14, <1>CtxStep
\* uartputc_sync() turns interrupts off to write a character, and on again.
<1>PutNest.
  ASSUME NestInv, NEW x \in Contexts, uartputc_lsr(x) \/ uartputc_thr(x)
  PROVE  NestInv'
  <2> USE <1>PutNest
  <2>1. PICK pc \in {"lsr", "thr"} :
          /\ At(x, pc) /\ (pc = "lsr" => uartputc_lsr(x)) /\ (pc = "thr" => uartputc_thr(x))
    BY DEF uartputc_lsr, uartputc_thr, Step
  <2>2. PICK c \in CPUs, s \in {"proc", "intr"} :
          /\ x = <<c, s>> /\ CpuOf(x) = c /\ frame[x].pc = pc /\ frame[x] \in Frames
          /\ s = "proc" => frame[<<c, "intr">>].pc = "idle" /\ ProcFrame(frame[x])
          /\ s = "intr" => frame[<<c, "intr">>].pc # "idle" /\ IntrFrame(frame[x])
    BY <2>1, InsideAt
  <2> DEFINE o == frame[x]
  <2>3. /\ s = "proc" => ProcFrame(o)
        /\ s = "intr" => IntrFrame(o)
        /\ lk["tx"] = c <=> HoldsTx(o)
        /\ lk["cons"] = c <=> HoldsCons(o)
        /\ lk["pr"] = c <=> HoldsPr(o)
        /\ Depth(o) > 0 => ~pop_panics(cpu[c])
    BY <2>2, <1>RunningHolds
  <2>4. /\ o \in Frames /\ o.pc = pc
        /\ s = "proc" => frame[<<c, "intr">>].pc = "idle"
        /\ s = "intr" => frame[<<c, "intr">>].pc # "idle"
    BY <2>2
  <2>5. lk' = lk /\ plic' = plic
    BY <2>1 DEF uartputc_lsr, uartputc_thr, uart
  <2>6. PICK g \in Frames :
          /\ frame' = [frame EXCEPT ![x] = g] /\ g.lock = o.lock /\ g.next = o.next
          /\ \/ pc = "lsr" /\ g.pc = "thr" /\ g.ret = o.ret
             \/ pc = "thr" /\ g.pc = "lsr" /\ g.ret = o.ret
             \/ pc = "thr" /\ g.pc = o.ret /\ g.ret = None
    <3>1. "thr" \in Places /\ "lsr" \in Places /\ o.ret \in Places /\ o.k \in Int
      BY <2>1, <2>3, <2>4 DEF ProcFrame, IntrFrame, Places, Frames
    <3>2. CASE pc = "lsr"
      <4> DEFINE g == [o EXCEPT !.pc = "thr"]
      <4>1. frame' = [frame EXCEPT ![x] = g]
        BY <2>1, <3>2 DEF uartputc_lsr, Then
      <4> HIDE DEF o
      <4>2. g \in Frames /\ g.lock = o.lock /\ g.next = o.next /\ g.pc = "thr" /\ g.ret = o.ret
        BY <2>4, <3>1 DEF Frames
      <4> HIDE DEF g
      <4> QED
        BY <3>2, <4>1, <4>2
    <3>3. CASE pc = "thr" /\ o.k = 1
      <4> DEFINE z == 0
                 g == [o EXCEPT !.pc = o.ret, !.k = z, !.ret = None]
      <4>1. frame' = [frame EXCEPT ![x] = g]
        BY <2>1, <3>3 DEF uartputc_thr
      <4>2. z \in Int
        BY SMTT(30)
      <4> HIDE DEF o, z
      <4>3. g \in Frames /\ g.lock = o.lock /\ g.next = o.next /\ g.pc = o.ret /\ g.ret = None
        BY <2>4, <3>1, <4>2 DEF Frames
      <4> HIDE DEF g
      <4> QED
        BY <3>3, <4>1, <4>3
    <3>4. CASE pc = "thr" /\ o.k # 1
      <4> DEFINE k == o.k - 1
                 g == [o EXCEPT !.pc = "lsr", !.k = k]
      <4>1. frame' = [frame EXCEPT ![x] = g]
        BY <2>1, <3>4 DEF uartputc_thr
      <4>2. k \in Int
        BY SMTT(30), <3>1
      <4> HIDE DEF o, k
      <4>3. g \in Frames /\ g.lock = o.lock /\ g.next = o.next /\ g.pc = "lsr" /\ g.ret = o.ret
        BY <2>4, <3>1, <4>2 DEF Frames
      <4> HIDE DEF g
      <4> QED
        BY <3>4, <4>1, <4>3
    <3> QED
      BY <3>2, <3>3, <3>4
  <2>7. o.lock = None /\ o.next = None
    BY <2>3, <2>4 DEF ProcFrame, IntrFrame
  <2>8. /\ s = "proc" => o.ret = "pf_return"
        /\ s = "intr" => o.ret \in {"edit", "dump_end"}
    BY <2>3, <2>4 DEF ProcFrame, IntrFrame
  <2> HIDE DEF o
  <2>9. (s = "proc" => ProcFrame(g)) /\ (s = "intr" => IntrFrame(g) /\ g.pc # "idle")
    BY <2>6, <2>7, <2>8 DEF ProcFrame, IntrFrame, NoReturn
  <2>10. /\ HoldsTx(g) <=> HoldsTx(o)
         /\ HoldsCons(g) <=> HoldsCons(o)
         /\ HoldsPr(g) <=> HoldsPr(o)
         /\ pc = "lsr" => Depth(g) = Depth(o) + 1
         /\ pc = "thr" => Depth(o) = Depth(g) + 1
    <3>1. CASE s = "proc"
      BY SMTT(30), <2>4, <2>6, <2>8, <3>1, NotNone DEF HoldsTx, HoldsCons, HoldsPr, Depth, One
    <3>2. CASE s = "intr"
      BY SMTT(30), <2>4, <2>6, <2>8, <3>2, NotNone DEF HoldsTx, HoldsCons, HoldsPr, Depth, One
    <3> QED
      BY <3>1, <3>2
  <2>11. /\ lk' \in [Locks -> CPUs \cup {None}]
         /\ \A d \in CPUs \ {c} : \A m \in Locks : lk'[m] = d <=> lk[m] = d
         /\ lk'["tx"] = c <=> HoldsTx(g)
         /\ lk'["cons"] = c <=> HoldsCons(g)
         /\ lk'["pr"] = c <=> HoldsPr(g)
    BY <2>3, <2>5, <2>10 DEF NestInv
  <2>12. /\ \/ Depth(g) = Depth(frame[<<c, s>>]) + 1 /\ cpu' = [cpu EXCEPT ![c] = push_off(cpu[c])]
            \/ Depth(frame[<<c, s>>]) = Depth(g) + 1 /\ cpu' = [cpu EXCEPT ![c] = pop_off(cpu[c])]
         /\ ~panic'
    <3>1. o = frame[<<c, s>>]
      BY <2>2 DEF o
    <3>2. CASE pc = "lsr"
      BY SMTT(30), <2>1, <2>2, <2>10, <3>1, <3>2 DEF uartputc_lsr, NestInv
    <3>3. CASE pc = "thr"
      <4>1. Depth(o) = Depth(g) + 1 /\ Depth(g) \in Nat
        BY <2>10, <3>3, DepthNat
      <4>2. ~pop_panics(cpu[c])
        BY SMTT(30), <2>3, <4>1
      <4> QED
        BY <2>1, <2>2, <3>1, <3>3, <4>1, <4>2 DEF uartputc_thr, NestInv
    <3> QED
      BY <3>2, <3>3
  <2>13. frame' = [frame EXCEPT ![<<c, s>>] = g]
    BY <2>2, <2>6
  <2>14. NestInv /\ plic' = plic /\ ~panic'
    BY <2>5, <2>12
  <2>15. /\ s = "proc" => ProcFrame(g) /\ frame[<<c, "intr">>].pc = "idle"
         /\ s = "intr" => IntrFrame(g) /\ g.pc # "idle" /\ frame[<<c, "intr">>].pc # "idle"
    BY <2>4, <2>9
  <2> QED
    BY ONLY Zenon, <2>11, <2>12, <2>13, <2>14, <2>15, <1>CtxStep
<1>SettledIntr.
  ASSUME NEW o \in Frames, NoReturn(o), NEW p \in {"getc", "edit", "complete"}, NEW ch \in Codes
  PROVE  LET g == [o EXCEPT !.pc = p, !.c = ch]
         IN  g \in Frames /\ IntrFrame(g) /\ NoReturn(g) /\ g.pc = p
  <2> USE <1>SettledIntr
  <2> DEFINE g == [o EXCEPT !.pc = p, !.c = ch]
  <2>1. p \in Places
    BY DEF Places
  <2>2. g \in Frames /\ NoReturn(g) /\ g.pc = p
    BY <2>1 DEF Frames, NoReturn
  <2>3. IntrFrame(g)
    BY <2>2 DEF IntrFrame
  <2> QED
    BY <2>2, <2>3
<1>MovedIntr.
  ASSUME NEW o \in Frames, NoReturn(o), NEW p \in {"getc", "edit", "complete"}
  PROVE  LET g == [o EXCEPT !.pc = p]
         IN  g \in Frames /\ IntrFrame(g) /\ NoReturn(g) /\ g.pc = p
  <2> USE <1>MovedIntr
  <2> DEFINE g == [o EXCEPT !.pc = p]
  <2>1. p \in Places
    BY DEF Places
  <2>2. g \in Frames /\ NoReturn(g) /\ g.pc = p
    BY <2>1 DEF Frames, NoReturn
  <2>3. IntrFrame(g)
    BY <2>2 DEF IntrFrame
  <2> QED
    BY <2>2, <2>3
\* The handler releases a lock and wakes.
<1>IntrDoneNest.
  ASSUME NestInv, NEW x \in Contexts, uartintr_tx(x) \/ procdump_end(x) \/ consoleintr(x)
  PROVE  NestInv'
  <2> USE <1>IntrDoneNest
  <2>1. plic' = plic
    BY DEF uartintr_tx, procdump_end, consoleintr, uart
  <2>2. PICK pc \in {"tx_done", "dump_end", "edit"} :
          /\ At(x, pc)
          /\ pc = "tx_done" => uartintr_tx(x)
          /\ pc = "dump_end" => procdump_end(x)
          /\ pc = "edit" => consoleintr(x)
    BY DEF uartintr_tx, procdump_end, consoleintr, Step
  <2>3. PICK c \in CPUs :
          /\ x = <<c, "intr">> /\ CpuOf(x) = c
          /\ frame[x].pc = pc /\ IntrFrame(frame[x])
          /\ frame[x] \in Frames /\ NoReturn(frame[x])
    BY <2>2, IntrAt
  <2> DEFINE o == frame[x]
  <2>4. o \in Frames /\ NoReturn(o) /\ o.c \in Codes /\ None \in Codes
    BY <2>3 DEF Frames, Codes
  <2>5. frame \in [Contexts -> Frames] /\ x \in Contexts
    BY DEF NestInv
  <2>6. CASE pc = "tx_done"
    <3> DEFINE g == [o EXCEPT !.pc = "getc"]
    <3>1. IntrFrame(g) /\ g \in Frames /\ g.pc = "getc"
      <4> HIDE DEF o
      <4> QED
        BY <2>4, <1>MovedIntr
    <3>2. \/ frame' = [frame EXCEPT ![x] = g]
          \/ frame' = Woken([frame EXCEPT ![x] = g], "tx_chan")
      BY <2>2, <2>6 DEF uartintr_tx, TxWakeup
    <3> HIDE DEF g
    <3>3. frame' \in [Contexts -> Frames] /\ Kept(x) /\ frame'[x] = g
      BY <2>5, <3>1, <3>2, <1>KeptAlone, WokenKept
    <3>4. release(c, "tx")
      BY <2>2, <2>3, <2>6 DEF uartintr_tx
    <3> QED
      BY <2>1, <2>3, <2>6, <3>1, <3>3, <3>4, <1>IntrReleases
  <2>7. CASE pc = "dump_end"
    <3> DEFINE g == [o EXCEPT !.pc = "edit"]
    <3>1. IntrFrame(g) /\ g \in Frames /\ g.pc = "edit"
      <4> HIDE DEF o
      <4> QED
        BY <2>4, <1>MovedIntr
    <3>2. frame' = [frame EXCEPT ![x] = g]
      BY <2>2, <2>7 DEF procdump_end, ThenRelease, Then
    <3> HIDE DEF g
    <3>3. frame' \in [Contexts -> Frames] /\ Kept(x) /\ frame'[x] = g
      BY <2>5, <3>1, <3>2, <1>KeptAlone
    <3>4. release(c, "pr")
      BY <2>2, <2>3, <2>7 DEF procdump_end, ThenRelease
    <3> QED
      BY <2>1, <2>3, <2>7, <3>1, <3>3, <3>4, <1>IntrReleases
  <2>8. CASE pc = "edit"
    <3> DEFINE g == [o EXCEPT !.pc = "getc", !.c = None]
    <3>1. IntrFrame(g) /\ g \in Frames /\ g.pc = "getc"
      <4> HIDE DEF o
      <4> QED
        BY <2>4, <1>SettledIntr
    <3>2. \/ frame' = [frame EXCEPT ![x] = g]
          \/ frame' = Woken([frame EXCEPT ![x] = g], "cons_r")
      <4>1. [frame EXCEPT ![x].pc = "getc", ![x].c = None] = [frame EXCEPT ![x] = g]
        BY <2>5
      <4>2. \/ frame' = [frame EXCEPT ![x].pc = "getc", ![x].c = None]
            \/ frame' = Woken([frame EXCEPT ![x].pc = "getc", ![x].c = None], "cons_r")
        BY <2>2, <2>8 DEF consoleintr
      <4> QED
        BY <4>1, <4>2
    <3> HIDE DEF g
    <3>3. frame' \in [Contexts -> Frames] /\ Kept(x) /\ frame'[x] = g
      BY <2>5, <3>1, <3>2, <1>KeptAlone, WokenKept
    <3>4. release(c, "cons")
      BY <2>2, <2>3, <2>8 DEF consoleintr
    <3> QED
      BY <2>1, <2>3, <2>8, <3>1, <3>3, <3>4, <1>IntrReleases
  <2> QED
    BY <2>6, <2>7, <2>8
\* The handler takes a character, or has none left.
<1>GetcNest.
  ASSUME NestInv, DataTypes, NEW x \in Contexts, uartgetc(x)
  PROVE  NestInv'
  <2> USE <1>GetcNest
  <2>1. PICK c \in CPUs :
          /\ x = <<c, "intr">> /\ CpuOf(x) = c
          /\ frame[x].pc = "getc" /\ IntrFrame(frame[x])
          /\ frame[x] \in Frames /\ NoReturn(frame[x])
    BY IntrAt DEF uartgetc, Step
  <2> DEFINE o == frame[x]
  <2>2. o \in Frames /\ NoReturn(o) /\ o.pc = "getc" /\ plic' = plic
    BY <2>1 DEF uartgetc
  <2>3. CASE rx # <<>>
    <3> DEFINE ch == Head(rx)
               f == [o EXCEPT !.c = ch]
    <3>1. ThenAcquire(x, f, "cons", "echo")
      BY <2>3 DEF uartgetc
    <3>2. ch \in Codes
      BY SMTT(30), <2>3 DEF DataTypes, Codes, Keys
    <3> HIDE DEF o, ch
    <3>3. f \in Frames /\ f.lock = None /\ f.next = None /\ f.ret = None
      BY <2>2, <3>2 DEF Frames, NoReturn
    <3> HIDE DEF f
    <3> QED
      BY <2>1, <2>2, <3>1, <3>3, <1>IntrAcquires
  <2>4. CASE rx = <<>>
    <3> DEFINE g == [o EXCEPT !.pc = "complete"]
    <3>1. frame' = [frame EXCEPT ![x] = g] /\ UNCHANGED locks
      BY <2>4 DEF uartgetc, Then
    <3> HIDE DEF o
    <3>2. IntrFrame(g) /\ g.pc = "complete"
      BY <2>2, <1>MovedIntr
    <3> HIDE DEF g
    <3>3. /\ ~HoldsTx(o) /\ ~HoldsCons(o) /\ ~HoldsPr(o) /\ Depth(o) = 0
          /\ ~HoldsTx(g) /\ ~HoldsCons(g) /\ ~HoldsPr(g) /\ Depth(g) = 0
      BY SMTT(30), <2>1, <3>2, AtPlace DEF One, o
    <3>4. lk["tx"] # c /\ lk["cons"] # c /\ lk["pr"] # c
      BY <2>1, <3>3, <1>RunningHolds DEF o
    <3>5. lk' = lk /\ cpu' = cpu /\ ~panic'
      BY <3>1 DEF locks, NestInv
    <3>6. /\ lk' \in [Locks -> CPUs \cup {None}]
          /\ \A d \in CPUs \ {c} : \A m \in Locks : lk'[m] = d <=> lk[m] = d
          /\ lk'["tx"] = c <=> HoldsTx(g)
          /\ lk'["cons"] = c <=> HoldsCons(g)
          /\ lk'["pr"] = c <=> HoldsPr(g)
      BY <3>3, <3>4, <3>5 DEF NestInv
    <3>7. /\ frame' = [frame EXCEPT ![<<c, "intr">>] = g]
          /\ Depth(g) = Depth(frame[<<c, "intr">>])
          /\ IntrFrame(g) /\ g.pc # "idle" /\ frame[<<c, "intr">>].pc # "idle"
      BY <2>1, <3>1, <3>2, <3>3 DEF o
    <3> QED
      BY <2>2, <3>5, <3>6, <3>7, <1>CtxStep
  <2> QED
    BY <2>3, <2>4
\* The echo: by printf() for ^P, by uartputc_sync() for what there is to echo.
<1>EchoNest.
  ASSUME NestInv, DataTypes, \A a : Erased(a) \in Nat, NEW x \in Contexts, consoleintr_echo(x)
  PROVE  NestInv'
  <2> USE <1>EchoNest
  <2>1. PICK c \in CPUs :
          /\ x = <<c, "intr">> /\ CpuOf(x) = c
          /\ frame[x].pc = "echo" /\ IntrFrame(frame[x])
          /\ frame[x] \in Frames /\ NoReturn(frame[x])
    BY IntrAt DEF consoleintr_echo, Step
  <2> DEFINE o == frame[x]
             k == IF Stored(o.c) THEN 1 ELSE 3 * Erased(o.c)
  <2>2. o \in Frames /\ NoReturn(o) /\ o.pc = "echo" /\ plic' = plic
    BY <2>1 DEF consoleintr_echo, uart
  <2>3. k \in Int
    <3>1. Erased(o.c) \in Nat
      OBVIOUS
    <3> QED
      BY SMTT(30), <3>1
  <2>4. \/ ThenAcquire(x, [o EXCEPT !.k = 1, !.ret = "dump_end"], "pr", "lsr")
        \/ UNCHANGED locks /\ frame' = [frame EXCEPT ![x] = [o EXCEPT !.pc = "edit"]]
        \/ /\ UNCHANGED locks
           /\ frame' = [frame EXCEPT ![x] = [o EXCEPT !.pc = "lsr", !.k = k, !.ret = "edit"]]
    <3>1. \/ ThenPrintf(x, "dump_end")
          \/ UNCHANGED locks /\ Then(x, "edit")
          \/ UNCHANGED locks /\ ThenPut(x, k, "edit")
      BY DEF consoleintr_echo
    <3>2. ThenPut(x, k, "edit") =>
            frame' = [frame EXCEPT ![x] = [o EXCEPT !.pc = "lsr", !.k = k, !.ret = "edit"]]
      BY DEF ThenPut, NestInv
    <3> QED
      BY <3>1, <3>2 DEF ThenPrintf, Then
  <2>5. "lsr" \in Places /\ "edit" \in Places /\ "dump_end" \in Places
    BY DEF Places
  <2> HIDE DEF k
  <2>6. CASE ThenAcquire(x, [o EXCEPT !.k = 1, !.ret = "dump_end"], "pr", "lsr")
    <3> DEFINE one == 1
               f == [o EXCEPT !.k = one, !.ret = "dump_end"]
    <3>1. ThenAcquire(x, f, "pr", "lsr") /\ one \in Int
      BY SMTT(30), <2>6
    <3> HIDE DEF o, one
    <3>2. f \in Frames /\ f.lock = None /\ f.next = None /\ f.ret = "dump_end"
      BY <2>2, <2>5, <3>1 DEF Frames, NoReturn
    <3> HIDE DEF f
    <3> QED
      BY <2>1, <2>2, <3>1, <3>2, <1>IntrAcquires
  <2>7. ASSUME UNCHANGED locks, NEW g, frame' = [frame EXCEPT ![x] = g], IntrFrame(g),
               (g.pc = "edit" /\ NoReturn(g)) \/ (g.pc = "lsr" /\ g.ret = "edit")
        PROVE  NestInv'
    <3>1. HoldsCons(o) /\ ~HoldsTx(o) /\ ~HoldsPr(o) /\ Depth(o) = 1
      BY SMTT(30), <2>1, AtPlace DEF One
    <3>2. HoldsCons(g) /\ ~HoldsTx(g) /\ ~HoldsPr(g) /\ Depth(g) = 1
      BY SMTT(30), <2>7, NotNone DEF HoldsTx, HoldsCons, HoldsPr, Depth, One, NoReturn
    <3>3. lk["tx"] # c /\ lk["cons"] = c /\ lk["pr"] # c
      BY <2>1, <3>1, <1>RunningHolds
    <3>4. lk' = lk /\ cpu' = cpu /\ ~panic'
      BY <2>7 DEF locks, NestInv
    <3>5. /\ lk' \in [Locks -> CPUs \cup {None}]
          /\ \A d \in CPUs \ {c} : \A m \in Locks : lk'[m] = d <=> lk[m] = d
          /\ lk'["tx"] = c <=> HoldsTx(g)
          /\ lk'["cons"] = c <=> HoldsCons(g)
          /\ lk'["pr"] = c <=> HoldsPr(g)
      BY <3>2, <3>3, <3>4 DEF NestInv
    <3>6. /\ frame' = [frame EXCEPT ![<<c, "intr">>] = g]
          /\ Depth(g) = Depth(frame[<<c, "intr">>])
          /\ IntrFrame(g) /\ g.pc # "idle" /\ frame[<<c, "intr">>].pc # "idle"
      BY <2>1, <2>7, <3>1, <3>2
    <3> QED
      BY <2>2, <3>4, <3>5, <3>6, <1>CtxStep
  <2>8. CASE UNCHANGED locks /\ frame' = [frame EXCEPT ![x] = [o EXCEPT !.pc = "edit"]]
    <3> DEFINE g == [o EXCEPT !.pc = "edit"]
    <3>1. UNCHANGED locks /\ frame' = [frame EXCEPT ![x] = g]
      BY <2>8
    <3> HIDE DEF o
    <3>2. IntrFrame(g) /\ NoReturn(g) /\ g.pc = "edit"
      BY <2>2, <1>MovedIntr
    <3> HIDE DEF g
    <3> QED
      BY <2>7, <3>1, <3>2
  <2>9. CASE /\ UNCHANGED locks
             /\ frame' = [frame EXCEPT ![x] = [o EXCEPT !.pc = "lsr", !.k = k, !.ret = "edit"]]
    <3> DEFINE g == [o EXCEPT !.pc = "lsr", !.k = k, !.ret = "edit"]
    <3>1. UNCHANGED locks /\ frame' = [frame EXCEPT ![x] = g]
      BY <2>9
    <3> HIDE DEF o
    <3>2. g \in Frames /\ g.pc = "lsr" /\ g.lock = None /\ g.next = None /\ g.ret = "edit"
      BY <2>2, <2>3, <2>5 DEF Frames, NoReturn
    <3> HIDE DEF g
    <3>3. IntrFrame(g)
      BY <3>2 DEF IntrFrame
    <3> QED
      BY <2>7, <3>1, <3>2, <3>3
  <2> QED
    BY <2>4, <2>6, <2>8, <2>9
\* The interrupt is taken where nothing is held.
<1>EnterNest.
  ASSUME NestInv, NEW c \in CPUs, devintr(c)
  PROVE  NestInv'
  <2> USE <1>EnterNest
  <2> DEFINE x == <<c, "intr">>
             i == frame[x]
             kk == [cpu[c] EXCEPT !.intr = FALSE]
             g == IF lk["tx"] = None THEN [Idle EXCEPT !.pc = "tx_done"]
                  ELSE [Idle EXCEPT !.pc = "spin", !.lock = "tx", !.next = "tx_done"]
  <2>1. x \in Contexts /\ "tx" \in Locks
    BY LockSet DEF Contexts
  <2>2. /\ cpu' = [cpu EXCEPT ![c] = push_off(kk)]
        /\ panic' = (panic \/ lk["tx"] = c)
        /\ lk' = IF lk["tx"] = None THEN [lk EXCEPT !["tx"] = c] ELSE lk
        /\ frame' = [frame EXCEPT ![x] = g]
        /\ plic = None /\ plic' = c /\ cpu[c].intr
    BY DEF devintr, AcquireFrom, CpuOf, acquire, holding, plic_claim
  <2>3. CpuNested(frame[<<c, "proc">>], i, cpu[c],
                  lk["tx"] = c, lk["cons"] = c, lk["pr"] = c, plic = c)
    BY DEF NestInv, Nested
  <2>4. lk["tx"] # c /\ lk["cons"] # c /\ lk["pr"] # c
    <3>1. Depth(frame[<<c, "proc">>]) = 0 /\ Depth(i) = 0
      BY SMTT(30), <2>2, <2>3, DepthNat DEF CpuNested
    <3>2. i.pc = "idle"
      BY <2>2, <2>3 DEF CpuNested
    <3> QED
      BY <2>3, <3>1, <3>2, <1>FreeDepth, IdleDepth DEF CpuNested
  <2>5. /\ g \in Frames /\ IntrFrame(g) /\ g.pc # "idle" /\ Depth(g) = 1
        /\ HoldsTx(g) <=> lk["tx"] = None
        /\ ~HoldsCons(g) /\ ~HoldsPr(g)
    <3>1. CASE lk["tx"] = None
      <4>1. g \in Frames /\ g.pc = "tx_done" /\ NoReturn(g)
        BY <3>1, IdleFrame DEF Frames, Places, NoReturn
      <4> HIDE DEF g
      <4>2. IntrFrame(g)
        BY <4>1 DEF IntrFrame
      <4> QED
        BY SMTT(30), <3>1, <4>1, <4>2, AtPlace DEF One
    <3>2. CASE lk["tx"] # None
      <4>1. g \in Frames /\ g.pc = "spin" /\ g.lock = "tx" /\ g.next = "tx_done" /\ g.ret = None
        BY <2>1, <3>2, IdleFrame DEF Frames, Places, NoReturn
      <4> HIDE DEF g
      <4>2. IntrFrame(g)
        BY <4>1 DEF IntrFrame
      <4>3. ~HoldsTx(g) /\ ~HoldsCons(g) /\ ~HoldsPr(g)
        BY <4>1, NotNone DEF HoldsTx, HoldsCons, HoldsPr
      <4> QED
        BY SMTT(30), <3>2, <4>1, <4>2, <4>3 DEF Depth, One
    <3> QED
      BY <3>1, <3>2
  <2> HIDE DEF g
  <2>6. frame' \in [Contexts -> Frames] /\ Kept(x) /\ frame'[x] = g
    BY <2>1, <2>2, <2>5, <1>KeptAlone DEF NestInv
  <2>7. /\ lk' \in [Locks -> CPUs \cup {None}]
        /\ \A d \in CPUs \ {c} : \A m \in Locks : lk'[m] = d <=> lk[m] = d
        /\ \A m \in Locks : lk'[m] = c <=> lk["tx"] = None /\ m = "tx"
    <3>1. CASE lk["tx"] = None
      BY <2>1, <2>2, <2>4, <3>1, <1>AcquireLocks, LockSet
    <3>2. CASE lk["tx"] # None
      BY <2>1, <2>2, <2>4, <3>2, LockSet DEF NestInv
    <3> QED
      BY <3>1, <3>2
  <2>8. cpu[c] \in CpuStates /\ push_off(kk) \in CpuStates
    <3>1. cpu[c] \in CpuStates
      BY DEF NestInv
    <3>2. kk \in CpuStates
      BY <3>1, <1>SetIntr
    <3> HIDE DEF kk
    <3> QED
      BY <3>1, <3>2, <1>PushOff
  <2>9. ASSUME NEW p, CpuNested(p, i, cpu[c], lk["tx"] = c, lk["cons"] = c, lk["pr"] = c, plic = c)
        PROVE  CpuNested(p, frame'[x], cpu'[c],
                         lk'["tx"] = c, lk'["cons"] = c, lk'["pr"] = c, plic' = c)
    <3>1. CpuNested(p, g, push_off(kk), HoldsTx(g), HoldsCons(g), HoldsPr(g), TRUE)
      BY <2>2, <2>5, <2>9, <1>EnterIntr
    <3>2. cpu'[c] = push_off(kk)
      BY <2>2 DEF NestInv
    <3>3. /\ lk'["tx"] = c <=> HoldsTx(g)
          /\ lk'["cons"] = c <=> HoldsCons(g)
          /\ lk'["pr"] = c <=> HoldsPr(g)
      BY <2>5, <2>7, LockSet
    <3> QED
      BY <2>2, <2>6, <3>1, <3>2, <3>3 DEF CpuNested
  <2> HIDE DEF kk
  <2>10. NestTypes' /\ OthersKept(c)
    <3>1. cpu' \in [CPUs -> CpuStates] /\ \A d \in CPUs \ {c} : cpu'[d] = cpu[d]
      BY <2>2, <2>8 DEF NestInv
    <3>2. \A d \in CPUs \ {c} : plic' = d <=> plic = d
      BY <2>2, ConsoleAssumption
    <3> QED
      BY <2>2, <2>6, <2>7, <3>1, <3>2 DEF NestTypes, NestInv, OthersKept
  <2>11. ~panic'
    BY <2>2, <2>4 DEF NestInv
  <2> QED
    BY <2>6, <2>9, <2>10, <2>11, <1>IntrStep
\* The handler returns.
<1>LeaveNest.
  ASSUME NestInv, NEW x \in Contexts, devintr_end(x)
  PROVE  NestInv'
  <2> USE <1>LeaveNest
  <2>1. PICK c \in CPUs :
          /\ x = <<c, "intr">> /\ CpuOf(x) = c
          /\ frame[x].pc = "complete" /\ IntrFrame(frame[x])
          /\ frame[x] \in Frames /\ NoReturn(frame[x])
    BY IntrAt DEF devintr_end, Step
  <2> DEFINE i == frame[x]
             kk == [cpu[c] EXCEPT !.intr = TRUE]
  <2>2. /\ cpu' = [cpu EXCEPT ![c] = kk] /\ lk' = lk /\ panic' = panic
        /\ frame' = [frame EXCEPT ![x] = Idle] /\ plic' = None
    BY <2>1 DEF devintr_end, plic_complete
  <2>3. CpuNested(frame[<<c, "proc">>], i, cpu[c],
                  lk["tx"] = c, lk["cons"] = c, lk["pr"] = c, plic = c)
    BY <2>1 DEF NestInv, Nested
  <2>4. ~HoldsTx(i) /\ ~HoldsCons(i) /\ ~HoldsPr(i) /\ Depth(i) = 0
    BY SMTT(30), <2>1, AtPlace DEF One
  <2>5. plic = c /\ lk["tx"] # c /\ lk["cons"] # c /\ lk["pr"] # c
    <3>1. plic = c
      BY <2>1, <2>3 DEF CpuNested
    <3> QED
      BY <2>1, <2>4, <3>1, <1>RunningHolds
  <2>6. frame' \in [Contexts -> Frames] /\ Kept(x) /\ frame'[x] = Idle
    BY <2>2, IdleFrame, <1>KeptAlone DEF NestInv
  <2>7. cpu[c] \in CpuStates /\ kk \in CpuStates
    <3>1. cpu[c] \in CpuStates
      BY DEF NestInv
    <3> QED
      BY <3>1, <1>SetIntr
  <2>8. ASSUME NEW p, CpuNested(p, i, cpu[c], lk["tx"] = c, lk["cons"] = c, lk["pr"] = c, plic = c)
        PROVE  CpuNested(p, frame'[x], cpu'[c],
                         lk'["tx"] = c, lk'["cons"] = c, lk'["pr"] = c, plic' = c)
    <3>1. i.pc # "idle"
      BY <2>1
    <3>2. CpuNested(p, Idle, kk, FALSE, FALSE, FALSE, FALSE)
      BY <2>4, <2>8, <3>1, IdleFrame, <1>LeaveIntr
    <3>3. cpu'[c] = kk
      BY <2>2 DEF NestInv
    <3> HIDE DEF kk
    <3>4. plic' # c
      BY <2>2, ConsoleAssumption
    <3> QED
      BY <2>2, <2>5, <2>6, <3>2, <3>3, <3>4 DEF CpuNested
  <2> HIDE DEF kk
  <2>9. NestTypes' /\ OthersKept(c) /\ ~panic'
    <3>1. cpu' \in [CPUs -> CpuStates] /\ \A d \in CPUs \ {c} : cpu'[d] = cpu[d]
      BY <2>2, <2>7 DEF NestInv
    <3>2. \A d \in CPUs \ {c} : plic' = d <=> plic = d
      BY <2>2, <2>5, ConsoleAssumption
    <3> QED
      BY <2>2, <2>6, <3>1, <3>2 DEF NestTypes, NestInv, OthersKept
  <2> QED
    BY <2>1, <2>6, <2>8, <2>9, <1>IntrStep
<1>StillNest.
  ASSUME NestInv, UNCHANGED <<locks, frame, plic>>
  PROVE  NestInv'
  BY <1>StillNest DEF NestInv, Nested, locks, Contexts
<1> SUFFICES ASSUME NestInv, DataTypes, \A a : Erased(a) \in Nat, [Next]_vars PROVE NestInv'
  OBVIOUS
<1>1. ASSUME NEW x \in Contexts,
             printf(x) \/ \E n \in Ns : consolewrite(x, n) \/ consoleread(x, n)
      PROVE  NestInv'
  BY <1>1, <1>CallNest
<1>2. ASSUME NEW x \in Contexts,
             \/ spin(x) \/ uartputc_lsr(x) \/ uartputc_thr(x)
             \/ printf_return(x) \/ uartwrite(x) \/ uartwrite_end(x)
             \/ uartwrite_woken(x) \/ consolewrite_next(x)
      PROVE  NestInv'
  <2>1. CASE uartwrite(x)
    <3>1. uartwrite_thr(x) \/ ThenRelease(x, "tx", "tx_chan")
      BY <2>1 DEF uartwrite
    <3> QED
      BY <2>1, <3>1, <1>GoOnNest, <1>DoneNest
  <2> QED
    BY <1>2, <2>1, <1>SpinNest, <1>PutNest, <1>DoneNest, <1>AgainNest
<1>3. ASSUME NEW x \in Contexts,
             \/ consoleread_wait(x) \/ consoleread_sleep(x) \/ consoleread_woken(x)
             \/ consoleread_char(x) \/ consoleread_return(x)
      PROVE  NestInv'
  BY <1>3, <1>GoOnNest, <1>DoneNest, <1>AgainNest
<1>4. ASSUME NEW x \in Contexts,
             \/ uartintr_tx(x) \/ uartgetc(x)
             \/ consoleintr_echo(x) \/ procdump_end(x) \/ consoleintr(x) \/ devintr_end(x)
      PROVE  NestInv'
  BY <1>4, <1>IntrDoneNest, <1>GetcNest, <1>EchoNest, <1>LeaveNest
<1>5. ASSUME NEW c \in CPUs, kkill(c) \/ devintr(c) PROVE NestInv'
  BY <1>5, <1>KillNest, <1>EnterNest
<1>6. CASE (\E c \in Chars : uart_type(c)) \/ uart_send \/ Quiet \/ UNCHANGED vars
  <2>1. UNCHANGED <<locks, frame, plic>>
    BY <1>6 DEF uart_type, uart_send, Quiet, vars, uart
  <2> QED
    BY <2>1, <1>StillNest
<1> QED
  BY <1>1, <1>2, <1>3, <1>4, <1>5, <1>6 DEF Next

-----------------------------------------------------------------------------
(* What the steps do to the frames                                         *)

\* A read() that is under way.
Reads(f) == f.pc \in {"cr", "cr_sleep", "cr_return", "cons_r", "cons_woken"} \/ f.next = "cr"

\* A process has read nothing outside read(), and a read() that has met its
\* end goes nowhere but back.
ProcData(f) ==
  /\ f.i \in Nat
  /\ Reads(f) \/ (f.i = 0 /\ f.c = None)
  /\ f.pc = "cr_return" \/ f.c \notin {"nl", "eof", "fault"}

\* The handler's character, from uartgetc() to the end of consoleintr().
IntrData(f) == HoldsCons(f) \/ f.next = "echo" => f.c \in Chars

DataOk(s, f) == (s = "proc" => ProcData(f)) /\ (s = "intr" => IntrData(f))

FrameData == \A x \in Contexts : DataOk(x[2], frame[x])

\* What a context's move from f to g leaves as it is: it does not go to sleep,
\* it is about to write THR or not, it will look at the transmitter or not,
\* and its read() has what it has.
NoNewSleeper(f, g) == g.pc \in {"tx_chan", "cr_sleep", "cons_r"} => g.pc = f.pc
SameThr(f, g) == g.pc = "thr" <=> f.pc = "thr"
KeepsTx(f, g) == "tx_done" \in {f.pc, f.next} => "tx_done" \in {g.pc, g.next}
SameData(s, f, g) == s = "proc" => g.i = f.i /\ g.c = f.c

PlainMove(s, f, g) ==
  DataOk(s, g) /\ NoNewSleeper(f, g) /\ SameThr(f, g) /\ KeepsTx(f, g) /\ SameData(s, f, g)

Plain(x) == Kept(x) /\ PlainMove(x[2], frame[x], frame'[x])

\* The absent value is no place, no code and no CPU.
LEMMA NoneApart ==
  None \notin Places /\ None \notin {"nl", "eof", "fault"} /\ None \notin CPUs
  /\ None \notin {"cr", "echo", "tx_done", "edit", "dump_end", "spin"}
BY ConsoleAssumption DEF Places

\* Only the frame of x changes.
LEMMA OneFrame ==
  ASSUME frame \in [Contexts -> Frames], NEW x \in Contexts, NEW g,
         frame' = [frame EXCEPT ![x] = g]
  PROVE  Kept(x) /\ frame'[x] = g
BY DEF Kept, Roused

\* Only the place in a frame changes.
LEMMA PlaceSet ==
  ASSUME NEW o \in Frames, NEW p \in Places
  PROVE  LET g == [o EXCEPT !.pc = p] IN
         /\ g \in Frames /\ g.pc = p
         /\ g.lock = o.lock /\ g.next = o.next /\ g.ret = o.ret /\ g.i = o.i /\ g.c = o.c
BY DEF Frames

\* Going on to another place leaves the rest of the frame alone.
LEMMA ThenSet ==
  ASSUME frame \in [Contexts -> Frames], NEW x \in Contexts, NEW p \in Places, Then(x, p)
  PROVE  /\ Kept(x) /\ frame'[x] = [frame[x] EXCEPT !.pc = p]
         /\ frame'[x].pc = p
         /\ frame'[x].lock = frame[x].lock /\ frame'[x].next = frame[x].next
         /\ frame'[x].ret = frame[x].ret /\ frame'[x].i = frame[x].i /\ frame'[x].c = frame[x].c
<1> DEFINE o == frame[x]
           g == [o EXCEPT !.pc = p]
<1>1. frame' = [frame EXCEPT ![x] = g]
  BY DEF Then
<1>2. o \in Frames
  OBVIOUS
<1>3. frame'[x] = g /\ Kept(x)
  BY <1>1, OneFrame
<1> HIDE DEF o
<1>4. g.pc = p /\ g.lock = o.lock /\ g.next = o.next /\ g.ret = o.ret /\ g.i = o.i /\ g.c = o.c
  BY <1>2, PlaceSet
<1> QED
  BY <1>3, <1>4 DEF o

\* acquire() in the frame.
LEMMA AcquireSet ==
  ASSUME frame \in [Contexts -> Frames], NEW x \in Contexts, NEW k, NEW f \in Frames,
         f.next = None, NEW l \in Locks, NEW p \in Places, AcquireFrom(x, k, f, l, p)
  PROVE  /\ Kept(x)
         /\ \/ frame'[x].pc = p /\ frame'[x].next = None
            \/ frame'[x].pc = "spin" /\ frame'[x].next = p
         /\ frame'[x].ret = f.ret /\ frame'[x].i = f.i /\ frame'[x].c = f.c
<1> DEFINE g == IF lk[l] = None THEN [f EXCEPT !.pc = p]
                ELSE [f EXCEPT !.pc = "spin", !.lock = l, !.next = p]
<1>1. frame' = [frame EXCEPT ![x] = g]
  BY DEF AcquireFrom
<1>2. CASE lk[l] = None
  <2>1. g = [f EXCEPT !.pc = p]
    BY <1>2
  <2>2. g.pc = p /\ g.next = None /\ g.ret = f.ret /\ g.i = f.i /\ g.c = f.c
    <3> HIDE DEF g
    <3> QED
      BY <2>1, PlaceSet
  <2> QED
    BY <1>1, <2>2, OneFrame
<1>3. CASE lk[l] # None
  <2>1. g = [f EXCEPT !.pc = "spin", !.lock = l, !.next = p]
    BY <1>3
  <2>2. g.pc = "spin" /\ g.next = p /\ g.ret = f.ret /\ g.i = f.i /\ g.c = f.c
    <3> HIDE DEF g
    <3> QED
      BY <2>1 DEF Frames
  <2> QED
    BY <1>1, <2>2, OneFrame
<1> QED
  BY <1>2, <1>3

\* The locals with which a system call begins, or begins a batch.
LEMMA FreshFrame ==
  ASSUME NEW n \in Int, NEW k \in Int
  PROVE  /\ [Idle EXCEPT !.n = n, !.k = k] \in Frames
         /\ [Idle EXCEPT !.n = n, !.k = k].next = None
         /\ [Idle EXCEPT !.n = n, !.k = k].i = 0 /\ [Idle EXCEPT !.n = n, !.k = k].c = None
         /\ [Idle EXCEPT !.n = n] \in Frames
         /\ [Idle EXCEPT !.n = n].next = None
         /\ [Idle EXCEPT !.n = n].i = 0 /\ [Idle EXCEPT !.n = n].c = None
<1> DEFINE o == Idle
<1>1. o \in Frames /\ o.next = None /\ o.i = 0 /\ o.c = None
  BY IdleFrame DEF Idle, NoReturn
<1> HIDE DEF o
<1>2. /\ [o EXCEPT !.n = n, !.k = k] \in Frames
      /\ [o EXCEPT !.n = n, !.k = k].next = None
      /\ [o EXCEPT !.n = n, !.k = k].i = 0 /\ [o EXCEPT !.n = n, !.k = k].c = None
  BY <1>1 DEF Frames
<1>3. /\ [o EXCEPT !.n = n] \in Frames
      /\ [o EXCEPT !.n = n].next = None
      /\ [o EXCEPT !.n = n].i = 0 /\ [o EXCEPT !.n = n].c = None
  BY <1>1 DEF Frames
<1> QED
  BY <1>2, <1>3 DEF o

\* What uartwrite() is called with, and what is left after it, are numbers.
LEMMA BatchInt == ASSUME NEW n \in Int PROVE Batch(n) \in Int /\ n - Batch(n) \in Int
BY SMTT(30), ConsoleAssumption DEF Batch

\* A process outside read() acquires a lock.
LEMMA BeginMove ==
  ASSUME NEW f, NEW g, f.i = 0, f.c = None, f.pc \in {"idle", "tx_woken", "cw_next"}, f.next = None,
         NEW p \in {"lsr", "uw", "cr"}, g.pc = p \/ (g.pc = "spin" /\ g.next = p),
         g.i = 0, g.c = None
  PROVE  PlainMove("proc", f, g)
BY SMTT(30), NoneApart DEF PlainMove, NoNewSleeper, SameThr, KeepsTx, SameData, DataOk, ProcData, Reads

\* Outside consoleread() no count and no character is kept.
LEMMA OutsideRead ==
  ASSUME NEW f, ProcData(f), f.next = None, f.pc \in {"idle", "tx_woken", "cw_next", "uw", "pf_return"}
  PROVE  f.i = 0 /\ f.c = None
BY NoneApart DEF ProcData, Reads

\* Where a context is, without its CPU.
LEMMA ProcHere ==
  ASSUME NestInv, NEW x \in Contexts, NEW pc, At(x, pc),
         pc \in {"pf_return", "uw", "tx_woken", "cw_next", "cr", "cr_sleep", "cr_return",
                 "cons_woken"} \/ (pc = "idle" /\ x[2] = "proc")
  PROVE  /\ x[2] = "proc" /\ frame[x].pc = pc /\ frame[x] \in Frames /\ NoReturn(frame[x])
         /\ frame \in [Contexts -> Frames]
<1>1. PICK c \in CPUs :
        /\ x = <<c, "proc">> /\ CpuOf(x) = c
        /\ frame[<<c, "intr">>].pc = "idle"
        /\ frame[x].pc = pc /\ ProcFrame(frame[x])
        /\ frame[x] \in Frames /\ NoReturn(frame[x])
  BY ProcAt
<1>2. x[2] = "proc"
  BY <1>1
<1> QED
  BY <1>1, <1>2 DEF NestInv

\* The same as IntrAt, without naming the CPU.
LEMMA IntrHere ==
  ASSUME NestInv, NEW x \in Contexts, NEW pc, At(x, pc),
         pc \in {"tx_done", "getc", "echo", "edit", "dump_end", "complete"}
  PROVE  /\ x[2] = "intr" /\ frame[x].pc = pc /\ frame[x] \in Frames /\ NoReturn(frame[x])
         /\ frame \in [Contexts -> Frames]
<1>1. PICK c \in CPUs :
        /\ x = <<c, "intr">> /\ CpuOf(x) = c
        /\ frame[x].pc = pc /\ IntrFrame(frame[x])
        /\ frame[x] \in Frames /\ NoReturn(frame[x])
  BY IntrAt
<1>2. x[2] = "intr"
  BY <1>1
<1> QED
  BY <1>1, <1>2 DEF NestInv

\* In acquire() and in uartputc_sync() the context is of either kind.
LEMMA InsideHere ==
  ASSUME NestInv, NEW x \in Contexts, NEW pc \in {"spin", "lsr", "thr"}, At(x, pc)
  PROVE  /\ frame[x].pc = pc /\ frame[x] \in Frames
         /\ \/ x[2] = "proc" /\ ProcFrame(frame[x])
            \/ x[2] = "intr" /\ IntrFrame(frame[x])
         /\ frame \in [Contexts -> Frames]
<1>1. PICK c \in CPUs, s \in {"proc", "intr"} :
        /\ x = <<c, s>> /\ CpuOf(x) = c /\ frame[x].pc = pc /\ frame[x] \in Frames
        /\ s = "proc" => frame[<<c, "intr">>].pc = "idle" /\ ProcFrame(frame[x])
        /\ s = "intr" => frame[<<c, "intr">>].pc # "idle" /\ IntrFrame(frame[x])
  BY InsideAt
<1>2. x[2] = s
  BY <1>1
<1> QED
  BY <1>1, <1>2 DEF NestInv

\* Starting a call only sets up the frame of the process.
LEMMA CallPlain ==
  ASSUME NestInv, FrameData, NEW x \in Contexts, NEW n,
         printf(x) \/ (n \in Ns /\ (consolewrite(x, n) \/ consoleread(x, n)))
  PROVE  Plain(x)
<1> DEFINE o == frame[x]
<1>1. x[2] = "proc" /\ At(x, "idle") /\ frame \in [Contexts -> Frames]
  BY DEF printf, consolewrite, consoleread, Call, NestInv
<1>2. o.pc = "idle" /\ o \in Frames /\ NoReturn(o)
  BY <1>1, ProcAt
<1>3. o.i = 0 /\ o.c = None /\ o.next = None
  BY <1>1, <1>2, OutsideRead DEF FrameData, DataOk, NoReturn
<1>4. ASSUME NEW f \in Frames, f.next = None, f.i = 0, f.c = None, NEW l \in Locks,
             NEW p \in {"lsr", "uw", "cr"}, ThenAcquire(x, f, l, p)
      PROVE  Plain(x)
  <2>1. p \in Places
    BY DEF Places
  <2>2. /\ Kept(x)
        /\ \/ frame'[x].pc = p /\ frame'[x].next = None
           \/ frame'[x].pc = "spin" /\ frame'[x].next = p
        /\ frame'[x].i = f.i /\ frame'[x].c = f.c
    BY <1>1, <1>4, <2>1, AcquireSet DEF ThenAcquire
  <2>3. PlainMove("proc", o, frame'[x])
    BY <1>2, <1>3, <1>4, <2>2, BeginMove
  <2> QED
    BY <1>1, <2>2, <2>3 DEF Plain
<1>5. CASE printf(x)
  <2> DEFINE one == 1
             f == [o EXCEPT !.k = one, !.ret = "pf_return"]
  <2>1. ThenAcquire(x, f, "pr", "lsr")
    BY <1>5 DEF printf, ThenPrintf
  <2>2. one \in Int /\ "pf_return" \in Places
    BY SMTT(30) DEF Places
  <2> HIDE DEF o, one
  <2>3. f \in Frames /\ f.next = None /\ f.i = 0 /\ f.c = None
    BY <1>2, <1>3, <2>2 DEF Frames
  <2> HIDE DEF f
  <2> QED
    BY <1>4, <2>1, <2>3, LockSet
<1>6. CASE n \in Ns /\ consolewrite(x, n)
  <2> DEFINE f == [Idle EXCEPT !.n = n - Batch(n), !.k = Batch(n)]
  <2>1. ThenAcquire(x, f, "tx", "uw")
    BY <1>6 DEF consolewrite
  <2>2. f \in Frames /\ f.next = None /\ f.i = 0 /\ f.c = None
    <3>1. n - Batch(n) \in Int /\ Batch(n) \in Int
      BY SMTT(30), <1>6, BatchInt, ConsoleAssumption
    <3> QED
      BY <3>1, FreshFrame
  <2> HIDE DEF f
  <2> QED
    BY <1>4, <2>1, <2>2, LockSet
<1>7. CASE n \in Ns /\ consoleread(x, n)
  <2> DEFINE f == [Idle EXCEPT !.n = n]
  <2>1. ThenAcquire(x, f, "cons", "cr")
    BY <1>7 DEF consoleread
  <2>2. f \in Frames /\ f.next = None /\ f.i = 0 /\ f.c = None
    <3>1. n \in Int
      BY SMTT(30), <1>7, ConsoleAssumption
    <3> QED
      BY <3>1, FreshFrame
  <2> HIDE DEF f
  <2> QED
    BY <1>4, <2>1, <2>2, LockSet
<1> QED
  BY <1>5, <1>6, <1>7

\* So does going back for a lock after a sleep, or for the next batch.
LEMMA AgainPlain ==
  ASSUME NestInv, FrameData, NEW x \in Contexts,
         uartwrite_woken(x) \/ consolewrite_next(x) \/ consoleread_woken(x)
  PROVE  Plain(x)
<1> DEFINE o == frame[x]
<1>1. PICK pc \in {"tx_woken", "cw_next", "cons_woken"} : At(x, pc)
  BY DEF uartwrite_woken, consolewrite_next, consoleread_woken, Step
<1>2. x[2] = "proc" /\ o.pc = pc /\ o \in Frames /\ NoReturn(o) /\ frame \in [Contexts -> Frames]
  BY <1>1, ProcHere
<1>3. ProcData(o) /\ o.next = None
  BY <1>2 DEF FrameData, DataOk, NoReturn
<1>4. pc \in {"tx_woken", "cw_next"} => o.i = 0 /\ o.c = None
  BY <1>2, <1>3, OutsideRead
<1>5. ASSUME NEW f \in Frames, f.next = None, NEW l \in Locks, NEW p \in {"uw", "cr"},
             ThenAcquire(x, f, l, p)
      PROVE  /\ Kept(x)
             /\ \/ frame'[x].pc = p /\ frame'[x].next = None
                \/ frame'[x].pc = "spin" /\ frame'[x].next = p
             /\ frame'[x].i = f.i /\ frame'[x].c = f.c
  <2>1. p \in Places
    BY DEF Places
  <2> QED
    BY SMTT(30), <1>2, <1>5, <2>1, AcquireSet DEF ThenAcquire
<1>6. CASE uartwrite_woken(x)
  <2>1. pc = "tx_woken" /\ ThenAcquire(x, o, "tx", "uw")
    BY <1>2, <1>6 DEF uartwrite_woken, Step, At
  <2> HIDE DEF o
  <2>2. PlainMove("proc", o, frame'[x]) /\ Kept(x)
    BY <1>2, <1>3, <1>4, <1>5, <2>1, LockSet, BeginMove
  <2> QED
    BY <1>2, <2>2 DEF Plain, o
<1>7. CASE consolewrite_next(x)
  <2> DEFINE n == o.n
             f == [Idle EXCEPT !.n = n - Batch(n), !.k = Batch(n)]
  <2>1. pc = "cw_next" /\ ThenAcquire(x, f, "tx", "uw")
    BY <1>2, <1>7 DEF consolewrite_next, Step, At
  <2>2. f \in Frames /\ f.next = None /\ f.i = 0 /\ f.c = None
    <3>1. n \in Int
      BY <1>2 DEF Frames
    <3>2. n - Batch(n) \in Int /\ Batch(n) \in Int
      BY <3>1, BatchInt
    <3> QED
      BY <3>2, FreshFrame
  <2> HIDE DEF o, f
  <2>3. PlainMove("proc", o, frame'[x]) /\ Kept(x)
    BY <1>2, <1>3, <1>4, <1>5, <2>1, <2>2, LockSet, BeginMove
  <2> QED
    BY <1>2, <2>3 DEF Plain, o
<1>8. CASE consoleread_woken(x)
  <2>1. pc = "cons_woken" /\ ThenAcquire(x, o, "cons", "cr")
    BY <1>2, <1>8 DEF consoleread_woken, Step, At
  <2> HIDE DEF o
  <2>2. /\ Kept(x) /\ frame'[x].i = o.i /\ frame'[x].c = o.c
        /\ \/ frame'[x].pc = "cr" /\ frame'[x].next = None
           \/ frame'[x].pc = "spin" /\ frame'[x].next = "cr"
    BY <1>2, <1>3, <1>5, <2>1, LockSet
  <2>3. PlainMove("proc", o, frame'[x])
    BY <1>2, <1>3, <2>1, <2>2, NoneApart
       DEF PlainMove, NoNewSleeper, SameThr, KeepsTx, SameData, DataOk, ProcData, Reads
  <2> QED
    BY <1>2, <2>2, <2>3 DEF Plain, o
<1> QED
  BY <1>6, <1>7, <1>8

\* printf() and write() return.
LEMMA ReturnPlain ==
  ASSUME NestInv, FrameData, NEW x \in Contexts, printf_return(x) \/ uartwrite_end(x)
  PROVE  Plain(x)
<1> DEFINE o == frame[x]
<1>1. PICK pc \in {"pf_return", "uw"} : At(x, pc)
  BY DEF printf_return, uartwrite_end, Step
<1>2. x[2] = "proc" /\ o.pc = pc /\ o \in Frames /\ NoReturn(o) /\ frame \in [Contexts -> Frames]
  BY <1>1, ProcHere
<1>3. o.next = None /\ o.i = 0 /\ o.c = None
  BY <1>2, OutsideRead DEF FrameData, DataOk, NoReturn
<1>4. frame' = [frame EXCEPT ![x] = Idle] \/ Then(x, "cw_next")
  BY DEF printf_return, uartwrite_end, Return, ThenRelease
<1>5. /\ Kept(x) /\ frame'[x].i = 0 /\ frame'[x].c = None
      /\ frame'[x].pc \in {"idle", "cw_next"} /\ frame'[x].next = None
  <2>1. CASE frame' = [frame EXCEPT ![x] = Idle]
    BY <1>2, <2>1, OneFrame DEF Idle
  <2>2. CASE Then(x, "cw_next")
    <3>1. "cw_next" \in Places
      BY DEF Places
    <3> QED
      BY <1>2, <1>3, <2>2, <3>1, ThenSet
  <2> QED
    BY <1>4, <2>1, <2>2
<1> HIDE DEF o
<1>6. PlainMove("proc", o, frame'[x])
  BY SMTT(30), <1>2, <1>3, <1>5, NoneApart
     DEF PlainMove, NoNewSleeper, SameThr, KeepsTx, SameData, DataOk, ProcData, Reads
<1> QED
  BY <1>2, <1>5, <1>6 DEF Plain, o

\* Taking the lock only goes on to where it was wanted.
LEMMA SpinPlain ==
  ASSUME NestInv, FrameData, NEW x \in Contexts, spin(x)
  PROVE  Plain(x)
<1> DEFINE o == frame[x]
           g == [o EXCEPT !.pc = o.next, !.lock = None, !.next = None]
<1>1. At(x, "spin") /\ frame' = [frame EXCEPT ![x] = g]
  BY DEF spin, Step
<1>2. /\ o.pc = "spin" /\ o \in Frames /\ frame \in [Contexts -> Frames]
      /\ \/ x[2] = "proc" /\ ProcFrame(o)
         \/ x[2] = "intr" /\ IntrFrame(o)
  BY <1>1, InsideHere
<1>3. DataOk(x[2], o)
  BY DEF FrameData
<1>4. Kept(x) /\ frame'[x] = g
  BY <1>1, <1>2, OneFrame
<1>5. o.next \in Places
  BY <1>2 DEF ProcFrame, IntrFrame, NoReturn, Places
<1> HIDE DEF o
<1>6. g.pc = o.next /\ g.next = None /\ g.ret = o.ret /\ g.i = o.i /\ g.c = o.c
  BY <1>2, <1>5 DEF Frames
<1> HIDE DEF g
<1>7. CASE x[2] = "proc" /\ ProcFrame(o)
  <2>1. o.next \in {"lsr", "uw", "cr"}
    BY <1>2, <1>7 DEF ProcFrame
  <2> QED
    BY <1>2, <1>3, <1>4, <1>6, <1>7, <2>1, NoneApart
       DEF Plain, PlainMove, NoNewSleeper, SameThr, KeepsTx, SameData, DataOk, ProcData, Reads, o
<1>8. CASE x[2] = "intr" /\ IntrFrame(o)
  <2>1. \/ o.next = "lsr" /\ o.ret = "dump_end"
        \/ o.next = "tx_done" /\ o.ret = None
        \/ o.next = "echo" /\ o.ret = None
    BY <1>2, <1>8 DEF IntrFrame
  <2> QED
    BY <1>2, <1>3, <1>4, <1>6, <1>8, <2>1, NoneApart
       DEF Plain, PlainMove, NoNewSleeper, SameThr, KeepsTx, SameData, DataOk, IntrData, HoldsCons, o
<1> QED
  BY <1>2, <1>7, <1>8

\* kkill() at most makes a sleeper runnable.
LEMMA KillPlain ==
  ASSUME NestInv, FrameData, NEW c \in CPUs, kkill(c)
  PROVE  Plain(<<c, "proc">>)
<1> DEFINE x == <<c, "proc">>
           o == frame[x]
<1>1. x \in Contexts /\ x[2] = "proc" /\ frame \in [Contexts -> Frames]
  BY DEF Contexts, NestInv
<1>2. o \in Frames /\ ProcData(o) /\ ProcFrame(o)
  <2>1. Nested(c)
    BY DEF NestInv
  <2> QED
    BY <1>1, <2>1 DEF Nested, CpuNested, FrameData, DataOk
<1>3. CASE o.pc \in {"tx_chan", "cons_r"}
  <2> DEFINE p == WokenOn[o.pc]
             g == [o EXCEPT !.pc = p]
  <2>1. DOMAIN WokenOn = {"tx_chan", "cons_r"}
    BY DEF WokenOn
  <2>2. frame' = [frame EXCEPT ![x] = g]
    BY <1>3, <2>1 DEF kkill
  <2>3. p \in Places /\ (o.pc = "tx_chan" => p = "tx_woken") /\ (o.pc = "cons_r" => p = "cons_woken")
    BY SMTT(30), <1>3 DEF WokenOn, Places
  <2>4. Kept(x) /\ frame'[x] = g
    BY <1>1, <2>2, OneFrame
  <2>5. NoReturn(o)
    BY <1>2, <1>3 DEF ProcFrame
  <2> HIDE DEF p, o
  <2>6. g.pc = p /\ g.next = o.next /\ g.i = o.i /\ g.c = o.c
    BY <1>2, <2>3, PlaceSet
  <2> HIDE DEF g
  <2>7. PlainMove("proc", o, g)
    BY <1>2, <1>3, <2>3, <2>5, <2>6, NoneApart
       DEF PlainMove, NoNewSleeper, SameThr, KeepsTx, SameData, DataOk, ProcData, Reads, NoReturn
  <2> QED
    BY <1>1, <2>4, <2>7 DEF Plain, o
<1>4. CASE o.pc \notin {"tx_chan", "cons_r"}
  <2>1. DOMAIN WokenOn = {"tx_chan", "cons_r"}
    BY DEF WokenOn
  <2>2. frame' = frame
    BY <1>4, <2>1 DEF kkill
  <2>3. Kept(x)
    BY <2>2 DEF Kept, Roused
  <2>4. PlainMove("proc", o, o)
    BY <1>2 DEF PlainMove, NoNewSleeper, SameThr, KeepsTx, SameData, DataOk
  <2> QED
    BY <1>1, <2>2, <2>3, <2>4 DEF Plain
<1> QED
  BY <1>3, <1>4

\* uartgetc() only puts the character into the handler's frame.
LEMMA GetcPlain ==
  ASSUME NestInv, DataTypes, FrameData, NEW x \in Contexts, uartgetc(x)
  PROVE  Plain(x)
<1> DEFINE o == frame[x]
<1>1. At(x, "getc")
  BY DEF uartgetc, Step
<1>2. x[2] = "intr" /\ o.pc = "getc" /\ o \in Frames /\ NoReturn(o) /\ frame \in [Contexts -> Frames]
  BY <1>1, IntrHere
<1>3. o.next = None /\ o.ret = None
  BY <1>2 DEF NoReturn
<1>4. CASE rx # <<>> /\ ThenAcquire(x, [frame[x] EXCEPT !.c = Head(rx)], "cons", "echo")
  <2> DEFINE ch == Head(rx)
             f == [o EXCEPT !.c = ch]
  <2>1. ch \in Chars
    BY SMTT(30), <1>4 DEF DataTypes
  <2>2. ch \in Codes
    BY <2>1 DEF Codes, Keys
  <2>3. ThenAcquire(x, f, "cons", "echo") /\ "echo" \in Places
    BY <1>4 DEF Places
  <2> HIDE DEF ch, o
  <2>4. f \in Frames /\ f.next = None /\ f.c = ch
    BY <1>2, <1>3, <2>2 DEF Frames
  <2> HIDE DEF f
  <2>5. /\ Kept(x) /\ frame'[x].c = ch
        /\ \/ frame'[x].pc = "echo" /\ frame'[x].next = None
           \/ frame'[x].pc = "spin" /\ frame'[x].next = "echo"
    BY SMTT(30), <1>2, <2>3, <2>4, LockSet, AcquireSet DEF ThenAcquire
  <2>6. PlainMove("intr", o, frame'[x])
    BY <1>2, <1>3, <2>1, <2>5, NoneApart
       DEF PlainMove, NoNewSleeper, SameThr, KeepsTx, SameData, DataOk, IntrData
  <2> QED
    BY <1>2, <2>5, <2>6 DEF Plain, o
<1>5. CASE Then(x, "complete")
  <2>1. "complete" \in Places
    BY DEF Places
  <2>2. Kept(x) /\ frame'[x].pc = "complete" /\ frame'[x].next = o.next /\ frame'[x].ret = o.ret
    BY <1>2, <1>5, <2>1, ThenSet
  <2> HIDE DEF o
  <2>3. PlainMove("intr", o, frame'[x])
    BY <1>2, <1>3, <2>2, NoneApart
       DEF PlainMove, NoNewSleeper, SameThr, KeepsTx, SameData, DataOk, IntrData, HoldsCons
  <2> QED
    BY <1>2, <2>2, <2>3 DEF Plain, o
<1> QED
  BY <1>4, <1>5 DEF uartgetc

\* The echo only counts what is to be erased.
LEMMA EchoPlain ==
  ASSUME NestInv, DataTypes, FrameData, \A a : Erased(a) \in Nat, NEW x \in Contexts, consoleintr_echo(x)
  PROVE  Plain(x)
<1> DEFINE o == frame[x]
<1>1. At(x, "echo")
  BY DEF consoleintr_echo, Step
<1>2. x[2] = "intr" /\ o.pc = "echo" /\ o \in Frames /\ NoReturn(o) /\ frame \in [Contexts -> Frames]
  BY <1>1, IntrHere
<1>3. o.next = None /\ o.ret = None /\ o.c \in Chars
  BY <1>2 DEF NoReturn, FrameData, DataOk, IntrData, HoldsCons
<1>4. ASSUME Kept(x), frame'[x].c = o.c, frame'[x].pc \in {"edit", "lsr", "spin"}
      PROVE  Plain(x)
  <2> HIDE DEF o
  <2>1. PlainMove("intr", o, frame'[x])
    BY <1>2, <1>3, <1>4, NoneApart
       DEF PlainMove, NoNewSleeper, SameThr, KeepsTx, SameData, DataOk, IntrData
  <2> QED
    BY <1>2, <1>4, <2>1 DEF Plain, o
<1>5. CASE ThenPrintf(x, "dump_end")
  <2> DEFINE one == 1
             f == [o EXCEPT !.k = one, !.ret = "dump_end"]
  <2>1. ThenAcquire(x, f, "pr", "lsr") /\ "lsr" \in Places
    BY <1>5 DEF ThenPrintf, Places
  <2>2. one \in Int /\ "dump_end" \in Places
    BY SMTT(30) DEF Places
  <2> HIDE DEF o, one
  <2>3. f \in Frames /\ f.next = None /\ f.c = o.c
    BY <1>2, <1>3, <2>2 DEF Frames
  <2> HIDE DEF f
  <2>4. Kept(x) /\ frame'[x].c = o.c /\ frame'[x].pc \in {"lsr", "spin"}
    BY SMTT(30), <1>2, <2>1, <2>3, LockSet, AcquireSet DEF ThenAcquire
  <2> QED
    BY <1>4, <2>4
<1>6. CASE Then(x, "edit")
  <2>1. "edit" \in Places
    BY DEF Places
  <2> QED
    BY <1>2, <1>4, <1>6, <2>1, ThenSet
<1>7. ASSUME NEW k \in Int, ThenPut(x, k, "edit") PROVE Plain(x)
  <2> DEFINE g == [o EXCEPT !.pc = "lsr", !.k = k, !.ret = "edit"]
  <2>1. frame' = [frame EXCEPT ![x] = g]
    BY <1>7 DEF ThenPut
  <2>2. Kept(x) /\ frame'[x] = g
    BY <1>2, <2>1, OneFrame
  <2> HIDE DEF o
  <2>3. g.c = o.c /\ g.pc = "lsr"
    BY <1>2 DEF Frames
  <2> QED
    BY <1>4, <2>2, <2>3
<1> DEFINE k == IF Stored(o.c) THEN 1 ELSE 3 * Erased(o.c)
<1>8. k \in Int
  <2>1. Erased(o.c) \in Nat
    OBVIOUS
  <2> QED
    BY SMTT(30), <2>1
<1>9. ThenPrintf(x, "dump_end") \/ Then(x, "edit") \/ ThenPut(x, k, "edit")
  BY DEF consoleintr_echo
<1> HIDE DEF k
<1> QED
  BY <1>5, <1>6, <1>7, <1>8, <1>9

\* procdump() ends with the release of pr.lock, and the handler goes on.
LEMMA DumpPlain ==
  ASSUME NestInv, FrameData, NEW x \in Contexts, procdump_end(x)
  PROVE  Plain(x)
<1> DEFINE o == frame[x]
<1>1. At(x, "dump_end") /\ Then(x, "edit") /\ "edit" \in Places
  BY DEF procdump_end, Step, ThenRelease, Places
<1>2. x[2] = "intr" /\ o.pc = "dump_end" /\ o \in Frames /\ NoReturn(o) /\ frame \in [Contexts -> Frames]
  BY <1>1, IntrHere
<1>3. o.next = None /\ o.c \in Chars
  BY <1>2 DEF NoReturn, FrameData, DataOk, IntrData, HoldsCons
<1>4. Kept(x) /\ frame'[x].pc = "edit" /\ frame'[x].c = o.c
  BY <1>1, <1>2, ThenSet
<1> HIDE DEF o
<1>5. PlainMove("intr", o, frame'[x])
  BY <1>2, <1>3, <1>4, NoneApart
     DEF PlainMove, NoNewSleeper, SameThr, KeepsTx, SameData, DataOk, IntrData
<1> QED
  BY <1>2, <1>4, <1>5 DEF Plain, o

\* The end of the interrupt leaves the idle frame.
LEMMA LeavePlain ==
  ASSUME NestInv, FrameData, NEW x \in Contexts, devintr_end(x)
  PROVE  Plain(x)
<1> DEFINE o == frame[x]
<1>1. At(x, "complete") /\ frame' = [frame EXCEPT ![x] = Idle]
  BY DEF devintr_end, Step
<1>2. x[2] = "intr" /\ o.pc = "complete" /\ o \in Frames /\ NoReturn(o) /\ frame \in [Contexts -> Frames]
  BY <1>1, IntrHere
<1>3. o.next = None
  BY <1>2 DEF NoReturn
<1>4. Kept(x) /\ frame'[x] = Idle
  BY <1>1, <1>2, OneFrame
<1>5. Idle.pc = "idle" /\ Idle.next = None /\ Idle.ret = None
  BY DEF Idle
<1> HIDE DEF o
<1>6. PlainMove("intr", o, Idle)
  BY <1>2, <1>3, <1>5, NoneApart
     DEF PlainMove, NoNewSleeper, SameThr, KeepsTx, SameData, DataOk, IntrData, HoldsCons
<1> QED
  BY <1>2, <1>4, <1>6 DEF Plain, o

\* The interrupt is taken.
LEMMA EnterPlain ==
  ASSUME NestInv, FrameData, NEW c \in CPUs, devintr(c)
  PROVE  /\ Plain(<<c, "intr">>)
         /\ "tx_done" \in {frame'[<<c, "intr">>].pc, frame'[<<c, "intr">>].next}
<1> DEFINE x == <<c, "intr">>
           o == frame[x]
           k == [cpu[c] EXCEPT !.intr = FALSE]
<1>1. x \in Contexts /\ x[2] = "intr" /\ frame \in [Contexts -> Frames]
  BY DEF Contexts, NestInv
<1>2. o.pc = "idle" /\ AcquireFrom(x, k, Idle, "tx", "tx_done")
  BY DEF devintr, Step, At
<1>3. o.next = None
  <2>1. Nested(c)
    BY DEF NestInv
  <2> QED
    BY <1>2, <2>1 DEF Nested, CpuNested, IntrFrame, NoReturn
<1>4. Idle \in Frames /\ Idle.next = None /\ Idle.ret = None /\ "tx_done" \in Places
  BY IdleFrame DEF NoReturn, Places
<1> HIDE DEF k, x
<1>5. /\ Kept(x) /\ frame'[x].ret = None
      /\ \/ frame'[x].pc = "tx_done" /\ frame'[x].next = None
         \/ frame'[x].pc = "spin" /\ frame'[x].next = "tx_done"
  BY SMTT(30), <1>1, <1>2, <1>4, LockSet, AcquireSet
<1> HIDE DEF o
<1>6. PlainMove("intr", o, frame'[x])
  BY <1>2, <1>3, <1>5, NoneApart
     DEF PlainMove, NoNewSleeper, SameThr, KeepsTx, SameData, DataOk, IntrData, HoldsCons
<1> QED
  BY <1>1, <1>5, <1>6 DEF Plain, o, x

\* The sleepers on a channel are gone after wakeup().
LEMMA WokenGone ==
  ASSUME frame \in [Contexts -> Frames], NEW x \in Contexts, NEW g \in Frames,
         NEW chan \in {"tx_chan", "cons_r"}, g.pc # chan,
         frame' = Woken([frame EXCEPT ![x] = g], chan)
  PROVE  \A y \in Contexts : frame'[y].pc # chan
<1> TAKE y \in Contexts
<1> DEFINE f == [frame EXCEPT ![x] = g][y]
<1>1. f \in Frames
  OBVIOUS
<1>2. frame'[y] = IF f.pc = chan THEN [f EXCEPT !.pc = WokenOn[chan]] ELSE f
  BY DEF Woken
<1> HIDE DEF f
<1>3. WokenOn[chan] \in Places /\ WokenOn[chan] # chan
  BY SMTT(30) DEF WokenOn, Places
<1>4. [f EXCEPT !.pc = WokenOn[chan]].pc = WokenOn[chan]
  BY <1>1, <1>3, PlaceSet
<1> QED
  BY <1>2, <1>3, <1>4

\* uartintr() looks at the transmitter.
LEMMA TxMove ==
  ASSUME NestInv, FrameData, NEW x \in Contexts, uartintr_tx(x)
  PROVE  LET f == frame[x]
             g == frame'[x]
         IN  /\ Kept(x) /\ x[2] = "intr"
             /\ DataOk(x[2], g) /\ NoNewSleeper(f, g) /\ SameThr(f, g) /\ SameData(x[2], f, g)
             /\ fifo = 0 => tx_busy' = FALSE /\ \A y \in Contexts : frame'[y].pc # "tx_chan"
             /\ fifo # 0 => tx_busy' = tx_busy
<1> DEFINE o == frame[x]
           g == [o EXCEPT !.pc = "getc"]
<1>1. At(x, "tx_done") /\ "getc" \in Places
  BY DEF uartintr_tx, Step, Places
<1>2. x[2] = "intr" /\ o.pc = "tx_done" /\ o \in Frames /\ NoReturn(o) /\ frame \in [Contexts -> Frames]
  BY <1>1, IntrHere
<1>3. \/ fifo = 0 /\ tx_busy' = FALSE /\ frame' = Woken([frame EXCEPT ![x] = g], "tx_chan")
      \/ fifo # 0 /\ tx_busy' = tx_busy /\ frame' = [frame EXCEPT ![x] = g]
  BY DEF uartintr_tx, TxIdle, TxWakeup
<1> HIDE DEF o
<1>4. g \in Frames /\ g.pc = "getc" /\ g.next = None /\ g.ret = None
  BY <1>1, <1>2, PlaceSet DEF NoReturn
<1> HIDE DEF g
<1>5. /\ DataOk("intr", g) /\ NoNewSleeper(o, g) /\ SameThr(o, g) /\ SameData("intr", o, g)
  BY <1>2, <1>4, NoneApart DEF NoNewSleeper, SameThr, SameData, DataOk, IntrData, HoldsCons
<1>6. Kept(x) /\ frame'[x] = g
  <2>1. CASE frame' = Woken([frame EXCEPT ![x] = g], "tx_chan")
    BY <1>2, <1>4, <2>1, WokenKept
  <2>2. CASE frame' = [frame EXCEPT ![x] = g]
    BY <1>2, <2>2, OneFrame
  <2> QED
    BY <1>3, <2>1, <2>2
<1>7. fifo = 0 => \A y \in Contexts : frame'[y].pc # "tx_chan"
  BY <1>2, <1>3, <1>4, WokenGone
<1> QED
  BY <1>2, <1>3, <1>5, <1>6, <1>7 DEF o

\* uartputc_sync(): only the writing of THR is new.
LEMMA PutMove ==
  ASSUME NestInv, FrameData, NEW x \in Contexts, uartputc_lsr(x) \/ uartputc_thr(x)
  PROVE  LET f == frame[x]
             g == frame'[x]
         IN  /\ Kept(x)
             /\ DataOk(x[2], g) /\ NoNewSleeper(f, g) /\ KeepsTx(f, g) /\ SameData(x[2], f, g)
             /\ uartputc_lsr(x) => f.pc = "lsr"
             /\ uartputc_thr(x) => f.pc = "thr" /\ g.pc # "thr"
<1> DEFINE o == frame[x]
<1>1. DataOk(x[2], o)
  BY DEF FrameData
<1>2. CASE uartputc_lsr(x)
  <2>1. At(x, "lsr") /\ Then(x, "thr") /\ "thr" \in Places
    BY <1>2 DEF uartputc_lsr, Step, Places
  <2>2. /\ o.pc = "lsr" /\ o \in Frames /\ frame \in [Contexts -> Frames]
        /\ \/ x[2] = "proc" /\ ProcFrame(o)
           \/ x[2] = "intr" /\ IntrFrame(o)
    BY <2>1, InsideHere
  <2>3. o.next = None
    BY <2>2 DEF ProcFrame, IntrFrame, NoReturn
  <2>4. /\ Kept(x) /\ frame'[x].pc = "thr" /\ frame'[x].next = o.next /\ frame'[x].ret = o.ret
        /\ frame'[x].i = o.i /\ frame'[x].c = o.c
    BY <2>1, <2>2, ThenSet
  <2>5. ~uartputc_thr(x)
    BY <2>2 DEF uartputc_thr, Step, At
  <2> HIDE DEF o
  <2>6. /\ DataOk(x[2], frame'[x]) /\ NoNewSleeper(o, frame'[x]) /\ KeepsTx(o, frame'[x])
        /\ SameData(x[2], o, frame'[x])
    BY <1>1, <2>2, <2>3, <2>4, NoneApart
       DEF NoNewSleeper, KeepsTx, SameData, DataOk, ProcData, Reads, IntrData, HoldsCons
  <2> QED
    BY <2>2, <2>4, <2>5, <2>6 DEF o
<1>3. CASE uartputc_thr(x)
  <2> DEFINE z == 0
             m == o.k - 1
             g == IF o.k = 1 THEN [o EXCEPT !.pc = o.ret, !.k = z, !.ret = None]
                  ELSE [o EXCEPT !.pc = "lsr", !.k = m]
  <2>1. At(x, "thr") /\ frame' = [frame EXCEPT ![x] = g] /\ "lsr" \in Places
    BY <1>3 DEF uartputc_thr, Step, Places
  <2>2. /\ o.pc = "thr" /\ o \in Frames /\ frame \in [Contexts -> Frames]
        /\ \/ x[2] = "proc" /\ ProcFrame(o)
           \/ x[2] = "intr" /\ IntrFrame(o)
    BY <2>1, InsideHere
  <2>3. /\ o.next = None
        /\ x[2] = "proc" => o.ret = "pf_return"
        /\ x[2] = "intr" => o.ret \in {"edit", "dump_end"}
    BY <2>2 DEF ProcFrame, IntrFrame, NoReturn
  <2>4. Kept(x) /\ frame'[x] = g
    BY <2>1, <2>2, OneFrame
  <2>5. ~uartputc_lsr(x)
    BY <2>2 DEF uartputc_lsr, Step, At
  <2>6. z \in Int /\ m \in Int /\ o.ret \in Places
    BY SMTT(30), <2>2, <2>3 DEF Frames, Places
  <2> HIDE DEF o, z, m
  <2>7. /\ g.next = None /\ g.i = o.i /\ g.c = o.c
        /\ g.pc = o.ret \/ (g.pc = "lsr" /\ g.ret = o.ret)
    <3>1. CASE o.k = 1
      <4>1. g = [o EXCEPT !.pc = o.ret, !.k = z, !.ret = None]
        BY <3>1
      <4> HIDE DEF g
      <4> QED
        BY <2>2, <2>3, <2>6, <4>1 DEF Frames
    <3>2. CASE o.k # 1
      <4>1. g = [o EXCEPT !.pc = "lsr", !.k = m]
        BY <3>2
      <4> HIDE DEF g
      <4> QED
        BY <2>1, <2>2, <2>3, <2>6, <4>1 DEF Frames
    <3> QED
      BY <3>1, <3>2
  <2> HIDE DEF g
  <2>8. /\ DataOk(x[2], g) /\ NoNewSleeper(o, g) /\ KeepsTx(o, g)
        /\ SameData(x[2], o, g) /\ g.pc # "thr"
    <3>1. CASE x[2] = "proc"
      BY <1>1, <2>2, <2>3, <2>7, <3>1, NoneApart
         DEF NoNewSleeper, KeepsTx, SameData, DataOk, ProcData, Reads
    <3>2. CASE x[2] = "intr"
      BY <1>1, <2>2, <2>3, <2>7, <3>2, NoneApart
         DEF NoNewSleeper, KeepsTx, SameData, DataOk, IntrData, HoldsCons
    <3> QED
      BY <2>2, <3>1, <3>2
  <2> QED
    BY <2>2, <2>4, <2>5, <2>8 DEF o
<1> QED
  BY <1>2, <1>3

\* uartwrite() writes THR, or goes to sleep.
LEMMA WriteMove ==
  ASSUME NestInv, FrameData, NEW x \in Contexts, uartwrite(x)
  PROVE  /\ uartwrite_thr(x) => Plain(x)
         /\ Kept(x) /\ x[2] = "proc" /\ DataOk(x[2], frame'[x])
         /\ SameThr(frame[x], frame'[x]) /\ KeepsTx(frame[x], frame'[x])
         /\ SameData(x[2], frame[x], frame'[x])
         /\ frame'[x].pc \in {"uw", "tx_chan"}
<1> DEFINE o == frame[x]
<1>1. At(x, "uw") /\ (uartwrite_thr(x) \/ (tx_busy /\ Then(x, "tx_chan"))) /\ "tx_chan" \in Places
  BY DEF uartwrite, Step, ThenRelease, Places
<1>2. x[2] = "proc" /\ o.pc = "uw" /\ o \in Frames /\ NoReturn(o) /\ frame \in [Contexts -> Frames]
  BY <1>1, ProcHere
<1>3. o.next = None /\ o.i = 0 /\ o.c = None
  BY <1>2, OutsideRead DEF FrameData, DataOk, NoReturn
<1>4. ASSUME NEW p \in {"uw", "tx_chan"}, Kept(x), frame'[x].pc = p,
             frame'[x].i = 0, frame'[x].c = None, frame'[x].next = None
      PROVE  /\ DataOk(x[2], frame'[x]) /\ SameThr(o, frame'[x]) /\ KeepsTx(o, frame'[x])
             /\ SameData(x[2], o, frame'[x])
             /\ p = "uw" => NoNewSleeper(o, frame'[x])
  <2> HIDE DEF o
  <2> QED
    BY SMTT(30), <1>2, <1>3, <1>4, NoneApart
       DEF NoNewSleeper, SameThr, KeepsTx, SameData, DataOk, ProcData, Reads
<1>5. CASE uartwrite_thr(x)
  <2> DEFINE m == o.k - 1
             g == [o EXCEPT !.k = m]
  <2>1. frame' = [frame EXCEPT ![x] = g]
    BY <1>5 DEF uartwrite_thr
  <2>2. m \in Int
    BY SMTT(30), <1>2 DEF Frames
  <2>3. Kept(x) /\ frame'[x] = g
    BY <1>2, <2>1, OneFrame
  <2> HIDE DEF o, m
  <2>4. g.pc = "uw" /\ g.i = 0 /\ g.c = None /\ g.next = None
    BY <1>2, <1>3, <2>2 DEF Frames
  <2> HIDE DEF g
  <2> QED
    BY <1>2, <1>4, <2>3, <2>4 DEF Plain, PlainMove, o
<1>6. CASE ~uartwrite_thr(x)
  <2>1. /\ Kept(x) /\ frame'[x].pc = "tx_chan" /\ frame'[x].i = 0 /\ frame'[x].c = None
        /\ frame'[x].next = None
    BY <1>1, <1>2, <1>3, <1>6, ThenSet
  <2> QED
    BY <1>2, <1>4, <1>6, <2>1 DEF o
<1> QED
  BY <1>5, <1>6

\* consoleread() on its way to sleep.
LEMMA WaitMove ==
  ASSUME NestInv, FrameData, NEW x \in Contexts, consoleread_wait(x) \/ consoleread_sleep(x)
  PROVE  /\ Kept(x) /\ x[2] = "proc" /\ DataOk(x[2], frame'[x])
         /\ SameThr(frame[x], frame'[x]) /\ KeepsTx(frame[x], frame'[x])
         /\ SameData(x[2], frame[x], frame'[x])
         /\ r = w \/ frame[x].pc = "cr_sleep"
         /\ frame'[x].pc # "tx_chan"
<1> DEFINE o == frame[x]
<1>1. PICK pc \in {"cr", "cr_sleep"}, p \in {"cr_return", "cr_sleep", "cons_r"} :
        At(x, pc) /\ Then(x, p) /\ (r = w \/ pc = "cr_sleep")
  BY DEF consoleread_wait, consoleread_sleep, Step, ThenRelease
<1>2. x[2] = "proc" /\ o.pc = pc /\ o \in Frames /\ NoReturn(o) /\ frame \in [Contexts -> Frames]
  BY <1>1, ProcHere
<1>3. o.next = None /\ ProcData(o) /\ p \in Places
  BY <1>2 DEF FrameData, DataOk, NoReturn, Places
<1>4. /\ Kept(x) /\ frame'[x].pc = p /\ frame'[x].next = None
      /\ frame'[x].i = o.i /\ frame'[x].c = o.c
  BY <1>1, <1>2, <1>3, ThenSet
<1> HIDE DEF o
<1>5. /\ DataOk("proc", frame'[x]) /\ SameThr(o, frame'[x]) /\ KeepsTx(o, frame'[x])
      /\ SameData("proc", o, frame'[x])
  BY <1>2, <1>3, <1>4, NoneApart DEF SameThr, KeepsTx, SameData, DataOk, ProcData, Reads
<1> QED
  BY <1>1, <1>2, <1>4, <1>5 DEF o

\* consoleread() returns.
LEMMA ReadReturnMove ==
  ASSUME NestInv, NEW x \in Contexts, consoleread_return(x)
  PROVE  /\ Kept(x) /\ x[2] = "proc" /\ DataOk(x[2], frame'[x])
         /\ NoNewSleeper(frame[x], frame'[x]) /\ SameThr(frame[x], frame'[x])
         /\ KeepsTx(frame[x], frame'[x])
         /\ frame'[x].i = 0 /\ frame'[x].c = None
<1> DEFINE o == frame[x]
<1>1. PICK pc \in {"cr", "cr_return"} : At(x, pc)
  BY DEF consoleread_return, Step
<1>2. x[2] = "proc" /\ o.pc = pc /\ o \in Frames /\ NoReturn(o) /\ frame \in [Contexts -> Frames]
  BY <1>1, ProcHere
<1>3. o.next = None
  BY <1>2 DEF NoReturn
<1>4. frame' = [frame EXCEPT ![x] = Idle]
  BY DEF consoleread_return, Return
<1>5. Kept(x) /\ frame'[x] = Idle
  BY <1>2, <1>4, OneFrame
<1>6. Idle.pc = "idle" /\ Idle.next = None /\ Idle.i = 0 /\ Idle.c = None
  BY DEF Idle
<1> HIDE DEF o
<1>7. DataOk("proc", Idle) /\ NoNewSleeper(o, Idle) /\ SameThr(o, Idle) /\ KeepsTx(o, Idle)
  BY SMTT(30), <1>2, <1>3, <1>6, NoneApart DEF NoNewSleeper, SameThr, KeepsTx, DataOk, ProcData, Reads
<1> QED
  BY <1>2, <1>5, <1>6, <1>7 DEF o

\* consoleread() takes a character, an end of file, or neither.
LEMMA CharMove ==
  ASSUME NestInv, DataTypes, FrameData, NEW x \in Contexts, consoleread_char(x)
  PROVE  LET f == frame[x]
             g == frame'[x]
             ch == buf[r % SIZE]
         IN  /\ Kept(x) /\ x[2] = "proc" /\ DataOk(x[2], g)
             /\ NoNewSleeper(f, g) /\ SameThr(f, g) /\ KeepsTx(f, g)
             /\ f.c \notin {"nl", "eof", "fault"} /\ f.i \in Nat
             /\ \/ ch = "eof" /\ f.i # 0 /\ r' = r /\ g.i = f.i /\ g.c = f.c
                \/ ch = "eof" /\ f.i = 0 /\ r' = Next_(r) /\ g.i = f.i /\ g.c = "eof"
                \/ ch # "eof" /\ r' = Next_(r) /\ g.i = f.i + 1 /\ g.c = ch
                \/ ch # "eof" /\ r' = Next_(r) /\ g.i = f.i /\ g.c = "fault"
<1> DEFINE o == frame[x]
           ch == buf[r % SIZE]
<1>1. At(x, "cr")
  BY DEF consoleread_char, Step
<1>2. x[2] = "proc" /\ o.pc = "cr" /\ o \in Frames /\ NoReturn(o) /\ frame \in [Contexts -> Frames]
  BY <1>1, ProcHere
<1>3. o.next = None /\ o.i \in Nat /\ o.c \notin {"nl", "eof", "fault"}
  BY <1>2 DEF FrameData, DataOk, ProcData, NoReturn
<1>4. ch \in Keys /\ ch # "fault"
  <2>1. r % SIZE \in 0..(SIZE - 1)
    BY SlotIn DEF DataTypes
  <2>2. "fault" \notin Keys
    BY ConsoleAssumption DEF Keys
  <2> QED
    BY <2>1, <2>2 DEF DataTypes
<1> DEFINE c1 == IF o.i > 0 THEN o.c ELSE ch
           p2 == IF ch = "nl" THEN "cr_return" ELSE "cr"
           n2 == o.n - 1
           i2 == o.i + 1
           g1 == [o EXCEPT !.pc = "cr_return", !.c = c1]
           g2 == [o EXCEPT !.pc = p2, !.n = n2, !.i = i2, !.c = ch]
           g3 == [o EXCEPT !.pc = "cr_return", !.c = "fault"]
<1>5. \/ ch = "eof" /\ r' = eof_index(o.i) /\ frame' = [frame EXCEPT ![x] = g1]
      \/ ch # "eof" /\ r' = Next_(r) /\ frame' = [frame EXCEPT ![x] = g2]
      \/ ch # "eof" /\ r' = Next_(r) /\ frame' = [frame EXCEPT ![x] = g3]
  BY <1>2 DEF consoleread_char
<1>6. c1 \in Codes /\ ch \in Codes /\ "fault" \in Codes /\ n2 \in Int /\ i2 \in Nat
  BY SMTT(30), <1>2, <1>3, <1>4 DEF Frames, Codes
<1>7. p2 \in {"cr_return", "cr"} /\ (p2 = "cr" => ch # "nl") /\ p2 \in Places /\ "cr_return" \in Places
  BY DEF Places
<1>8. (o.i > 0 => c1 = o.c) /\ (o.i = 0 => c1 = ch)
  BY SMTT(30), <1>3
<1>9. (o.i > 0 => eof_index(o.i) = r) /\ (o.i = 0 => eof_index(o.i) = Next_(r))
  BY SMTT(30), <1>3 DEF eof_index
<1> HIDE DEF o, ch, c1, p2, n2, i2
<1>10. g1.pc = "cr_return" /\ g1.next = None /\ g1.i = o.i /\ g1.c = c1
  BY <1>2, <1>3, <1>6, <1>7 DEF Frames
<1>11. g2.pc = p2 /\ g2.next = None /\ g2.i = i2 /\ g2.c = ch
  BY <1>2, <1>3, <1>6, <1>7 DEF Frames
<1>12. g3.pc = "cr_return" /\ g3.next = None /\ g3.i = o.i /\ g3.c = "fault"
  BY <1>2, <1>3, <1>6, <1>7 DEF Frames
<1> HIDE DEF g1, g2, g3
<1>13. ASSUME NEW g, frame' = [frame EXCEPT ![x] = g], g.i \in Nat, g.next = None,
              g.pc = "cr_return" \/ (g.pc = "cr" /\ g.c \notin {"nl", "eof", "fault"})
       PROVE  /\ Kept(x) /\ frame'[x] = g /\ DataOk("proc", g)
              /\ NoNewSleeper(o, g) /\ SameThr(o, g) /\ KeepsTx(o, g)
  <2>1. Kept(x) /\ frame'[x] = g
    BY <1>2, <1>13, OneFrame
  <2> QED
    BY <1>2, <1>3, <1>13, <2>1, NoneApart
       DEF NoNewSleeper, SameThr, KeepsTx, DataOk, ProcData, Reads
<1>14. CASE ch = "eof" /\ r' = eof_index(o.i) /\ frame' = [frame EXCEPT ![x] = g1]
  <2>1. /\ Kept(x) /\ frame'[x] = g1 /\ DataOk("proc", g1)
        /\ NoNewSleeper(o, g1) /\ SameThr(o, g1) /\ KeepsTx(o, g1)
    BY <1>3, <1>10, <1>13, <1>14
  <2> QED
    BY SMTT(30), <1>2, <1>3, <1>8, <1>9, <1>10, <1>14, <2>1 DEF o, ch
<1>15. CASE ch # "eof" /\ r' = Next_(r) /\ frame' = [frame EXCEPT ![x] = g2]
  <2>1. /\ Kept(x) /\ frame'[x] = g2 /\ DataOk("proc", g2)
        /\ NoNewSleeper(o, g2) /\ SameThr(o, g2) /\ KeepsTx(o, g2)
    BY <1>4, <1>6, <1>7, <1>11, <1>13, <1>15
  <2> QED
    BY <1>2, <1>3, <1>11, <1>15, <2>1 DEF o, ch, i2
<1>16. CASE ch # "eof" /\ r' = Next_(r) /\ frame' = [frame EXCEPT ![x] = g3]
  <2>1. /\ Kept(x) /\ frame'[x] = g3 /\ DataOk("proc", g3)
        /\ NoNewSleeper(o, g3) /\ SameThr(o, g3) /\ KeepsTx(o, g3)
    BY <1>3, <1>12, <1>13, <1>16
  <2> QED
    BY <1>2, <1>3, <1>12, <1>16, <2>1 DEF o, ch
<1> QED
  BY <1>5, <1>14, <1>15, <1>16

\* consoleintr() edits the line, and wakes the readers when it is finished.
LEMMA EditMove ==
  ASSUME NestInv, FrameData, NEW x \in Contexts, consoleintr(x)
  PROVE  LET ch == IF frame[x].c = "cr" THEN "nl" ELSE frame[x].c
         IN  /\ Plain(x) /\ x[2] = "intr" /\ frame[x].pc = "edit" /\ frame[x].c \in Chars
             /\ \/ ~Stored(ch) /\ e' = (e - Erased(ch)) % WORD /\ buf' = buf /\ w' = w
                \/ /\ Stored(ch) /\ buf' = [buf EXCEPT ![e % SIZE] = ch] /\ e' = Next_(e)
                   /\ w' = IF Commits(ch, Next_(e)) THEN Next_(e) ELSE w
                   /\ Commits(ch, Next_(e)) => \A y \in Contexts : frame'[y].pc # "cons_r"
<1> DEFINE o == frame[x]
           ch == IF o.c = "cr" THEN "nl" ELSE o.c
           g == [o EXCEPT !.pc = "getc", !.c = None]
           go == [frame EXCEPT ![x] = g]
<1>1. At(x, "edit")
  BY DEF consoleintr, Step
<1>2. x[2] = "intr" /\ o.pc = "edit" /\ o \in Frames /\ NoReturn(o) /\ frame \in [Contexts -> Frames]
  BY <1>1, IntrHere
<1>3. o.next = None /\ o.ret = None /\ o.c \in Chars
  BY <1>2 DEF NoReturn, FrameData, DataOk, IntrData, HoldsCons
<1>4. \/ /\ ~Stored(ch) /\ e' = (e - Erased(ch)) % WORD /\ buf' = buf /\ w' = w
         /\ frame' = go
      \/ /\ Stored(ch) /\ buf' = [buf EXCEPT ![e % SIZE] = ch] /\ e' = Next_(e)
         /\ w' = IF Commits(ch, Next_(e)) THEN Next_(e) ELSE w
         /\ frame' = IF Commits(ch, Next_(e)) THEN Woken(go, "cons_r") ELSE go
  BY DEF consoleintr
<1>5. "getc" \in Places /\ None \in Codes
  BY DEF Places, Codes
<1> HIDE DEF o, ch
<1>6. g \in Frames /\ g.pc = "getc" /\ g.next = None /\ g.ret = None
  BY <1>2, <1>3, <1>5 DEF Frames
<1> HIDE DEF g
<1>7. PlainMove("intr", o, g)
  BY <1>2, <1>3, <1>6, NoneApart
     DEF PlainMove, NoNewSleeper, SameThr, KeepsTx, SameData, DataOk, IntrData, HoldsCons
<1>8. CASE frame' = go
  <2>1. Kept(x) /\ frame'[x] = g
    BY <1>2, <1>8, OneFrame
  <2>2. Plain(x)
    BY <1>2, <1>7, <2>1 DEF Plain, o
  <2>3. \/ ~Stored(ch) /\ e' = (e - Erased(ch)) % WORD /\ buf' = buf /\ w' = w
        \/ /\ Stored(ch) /\ buf' = [buf EXCEPT ![e % SIZE] = ch] /\ e' = Next_(e)
           /\ w' = IF Commits(ch, Next_(e)) THEN Next_(e) ELSE w
           /\ Commits(ch, Next_(e)) => frame' = Woken(go, "cons_r")
    BY <1>4
  <2>4. frame' = Woken(go, "cons_r") => \A y \in Contexts : frame'[y].pc # "cons_r"
    BY <1>2, <1>6, WokenGone
  <2> QED
    BY <1>2, <1>3, <2>2, <2>3, <2>4 DEF o, ch
<1>9. CASE Stored(ch) /\ Commits(ch, Next_(e)) /\ frame' = Woken(go, "cons_r")
  <2>1. Kept(x) /\ frame'[x] = g /\ \A y \in Contexts : frame'[y].pc # "cons_r"
    BY <1>2, <1>6, <1>9, WokenKept, WokenGone
  <2>2. Plain(x)
    BY <1>2, <1>7, <2>1 DEF Plain, o
  <2> QED
    BY <1>2, <1>3, <1>4, <1>9, <2>1, <2>2 DEF o, ch
<1> QED
  BY <1>4, <1>8, <1>9

\* The other contexts are at most woken.
LEMMA KeptOthers ==
  ASSUME frame \in [Contexts -> Frames], FrameData, NEW x \in Contexts, Kept(x),
         NEW y \in Contexts, y # x
  PROVE  PlainMove(y[2], frame[y], frame'[y])
<1> DEFINE f == frame[y]
           g == frame'[y]
           p == WokenOn[f.pc]
<1>1. f \in Frames /\ DataOk(y[2], f) /\ Roused(f, g)
  BY DEF FrameData, Kept
<1> HIDE DEF f, g
<1>2. CASE g = f
  BY <1>1, <1>2 DEF PlainMove, NoNewSleeper, SameThr, KeepsTx, SameData, f, g
<1>3. CASE f.pc \in {"tx_chan", "cons_r"} /\ g = [f EXCEPT !.pc = p]
  <2>1. /\ p \in Places
        /\ f.pc = "tx_chan" => p = "tx_woken"
        /\ f.pc = "cons_r" => p = "cons_woken"
    BY SMTT(30), <1>3 DEF WokenOn, Places
  <2> HIDE DEF p
  <2>2. g.pc = p /\ g.next = f.next /\ g.ret = f.ret /\ g.i = f.i /\ g.c = f.c
    BY <1>1, <1>3, <2>1, PlaceSet
  <2>3. PlainMove(y[2], f, g)
    BY <1>1, <1>3, <2>1, <2>2
       DEF PlainMove, NoNewSleeper, SameThr, KeepsTx, SameData, DataOk, ProcData, Reads,
           IntrData, HoldsCons
  <2> QED
    BY <2>3 DEF f, g
<1> QED
  BY <1>1, <1>2, <1>3 DEF Roused

\* In a plain step no context but the one that runs moves, woken ones apart.
LEMMA PlainAll ==
  ASSUME NestInv, FrameData, NEW x \in Contexts, Plain(x)
  PROVE  \A y \in Contexts : PlainMove(y[2], frame[y], frame'[y])
BY KeptOthers DEF Plain, NestInv

\* The data of all frames is right when that of the running context is.
LEMMA DataStep ==
  ASSUME NestInv, FrameData, NEW x \in Contexts, Kept(x), DataOk(x[2], frame'[x])
  PROVE  FrameData'
<1>1. \A y \in Contexts : DataOk(y[2], frame'[y])
  BY KeptOthers DEF PlainMove, NestInv
<1> QED
  BY <1>1 DEF FrameData, Contexts

-----------------------------------------------------------------------------
(* The steps                                                               *)

\* Nothing happens to the ring buffer, the transmitter, or those who wait for
\* either.
Eventless ==
  /\ \A y \in Contexts : PlainMove(y[2], frame[y], frame'[y])
  /\ UNCHANGED <<buf, r, w, e, tx_busy, fifo, thri>>

\* A step that leaves the frames alone is plain.
LEMMA StillPlain ==
  ASSUME FrameData, UNCHANGED frame
  PROVE  \A y \in Contexts : PlainMove(y[2], frame[y], frame'[y])
BY DEF FrameData, PlainMove, NoNewSleeper, SameThr, KeepsTx, SameData

\* The steps that matter to the ring buffer, the transmitter and the sleepers.
LEMMA StepKinds ==
  ASSUME NestInv, DataTypes, FrameData, \A a : Erased(a) \in Nat, [Next]_vars
  PROVE  \/ Eventless
         \/ \E x \in Contexts :
              \/ uartputc_lsr(x) \/ uartputc_thr(x) \/ uartwrite(x)
              \/ consoleread_wait(x) \/ consoleread_sleep(x)
              \/ consoleread_char(x) \/ consoleread_return(x)
              \/ uartintr_tx(x) \/ consoleintr(x)
         \/ \E c \in CPUs : devintr(c)
         \/ uart_send
<1>1. ASSUME NEW x \in Contexts, Plain(x), UNCHANGED <<cons, tx_busy, fifo, thri>>
      PROVE  Eventless
  BY <1>1, PlainAll DEF Eventless, cons
<1>2. ASSUME NEW x \in Contexts,
             printf(x) \/ \E n \in Ns : consolewrite(x, n) \/ consoleread(x, n)
      PROVE  Eventless
  <2>1. Plain(x)
    BY <1>2, CallPlain
  <2>2. UNCHANGED <<cons, tx_busy, fifo, thri>>
    BY <1>2 DEF printf, consolewrite, consoleread, Call, uart
  <2> QED
    BY <1>1, <2>1, <2>2
<1>3. ASSUME NEW x \in Contexts,
             \/ spin(x) \/ printf_return(x) \/ uartwrite_end(x)
             \/ uartwrite_woken(x) \/ consolewrite_next(x) \/ consoleread_woken(x)
      PROVE  Eventless
  <2>1. Plain(x)
    BY <1>3, SpinPlain, ReturnPlain, AgainPlain
  <2>2. UNCHANGED <<cons, tx_busy, fifo, thri>>
    BY <1>3 DEF spin, printf_return, uartwrite_end, uartwrite_woken, consolewrite_next,
                consoleread_woken, uart
  <2> QED
    BY <1>1, <2>1, <2>2
<1>4. ASSUME NEW x \in Contexts,
             uartgetc(x) \/ consoleintr_echo(x) \/ procdump_end(x) \/ devintr_end(x)
      PROVE  Eventless
  <2>1. Plain(x)
    BY <1>4, GetcPlain, EchoPlain, DumpPlain, LeavePlain
  <2>2. UNCHANGED <<cons, tx_busy, fifo, thri>>
    BY <1>4 DEF uartgetc, consoleintr_echo, procdump_end, devintr_end, uart
  <2> QED
    BY <1>1, <2>1, <2>2
<1>5. ASSUME NEW c \in CPUs, kkill(c) PROVE Eventless
  <2>1. <<c, "proc">> \in Contexts /\ Plain(<<c, "proc">>)
    BY <1>5, KillPlain DEF Contexts
  <2>2. UNCHANGED <<cons, tx_busy, fifo, thri>>
    BY <1>5 DEF kkill, uart
  <2> QED
    BY <1>1, <2>1, <2>2
<1>6. CASE (\E c \in Chars : uart_type(c)) \/ Quiet \/ UNCHANGED vars
  <2>1. UNCHANGED <<frame, buf, r, w, e, tx_busy, fifo, thri>>
    BY <1>6 DEF uart_type, Quiet, vars, uart, cons
  <2> QED
    BY <2>1, StillPlain DEF Eventless
<1> QED
  BY <1>2, <1>3, <1>4, <1>5, <1>6 DEF Next

-----------------------------------------------------------------------------
(* Remainders and sequences                                                *)

\* A remainder is below the modulus.
LEMMA ModRange == ASSUME NEW m \in Nat \ {0}, NEW n \in Int PROVE n % m \in 0..(m - 1)
BY SMTT(30)

\* Quotient and remainder make up the number.
LEMMA ModDiv ==
  ASSUME NEW m \in Nat \ {0}, NEW n \in Int
  PROVE  n \div m \in Int /\ n = (n \div m) * m + (n % m)
BY SMTT(30)

\* The remainder of a multiple plus less than the modulus is what was added.
LEMMA ModUnique ==
  ASSUME NEW m \in Nat \ {0}, NEW q \in Int, NEW z \in 0..(m - 1)
  PROVE  (q * m + z) % m = z
BY SMTT(30)

\* A number below the modulus is its own remainder.
LEMMA ModBelow == ASSUME NEW m \in Nat \ {0}, NEW n \in 0..(m - 1) PROVE n % m = n
BY SMTT(30)

\* From one modulus up to two, the remainder is one modulus less.
LEMMA ModOnce == ASSUME NEW m \in Nat \ {0}, NEW n \in m..(2 * m - 1) PROVE n % m = n - m
BY SMTT(30)

\* One modulus more does not change the remainder.
LEMMA ModPlus == ASSUME NEW m \in Nat \ {0}, NEW n \in 0..(m - 1) PROVE (n + m) % m = n
BY SMTT(30)

\* Less than a modulus below zero, the remainder is one modulus more.
LEMMA ModNegative ==
  ASSUME NEW m \in Nat \ {0}, NEW n \in Int, -m <= n, n < 0 PROVE n % m = n + m
BY SMTT(30)

\* Any number of moduli less does not change the remainder.
LEMMA ModShift ==
  ASSUME NEW m \in Nat \ {0}, NEW n \in Int, NEW c \in Int PROVE (n - c * m) % m = n % m
<1> DEFINE q == n \div m
           z == n % m
<1>1. q \in Int /\ z \in 0..(m - 1) /\ n = q * m + z
  BY ModRange, ModDiv
<1> HIDE DEF q, z
<1>2. n - c * m = (q - c) * m + z
  BY SMTT(30), <1>1
<1>3. ((q - c) * m + z) % m = z
  BY SMTT(30), <1>1, ModUnique
<1> QED
  BY <1>2, <1>3 DEF z

\* Less than m apart, two numbers have different remainders.
LEMMA ModDistinct ==
  ASSUME NEW m \in Nat \ {0}, NEW a \in Int, NEW b \in Int, a < b, b < a + m
  PROVE  a % m # b % m
<1> SUFFICES ASSUME a % m = b % m PROVE FALSE
  OBVIOUS
<1> DEFINE q == a \div m
           s == b \div m
           z == a % m
<1>1. /\ q \in Int /\ s \in Int /\ z \in 0..(m - 1)
      /\ a = q * m + z /\ b = s * m + z
  BY ModRange, ModDiv
<1> HIDE DEF q, s, z
<1>2. b - a = (s - q) * m
  BY SMTT(30), <1>1
<1>3. s - q >= 1
  <2>1. ASSUME s - q <= 0 PROVE FALSE
    <3>1. (s - q) * m <= 0
      BY SMTT(30), <1>1, <2>1
    <3> QED
      BY SMTT(30), <1>2, <3>1
  <2> QED
    BY SMTT(30), <2>1, <1>1
<1>4. (s - q) * m >= m
  BY SMTT(30), <1>1, <1>3
<1> QED
  BY SMTT(30), <1>2, <1>4

\* Sequences of one length that agree at every index are equal.
LEMMA SameSequence ==
  ASSUME NEW S, NEW q \in Seq(S), NEW z \in Seq(S), Len(q) = Len(z),
         \A k \in 1..Len(q) : q[k] = z[k]
  PROVE  q = z
BY SMTT(30)

\* What one more element at the end gives, and what makes a sequence that.
LEMMA AppendValue ==
  ASSUME NEW S, NEW q \in Seq(S), NEW x \in S, NEW z \in Seq(S), Len(z) = Len(q) + 1,
         \A k \in 1..Len(q) : z[k] = q[k], z[Len(q) + 1] = x
  PROVE  z = Append(q, x)
<1>1. /\ Append(q, x) \in Seq(S) /\ Len(Append(q, x)) = Len(q) + 1
      /\ \A k \in 1..Len(q) : Append(q, x)[k] = q[k]
      /\ Append(q, x)[Len(q) + 1] = x
  BY SMTT(30)
<1>2. \A k \in 1..Len(z) : k \in 1..Len(q) \/ k = Len(q) + 1
  BY SMTT(30)
<1>3. \A k \in 1..Len(z) : z[k] = Append(q, x)[k]
  BY <1>1, <1>2
<1> QED
  BY <1>1, <1>3, SameSequence

\* The same for a sequence without its first element.
LEMMA TailValue ==
  ASSUME NEW S, NEW q \in Seq(S), q # <<>>, NEW z \in Seq(S), Len(z) = Len(q) - 1,
         \A k \in 1..Len(z) : z[k] = q[k + 1]
  PROVE  z = Tail(q)
<1>1. /\ Tail(q) \in Seq(S) /\ Len(Tail(q)) = Len(q) - 1
      /\ \A k \in 1..Len(Tail(q)) : Tail(q)[k] = q[k + 1]
  BY SMTT(30)
<1> QED
  BY <1>1, SameSequence

\* The same for one sequence after another.
LEMMA ConcatValue ==
  ASSUME NEW S, NEW q \in Seq(S), NEW t \in Seq(S), NEW z \in Seq(S), Len(z) = Len(q) + Len(t),
         \A k \in 1..Len(q) : z[k] = q[k],
         \A k \in 1..Len(t) : z[Len(q) + k] = t[k]
  PROVE  z = q \o t
<1>1. Len(q) \in Nat /\ Len(t) \in Nat
  BY SMTT(30)
<1>2. /\ q \o t \in Seq(S) /\ Len(q \o t) = Len(q) + Len(t)
      /\ \A k \in 1..Len(q) : (q \o t)[k] = q[k]
      /\ \A k \in 1..Len(t) : (q \o t)[Len(q) + k] = t[k]
  BY SMTT(30)
<1>3. ASSUME NEW k \in 1..Len(z) PROVE z[k] = (q \o t)[k]
  <2> DEFINE m == k - Len(q)
  <2>1. k <= Len(q) => k \in 1..Len(q)
    BY SMTT(30), <1>1
  <2>2. k > Len(q) => m \in 1..Len(t) /\ Len(q) + m = k
    BY SMTT(30), <1>1
  <2>3. k > Len(q) => z[k] = (q \o t)[k]
    <3> HIDE DEF m
    <3> QED
      BY <1>2, <2>2
  <2>4. k <= Len(q) => z[k] = (q \o t)[k]
    BY <1>2, <2>1
  <2> QED
    BY SMTT(30), <1>1, <2>3, <2>4
<1> QED
  BY <1>2, <1>3, SameSequence

-----------------------------------------------------------------------------
(* Counters of range W that index a buffer of S slots                      *)

\* How far apart two counters are, whichever has wrapped.
LEMMA WrapApart ==
  ASSUME NEW W \in Nat \ {0}, NEW a \in 0..(W - 1), NEW b \in 0..(W - 1)
  PROVE  /\ (b - a) % W \in 0..(W - 1)
         /\ a <= b => a + ((b - a) % W) = b
         /\ a > b => a + ((b - a) % W) = b + W
<1>1. CASE a <= b
  <2>1. b - a \in 0..(W - 1)
    BY SMTT(30), <1>1
  <2> QED
    BY SMTT(30), <1>1, <2>1, ModBelow
<1>2. CASE a > b
  <2>1. b - a \in Int /\ -W <= b - a /\ b - a < 0
    BY SMTT(30), <1>2
  <2>2. (b - a) % W = b - a + W
    BY <2>1, ModNegative
  <2> QED
    BY SMTT(30), <1>2, <2>2
<1> QED
  BY SMTT(30), <1>1, <1>2

\* A counter of range W goes up by one, or from its last value to zero.
LEMMA WrapNext ==
  ASSUME NEW W \in Nat \ {0}, NEW n \in 0..(W - 1)
  PROVE  /\ (n + 1) % W \in 0..(W - 1)
         /\ (n + 1) % W = IF n + 1 = W THEN 0 ELSE n + 1
<1>1. CASE n + 1 = W
  BY SMTT(30), <1>1, ModOnce
<1>2. CASE n + 1 # W
  BY SMTT(30), <1>2, ModBelow
<1> QED
  BY <1>1, <1>2

\* An index survives a wrap of its counter if S divides W.
LEMMA WrapSlot ==
  ASSUME NEW W \in Nat \ {0}, NEW S \in Nat \ {0}, W % S = 0, NEW i \in 0..(2 * W - 1)
  PROVE  (i % W) % S = i % S
<1> DEFINE c == W \div S
<1>1. c \in Int /\ W = c * S
  BY SMTT(30), ModDiv
<1> HIDE DEF c
<1>2. CASE i < W
  BY SMTT(30), <1>2, ModBelow
<1>3. CASE i >= W
  <2>1. i % W = i - c * S
    BY SMTT(30), <1>1, <1>3, ModOnce
  <2>2. (i - c * S) % S = i % S
    <3>1. i \in Int /\ c \in Int
      BY SMTT(30), <1>1
    <3> QED
      BY <3>1, ModShift
  <2> QED
    BY <2>1, <2>2
<1> QED
  BY SMTT(30), <1>2, <1>3

\* A counter that advances moves away from the one behind it, and towards the
\* one ahead.
LEMMA WrapAway ==
  ASSUME NEW W \in Nat \ {0}, NEW a \in 0..(W - 1), NEW b \in 0..(W - 1),
         (b - a) % W < W - 1
  PROVE  (((b + 1) % W) - a) % W = ((b - a) % W) + 1
<1> DEFINE v == (b + 1) % W
           d == (b - a) % W
           y == (v - a) % W
<1>1. v \in 0..(W - 1) /\ (b + 1 = W => v = 0) /\ (b + 1 # W => v = b + 1)
  BY WrapNext
<1> HIDE DEF v
<1>2. d \in 0..(W - 1) /\ (a <= b => a + d = b) /\ (a > b => a + d = b + W)
  BY WrapApart
<1>3. y \in 0..(W - 1) /\ (a <= v => a + y = v) /\ (a > v => a + y = v + W)
  BY <1>1, WrapApart
<1>4. d < W - 1
  OBVIOUS
<1> HIDE DEF d, y
<1>5. y = d + 1
  <2>1. CASE b + 1 = W
    BY SMTT(30), <2>1, <1>1, <1>2, <1>3, <1>4
  <2>2. CASE b + 1 # W
    BY SMTT(30), <2>2, <1>1, <1>2, <1>3, <1>4
  <2> QED
    BY <2>1, <2>2
<1> QED
  BY <1>5 DEF v, d, y

\* The distance to another counter is one less when the counter behind goes
\* up.
LEMMA WrapTowards ==
  ASSUME NEW W \in Nat \ {0}, NEW a \in 0..(W - 1), NEW b \in 0..(W - 1),
         (b - a) % W >= 1
  PROVE  (b - ((a + 1) % W)) % W = ((b - a) % W) - 1
<1> DEFINE v == (a + 1) % W
           d == (b - a) % W
           y == (b - v) % W
<1>1. v \in 0..(W - 1) /\ (a + 1 = W => v = 0) /\ (a + 1 # W => v = a + 1)
  BY WrapNext
<1> HIDE DEF v
<1>2. d \in 0..(W - 1) /\ (a <= b => a + d = b) /\ (a > b => a + d = b + W)
  BY WrapApart
<1>3. y \in 0..(W - 1) /\ (v <= b => v + y = b) /\ (v > b => v + y = b + W)
  BY <1>1, WrapApart
<1>4. d >= 1
  OBVIOUS
<1> HIDE DEF d, y
<1>5. y = d - 1
  <2>1. CASE a + 1 = W
    BY SMTT(30), <2>1, <1>1, <1>2, <1>3, <1>4
  <2>2. CASE a + 1 # W
    BY SMTT(30), <2>2, <1>1, <1>2, <1>3, <1>4
  <2> QED
    BY <2>1, <2>2
<1> QED
  BY <1>5 DEF v, d, y

\* The same for a counter that goes back, not beyond the one behind it.
LEMMA WrapBack ==
  ASSUME NEW W \in Nat \ {0}, NEW a \in 0..(W - 1), NEW b \in 0..(W - 1),
         NEW k \in 0..((b - a) % W)
  PROVE  /\ (b - k) % W \in 0..(W - 1)
         /\ (((b - k) % W) - a) % W = ((b - a) % W) - k
<1> DEFINE d == (b - a) % W
           v == (b - k) % W
           y == (v - a) % W
<1>1. d \in 0..(W - 1) /\ (a <= b => a + d = b) /\ (a > b => a + d = b + W)
  BY WrapApart
<1>2. k \in 0..d
  OBVIOUS
<1>3. v \in 0..(W - 1) /\ (b >= k => v = b - k) /\ (b < k => v = b - k + W)
  <2>1. CASE b >= k
    <3>1. b - k \in 0..(W - 1)
      BY SMTT(30), <1>1, <1>2, <2>1
    <3> QED
      BY SMTT(30), <2>1, <3>1, ModBelow
  <2>2. CASE b < k
    <3>1. b - k \in Int /\ -W <= b - k /\ b - k < 0
      BY SMTT(30), <1>1, <1>2, <2>2
    <3>2. (b - k) % W = b - k + W
      BY <3>1, ModNegative
    <3> QED
      BY SMTT(30), <1>1, <1>2, <2>2, <3>1, <3>2
  <2> QED
    BY SMTT(30), <1>1, <1>2, <2>1, <2>2
<1> HIDE DEF v
<1>4. y \in 0..(W - 1) /\ (a <= v => a + y = v) /\ (a > v => a + y = v + W)
  BY <1>3, WrapApart
<1> HIDE DEF d, y
<1>5. y = d - k
  <2>1. CASE b >= k
    BY SMTT(30), <2>1, <1>1, <1>2, <1>3, <1>4
  <2>2. CASE b < k
    BY SMTT(30), <2>2, <1>1, <1>2, <1>3, <1>4
  <2> QED
    BY SMTT(30), <1>1, <1>2, <2>1, <2>2
<1> QED
  BY <1>3, <1>5 DEF v, d, y

\* Of three counters in order, the distances add up.
LEMMA WrapBetween ==
  ASSUME NEW W \in Nat \ {0}, NEW a \in 0..(W - 1), NEW b \in 0..(W - 1), NEW c \in 0..(W - 1),
         (b - a) % W <= (c - a) % W
  PROVE  (c - b) % W = ((c - a) % W) - ((b - a) % W)
<1> DEFINE p == (b - a) % W
           q == (c - a) % W
           s == (c - b) % W
<1>1. p \in 0..(W - 1) /\ (a <= b => a + p = b) /\ (a > b => a + p = b + W)
  BY WrapApart
<1>2. q \in 0..(W - 1) /\ (a <= c => a + q = c) /\ (a > c => a + q = c + W)
  BY WrapApart
<1>3. s \in 0..(W - 1) /\ (b <= c => b + s = c) /\ (b > c => b + s = c + W)
  BY WrapApart
<1>4. p <= q
  OBVIOUS
<1> HIDE DEF p, q, s
<1>5. s = q - p
  BY SMTT(30), <1>1, <1>2, <1>3, <1>4
<1> QED
  BY <1>5 DEF p, q, s

-----------------------------------------------------------------------------
(* The ring buffer                                                         *)

\* The buffer has two slots at least, and fewer than an index has values.
LEMMA Sizes == SIZE \in Nat \ {0, 1} /\ WORD \in Nat \ {0} /\ SIZE < WORD
BY SMTT(30), ConsoleAssumption

Index == 0..(WORD - 1)
Buffers == [0..(SIZE - 1) -> Keys]

\* What Window is when the buffer is b.
WindowOf(b, p, q) == [j \in 1..Held(p, q) |-> b[((p + j - 1) % WORD) % SIZE]]

\* The distance between two indices.
LEMMA HeldValue ==
  ASSUME NEW p \in Index, NEW q \in Index
  PROVE  /\ Held(p, q) \in Index
         /\ p <= q => p + Held(p, q) = q
         /\ p > q => p + Held(p, q) = q + WORD
BY WrapApart, Sizes DEF Index, Held

\* No character is held exactly when the two indices are equal.
LEMMA HeldZero == ASSUME NEW p \in Index, NEW q \in Index PROVE Held(p, q) = 0 <=> p = q
<1> DEFINE h == Held(p, q)
<1>1. h \in Index /\ (p <= q => p + h = q) /\ (p > q => p + h = q + WORD)
  BY HeldValue
<1> HIDE DEF h
<1>2. h = 0 <=> p = q
  BY SMTT(30), <1>1, Sizes DEF Index
<1> QED
  BY <1>2 DEF h

\* Slots repeat after WORD indices, as SIZE divides WORD.
LEMMA SlotPeriod == ASSUME NEW i \in Int PROVE (i + WORD) % SIZE = i % SIZE
<1> DEFINE c == WORD \div SIZE
<1>1. c \in Int /\ WORD = c * SIZE
  BY SMTT(30), ModDiv, ConsoleAssumption
<1> HIDE DEF c
<1>2. -c \in Int /\ i - (-c) * SIZE = i + WORD
  BY SMTT(30), <1>1, Sizes
<1>3. (i - (-c) * SIZE) % SIZE = i % SIZE
  <2>1. SIZE \in Nat \ {0} /\ i \in Int /\ -c \in Int
    BY <1>2, Sizes
  <2> QED
    BY <2>1, ModShift
<1> QED
  BY <1>2, <1>3

\* The slot of the j-th character after p, counted from an index a before p.
LEMMA SlotFrom ==
  ASSUME NEW a \in Index, NEW p \in Index, NEW j \in 1..WORD
  PROVE  ((p + j - 1) % WORD) % SIZE = (a + Held(a, p) + j - 1) % SIZE
<1>1. p + j - 1 \in 0..(2 * WORD - 1)
  BY SMTT(30), Sizes DEF Index
<1>2. ((p + j - 1) % WORD) % SIZE = (p + j - 1) % SIZE
  BY SMTT(30), <1>1, WrapSlot, ConsoleAssumption, Sizes
<1>3. CASE a <= p
  <2>1. a + Held(a, p) = p
    BY <1>3, HeldValue
  <2> QED
    BY <1>2, <2>1
<1>4. CASE a > p
  <2>1. a + Held(a, p) + j - 1 = (p + j - 1) + WORD
    BY SMTT(30), <1>4, HeldValue, Sizes DEF Index
  <2>2. (p + j - 1 + WORD) % SIZE = (p + j - 1) % SIZE
    BY SMTT(30), <1>1, SlotPeriod
  <2> QED
    BY <1>2, <2>1, <2>2
<1> QED
  BY SMTT(30), <1>3, <1>4 DEF Index

\* The characters between two indices, as a sequence.
LEMMA WindowSeq ==
  ASSUME NEW b \in Buffers, NEW p \in Index, NEW q \in Index
  PROVE  WindowOf(b, p, q) \in Seq(Keys) /\ Len(WindowOf(b, p, q)) = Held(p, q)
<1> DEFINE h == Held(p, q)
<1>1. h \in Nat
  BY SMTT(30), HeldValue DEF Index
<1> HIDE DEF h
<1>2. \A j \in 1..h : ((p + j - 1) % WORD) % SIZE \in 0..(SIZE - 1)
  <2> SUFFICES ASSUME NEW j \in 1..h
               PROVE  ((p + j - 1) % WORD) % SIZE \in 0..(SIZE - 1)
    OBVIOUS
  <2>1. p + j - 1 \in Int /\ WORD \in Nat \ {0} /\ SIZE \in Nat \ {0}
    BY SMTT(30), <1>1, Sizes DEF Index
  <2>2. (p + j - 1) % WORD \in Int
    BY SMTT(30), <2>1, ModRange
  <2> QED
    BY <2>1, <2>2, ModRange
<1>3. \A j \in 1..h : b[((p + j - 1) % WORD) % SIZE] \in Keys
  BY <1>2 DEF Buffers
<1>4. LET s == [j \in 1..h |-> b[((p + j - 1) % WORD) % SIZE]] IN s \in Seq(Keys) /\ Len(s) = h
  BY SMTT(30), <1>1, <1>3
<1> QED
  BY <1>4 DEF WindowOf, h

\* Where a character between two indices is in the buffer, seen from a third.
LEMMA WindowAt ==
  ASSUME NEW b \in Buffers, NEW a \in Index, NEW p \in Index, NEW q \in Index,
         NEW j \in 1..Held(p, q)
  PROVE  WindowOf(b, p, q)[j] = b[(a + Held(a, p) + j - 1) % SIZE]
<1>1. j \in 1..WORD
  BY SMTT(30), HeldValue, Sizes DEF Index
<1>2. ((p + j - 1) % WORD) % SIZE = (a + Held(a, p) + j - 1) % SIZE
  BY <1>1, SlotFrom
<1>3. WindowOf(b, p, q)[j] = b[((p + j - 1) % WORD) % SIZE]
  BY DEF WindowOf
<1> QED
  BY <1>2, <1>3

\* Taking the oldest character.
LEMMA TakeWindow ==
  ASSUME NEW b \in Buffers, NEW p \in Index, NEW q \in Index, p # q
  PROVE  /\ Next_(p) \in Index /\ Held(Next_(p), q) = Held(p, q) - 1
         /\ WindowOf(b, p, q) # <<>>
         /\ WindowOf(b, p, q)[1] = b[p % SIZE]
         /\ WindowOf(b, Next_(p), q) = Tail(WindowOf(b, p, q))
<1> DEFINE h == Held(p, q)
           v == Next_(p)
           s == WindowOf(b, p, q)
           t == WindowOf(b, v, q)
<1>1. h \in Index /\ h >= 1
  BY SMTT(30), HeldValue, HeldZero, Sizes DEF Index
<1>2. v \in Index /\ Held(v, q) = h - 1
  BY <1>1, WrapNext, WrapTowards, Sizes DEF Next_, Held, Index
<1>3. s \in Seq(Keys) /\ Len(s) = h
  BY WindowSeq
<1>4. t \in Seq(Keys) /\ Len(t) = h - 1
  BY <1>2, WindowSeq
<1>5. Held(p, v) = 1 /\ Held(p, p) = 0
  <2>1. Held(p, p) = 0
    BY HeldZero
  <2>2. (p - p) % WORD = 0 /\ WORD - 1 > 0
    BY SMTT(30), <2>1, Sizes DEF Held
  <2>3. (((p + 1) % WORD) - p) % WORD = ((p - p) % WORD) + 1
    BY <2>2, WrapAway, Sizes DEF Index
  <2> QED
    BY SMTT(30), <2>1, <2>2, <2>3 DEF Held, Next_
<1>6. ASSUME NEW j \in 1..(h - 1) PROVE t[j] = s[j + 1]
  <2>1. t[j] = b[(p + Held(p, v) + j - 1) % SIZE]
    BY SMTT(30), <1>2, WindowAt
  <2>2. j + 1 \in 1..h
    BY SMTT(30), <1>1 DEF Index
  <2>3. s[j + 1] = b[(p + Held(p, p) + (j + 1) - 1) % SIZE]
    BY <2>2, WindowAt
  <2>4. p + Held(p, v) + j - 1 = p + Held(p, p) + (j + 1) - 1
    BY SMTT(30), <1>5 DEF Index
  <2> QED
    BY <2>1, <2>3, <2>4
<1>7. s # <<>>
  BY SMTT(30), <1>1, <1>3
<1>8. s[1] = b[p % SIZE]
  <2>1. 1 \in 1..h
    BY SMTT(30), <1>1 DEF Index
  <2>2. s[1] = b[(p + Held(p, p) + 1 - 1) % SIZE]
    BY <2>1, WindowAt
  <2>3. p + Held(p, p) + 1 - 1 = p
    BY SMTT(30), <1>5 DEF Index
  <2> QED
    BY <2>2, <2>3
<1> HIDE DEF s, t, h, v
<1>9. t = Tail(s)
  BY <1>1, <1>3, <1>4, <1>6, <1>7, TailValue DEF Index
<1> QED
  BY <1>2, <1>7, <1>8, <1>9 DEF s, t, h, v

\* Storing a character leaves the others in place.
LEMMA KeepWindow ==
  ASSUME NEW b \in Buffers, NEW a \in Index, NEW p \in Index, NEW q \in Index, NEW z \in Index,
         Held(a, p) + Held(p, q) <= Held(a, z), Held(a, z) < SIZE, NEW ch \in Keys
  PROVE  /\ [b EXCEPT ![z % SIZE] = ch] \in Buffers
         /\ WindowOf([b EXCEPT ![z % SIZE] = ch], p, q) = WindowOf(b, p, q)
<1> DEFINE d == [b EXCEPT ![z % SIZE] = ch]
           h == Held(p, q)
           s == WindowOf(b, p, q)
           t == WindowOf(d, p, q)
<1>1. z % SIZE \in 0..(SIZE - 1)
  BY SlotIn DEF Index
<1>2. d \in Buffers
  BY <1>1 DEF Buffers
<1>3. h \in Nat /\ Held(a, p) \in Nat /\ Held(a, z) \in Nat
  BY SMTT(30), HeldValue DEF Index
<1>4. z % SIZE = (a + Held(a, z)) % SIZE
  <2>1. 1 \in 1..WORD
    BY SMTT(30), Sizes
  <2>2. ((z + 1 - 1) % WORD) % SIZE = (a + Held(a, z) + 1 - 1) % SIZE
    BY <2>1, SlotFrom
  <2>3. z + 1 - 1 = z /\ z % WORD = z /\ a + Held(a, z) + 1 - 1 = a + Held(a, z)
    BY SMTT(30), <1>3, ModBelow, Sizes DEF Index
  <2> QED
    BY <2>2, <2>3
<1>5. ASSUME NEW j \in 1..h PROVE t[j] = s[j]
  <2> DEFINE o == a + Held(a, p) + j - 1
  <2>0. s[j] = b[o % SIZE]
    BY SMTT(30), WindowAt
  <2>1. t[j] = d[o % SIZE]
    <3> HIDE DEF d
    <3> QED
      BY SMTT(30), <1>2, WindowAt
  <2>2. o \in Int /\ a + Held(a, z) \in Int /\ o < a + Held(a, z) /\ a + Held(a, z) < o + SIZE
    BY SMTT(30), <1>3, Sizes DEF Index
  <2> HIDE DEF o
  <2>3. o % SIZE # (a + Held(a, z)) % SIZE /\ o % SIZE \in 0..(SIZE - 1)
    <3>1. SIZE \in Nat \ {0}
      BY Sizes
    <3> QED
      BY <2>2, <3>1, ModDistinct, ModRange
  <2>4. d[o % SIZE] = b[o % SIZE]
    BY <1>4, <2>3 DEF Buffers
  <2> QED
    BY <2>0, <2>1, <2>4
<1>6. s \in Seq(Keys) /\ Len(s) = h /\ t \in Seq(Keys) /\ Len(t) = h
  BY <1>2, WindowSeq
<1> HIDE DEF s, t, h
<1>7. t = s
  BY <1>3, <1>5, <1>6, SameSequence
<1> QED
  BY <1>2, <1>7 DEF s, t, d

\* A stored character is the newest of the window that ends with it.
LEMMA StoreWindow ==
  ASSUME NEW b \in Buffers, NEW p \in Index, NEW q \in Index, Held(p, q) < SIZE,
         NEW ch \in Keys
  PROVE  /\ Next_(q) \in Index /\ Held(p, Next_(q)) = Held(p, q) + 1
         /\ WindowOf([b EXCEPT ![q % SIZE] = ch], p, Next_(q)) = Append(WindowOf(b, p, q), ch)
<1> DEFINE d == [b EXCEPT ![q % SIZE] = ch]
           h == Held(p, q)
           v == Next_(q)
           s == WindowOf(b, p, q)
           t == WindowOf(d, p, v)
<1>1. h \in Nat /\ h < WORD - 1
  BY SMTT(30), HeldValue, Sizes DEF Index
<1>2. v \in Index /\ Held(p, v) = h + 1
  BY <1>1, WrapNext, WrapAway, Sizes DEF Next_, Held, Index
<1>3. Held(p, p) = 0
  BY HeldZero
<1>4. d \in Buffers /\ WindowOf(d, p, q) = s
  BY SMTT(30), <1>1, <1>3, KeepWindow
<1>5. s \in Seq(Keys) /\ Len(s) = h /\ t \in Seq(Keys) /\ Len(t) = h + 1
  BY <1>2, <1>4, WindowSeq
<1>6. ASSUME NEW j \in 1..h PROVE t[j] = s[j]
  <2>1. j \in 1..Held(p, v) /\ j \in 1..Held(p, q)
    BY SMTT(30), <1>1, <1>2
  <2>2. t[j] = d[(p + Held(p, p) + j - 1) % SIZE]
    BY SMTT(30), <1>2, <1>4, <2>1, WindowAt
  <2>3. WindowOf(d, p, q)[j] = d[(p + Held(p, p) + j - 1) % SIZE]
    BY SMTT(30), <1>4, <2>1, WindowAt
  <2> QED
    BY <1>4, <2>2, <2>3
<1>7. t[h + 1] = ch
  <2>1. h + 1 \in 1..Held(p, v) /\ h + 1 \in 1..WORD
    <3> HIDE DEF h
    <3> QED
      BY SMTT(30), <1>1, <1>2, Sizes
  <2>2. t[h + 1] = d[((p + (h + 1) - 1) % WORD) % SIZE]
    BY <2>1 DEF WindowOf
  <2>3. p + (h + 1) - 1 \in 0..(2 * WORD - 1) /\ (q >= p => p + (h + 1) - 1 = q)
        /\ (q < p => p + (h + 1) - 1 = q + WORD)
    <3>1. (p <= q => p + h = q) /\ (p > q => p + h = q + WORD)
      BY HeldValue
    <3> HIDE DEF h
    <3> QED
      BY SMTT(30), <1>1, <3>1, Sizes DEF Index
  <2>4. (p + (h + 1) - 1) % WORD = q
    <3>1. CASE q >= p
      BY <2>3, <3>1, ModBelow, Sizes DEF Index
    <3>2. CASE q < p
      BY <2>3, <3>2, ModPlus, Sizes DEF Index
    <3> QED
      BY SMTT(30), <3>1, <3>2 DEF Index
  <2>5. d[q % SIZE] = ch
    BY SlotIn DEF Buffers, Index
  <2> QED
    BY <2>2, <2>4, <2>5
<1> HIDE DEF s, t, h, v
<1>8. t = Append(s, ch)
  BY <1>1, <1>5, <1>6, <1>7, AppendValue
<1> QED
  BY <1>2, <1>8 DEF s, t, h, v, d

\* A window splits at any index within it.
LEMMA ConcatWindow ==
  ASSUME NEW b \in Buffers, NEW p \in Index, NEW q \in Index, NEW z \in Index,
         Held(p, q) <= Held(p, z)
  PROVE  /\ Held(q, z) = Held(p, z) - Held(p, q)
         /\ WindowOf(b, p, z) = WindowOf(b, p, q) \o WindowOf(b, q, z)
<1> DEFINE h == Held(p, q)
           k == Held(q, z)
           s == WindowOf(b, p, q)
           t == WindowOf(b, q, z)
           u == WindowOf(b, p, z)
<1>1. h \in Nat /\ k \in Nat /\ Held(p, z) = h + k /\ k = Held(p, z) - h
  <2>1. k = Held(p, z) - h
    BY WrapBetween, Sizes DEF Held, Index
  <2>2. h \in Nat /\ k \in Nat /\ Held(p, z) \in Nat
    BY SMTT(30), HeldValue DEF Index
  <2> HIDE DEF h, k
  <2> QED
    BY SMTT(30), <2>1, <2>2
<1>2. /\ s \in Seq(Keys) /\ Len(s) = h /\ t \in Seq(Keys) /\ Len(t) = k
      /\ u \in Seq(Keys) /\ Len(u) = h + k
  BY <1>1, WindowSeq
<1>3. Held(p, p) = 0
  BY HeldZero
<1>4. ASSUME NEW j \in 1..h PROVE u[j] = s[j]
  <2>1. j \in 1..Held(p, z) /\ j \in 1..Held(p, q)
    BY SMTT(30), <1>1
  <2>2. u[j] = b[(p + Held(p, p) + j - 1) % SIZE]
    BY SMTT(30), <2>1, WindowAt
  <2>3. s[j] = b[(p + Held(p, p) + j - 1) % SIZE]
    BY SMTT(30), <2>1, WindowAt
  <2> QED
    BY <2>2, <2>3
<1>5. ASSUME NEW j \in 1..k PROVE u[h + j] = t[j]
  <2>1. h + j \in 1..Held(p, z) /\ j \in 1..Held(q, z)
    <3> HIDE DEF h
    <3> QED
      BY SMTT(30), <1>1
  <2>2. u[h + j] = b[(p + Held(p, p) + (h + j) - 1) % SIZE]
    BY SMTT(30), <2>1, WindowAt
  <2>3. t[j] = b[(p + Held(p, q) + j - 1) % SIZE]
    BY SMTT(30), <2>1, WindowAt
  <2>4. p + Held(p, p) + (h + j) - 1 = p + Held(p, q) + j - 1
    <3>1. p \in Int /\ j \in Int /\ h \in Int
      BY SMTT(30), <1>1 DEF Index
    <3>2. p + Held(p, p) + (h + j) - 1 = p + h + j - 1
      <4> HIDE DEF h
      <4> QED
        BY SMTT(30), <1>3, <3>1
    <3> QED
      BY <3>2
  <2> QED
    BY <2>2, <2>3, <2>4
<1> HIDE DEF s, t, u, h, k
<1>6. u = s \o t
  <2>1. \A j \in 1..Len(s) : u[j] = s[j]
    BY <1>2, <1>4
  <2>2. \A j \in 1..Len(t) : u[Len(s) + j] = t[j]
    BY <1>2, <1>5
  <2>3. Len(u) = Len(s) + Len(t)
    BY <1>2
  <2> QED
    BY <1>2, <2>1, <2>2, <2>3, ConcatValue
<1> QED
  BY <1>1, <1>6 DEF s, t, u, h, k

\* Moving the end of a window back.
LEMMA BackWindow ==
  ASSUME NEW b \in Buffers, NEW p \in Index, NEW q \in Index, NEW k \in 0..Held(p, q)
  PROVE  /\ (q - k) % WORD \in Index /\ Held(p, (q - k) % WORD) = Held(p, q) - k
         /\ WindowOf(b, p, (q - k) % WORD) = SubSeq(WindowOf(b, p, q), 1, Held(p, q) - k)
<1> DEFINE h == Held(p, q)
           v == (q - k) % WORD
           s == WindowOf(b, p, q)
           t == WindowOf(b, p, v)
<1>1. h \in Nat
  BY SMTT(30), HeldValue DEF Index
<1>2. v \in Index /\ Held(p, v) = h - k
  BY WrapBack, Sizes DEF Held, Index
<1>3. s \in Seq(Keys) /\ Len(s) = h /\ t \in Seq(Keys) /\ Len(t) = h - k
  BY <1>2, WindowSeq
<1>4. ASSUME NEW j \in 1..(h - k) PROVE t[j] = s[j]
  <2>1. j \in 1..Held(p, v) /\ j \in 1..Held(p, q)
    <3> HIDE DEF h, v
    <3>1. k \in Nat /\ h = Held(p, q)
      BY SMTT(30) DEF h
    <3> QED
      BY SMTT(30), <1>1, <1>2, <3>1
  <2>2. t[j] = b[(p + Held(p, p) + j - 1) % SIZE]
    BY SMTT(30), <1>2, <2>1, WindowAt
  <2>3. s[j] = b[(p + Held(p, p) + j - 1) % SIZE]
    BY <2>1, WindowAt
  <2> QED
    BY <2>2, <2>3
<1>5. k \in 0..h
  OBVIOUS
<1> HIDE DEF s, t, h, v
<1>6. t = SubSeq(s, 1, h - k)
  <2> DEFINE m == h - k
  <2>1. m \in 0..h
    BY SMTT(30), <1>1, <1>5
  <2>2. SubSeq(s, 1, m) \in Seq(Keys) /\ Len(SubSeq(s, 1, m)) = m
        /\ \A j \in 1..m : SubSeq(s, 1, m)[j] = s[j]
    BY SMTT(30), <1>1, <1>3, <2>1
  <2> HIDE DEF m
  <2>3. t = SubSeq(s, 1, m)
    BY <1>3, <1>4, <2>1, <2>2, SameSequence DEF m
  <2> QED
    BY <2>3 DEF m
<1> QED
  BY <1>2, <1>6 DEF s, t, h, v

-----------------------------------------------------------------------------
(* The ring buffer in use                                                  *)

\* The indices are in order, and the line that is being edited has no newline.
Ring(b, p, q, z) ==
  /\ Held(p, q) <= Held(p, z) /\ Held(p, z) <= SIZE
  /\ \A j \in 1..Held(q, z) : WindowOf(b, q, z)[j] # "nl"

RingInv == Ring(buf, r, w, e)

\* A distance is a natural number.
LEMMA HeldNat == ASSUME NEW p \in Index, NEW q \in Index PROVE Held(p, q) \in Nat
BY SMTT(30), HeldValue DEF Index

\* The characters held are those of whole lines and those of the line being
\* edited.
LEMMA RingSplit ==
  ASSUME NEW b \in Buffers, NEW p \in Index, NEW q \in Index, NEW z \in Index, Ring(b, p, q, z)
  PROVE  Held(p, z) = Held(p, q) + Held(q, z)
<1>1. Held(q, z) = Held(p, z) - Held(p, q)
  BY ConcatWindow DEF Ring
<1> QED
  BY SMTT(30), <1>1, HeldNat

\* A reader takes a character.
LEMMA RingTake ==
  ASSUME NEW b \in Buffers, NEW p \in Index, NEW q \in Index, NEW z \in Index,
         Ring(b, p, q, z), p # q
  PROVE  Next_(p) \in Index /\ Ring(b, Next_(p), q, z)
<1>1. Next_(p) \in Index /\ Held(Next_(p), q) = Held(p, q) - 1
  BY TakeWindow
<1>2. Held(p, q) # 0 /\ Held(p, q) \in Nat /\ Held(p, z) \in Nat
  BY HeldZero, HeldNat
<1>3. Held(p, z) # 0
  BY SMTT(30), <1>2 DEF Ring
<1>4. p # z
  BY <1>3, HeldZero
<1>5. Held(Next_(p), z) = Held(p, z) - 1
  BY <1>4, TakeWindow
<1> QED
  BY SMTT(30), <1>1, <1>2, <1>5, Sizes DEF Ring

\* Characters are erased.
LEMMA RingErase ==
  ASSUME NEW b \in Buffers, NEW p \in Index, NEW q \in Index, NEW z \in Index,
         Ring(b, p, q, z), NEW k \in 0..Held(q, z)
  PROVE  LET v == (z - k) % WORD IN
         /\ v \in Index /\ Ring(b, p, q, v)
         /\ WindowOf(b, q, v) = SubSeq(WindowOf(b, q, z), 1, Held(q, z) - k)
<1> DEFINE v == (z - k) % WORD
           h == Held(q, z)
           s == WindowOf(b, q, z)
<1>1. /\ v \in Index /\ Held(q, v) = h - k
      /\ WindowOf(b, q, v) = SubSeq(s, 1, h - k)
  BY BackWindow
<1>2. Held(p, z) = Held(p, q) + h /\ h \in Nat /\ Held(p, q) \in Nat /\ Held(p, z) \in Nat
  BY RingSplit, HeldNat
<1>3. k \in 0..h /\ k \in 0..Held(p, z)
  <2> HIDE DEF h
  <2>1. k \in 0..h
    BY DEF h
  <2> QED
    BY SMTT(30), <1>2, <2>1
<1>4. Held(p, v) = Held(p, z) - k
  BY <1>3, BackWindow
<1>5. s \in Seq(Keys) /\ Len(s) = h
  BY WindowSeq
<1>6. \A j \in 1..h : s[j] # "nl"
  BY DEF Ring
<1> HIDE DEF h, s, v
<1>7. \A j \in 1..(h - k) : SubSeq(s, 1, h - k)[j] # "nl"
  BY SMTT(30), <1>2, <1>3, <1>5, <1>6
<1>8. Held(p, q) <= Held(p, v) /\ Held(p, v) <= SIZE
  BY SMTT(30), <1>2, <1>3, <1>4, Sizes DEF Ring
<1>9. Ring(b, p, q, v)
  BY <1>1, <1>7, <1>8 DEF Ring
<1> QED
  BY <1>1, <1>9 DEF h, s, v

\* The buffer is d after ch is stored in b, and z has become v.
StoreResult(b, p, q, z, ch, d, v) ==
  /\ d \in Buffers /\ v \in Index /\ Held(p, v) = Held(p, z) + 1
  /\ Ring(d, p, v, v)
  /\ ch # "nl" => Ring(d, p, q, v)
  /\ WindowOf(d, p, q) = WindowOf(b, p, q)
  /\ WindowOf(d, q, v) = Append(WindowOf(b, q, z), ch)
  /\ WindowOf(d, p, v) = WindowOf(b, p, q) \o Append(WindowOf(b, q, z), ch)
  /\ WindowOf(d, v, v) = <<>>

\* A character stored at e is at the end of the line being edited.
LEMMA RingStore ==
  ASSUME NEW b \in Buffers, NEW p \in Index, NEW q \in Index, NEW z \in Index,
         Ring(b, p, q, z), Held(p, z) < SIZE, NEW ch \in Keys
  PROVE  StoreResult(b, p, q, z, ch, [b EXCEPT ![z % SIZE] = ch], Next_(z))
<1> DEFINE d == [b EXCEPT ![z % SIZE] = ch]
           v == Next_(z)
           s == WindowOf(b, q, z)
           t == WindowOf(b, p, q)
<1>1. /\ Held(p, z) = Held(p, q) + Held(q, z) /\ Held(p, q) \in Nat /\ Held(q, z) \in Nat
      /\ Held(p, z) \in Nat
  BY RingSplit, HeldNat
<1>2. Held(p, p) = 0 /\ Held(v, v) = 0 /\ v \in Index
  <2>1. v \in Index
    BY StoreWindow
  <2> QED
    BY <2>1, HeldZero
<1>3. d \in Buffers /\ WindowOf(d, p, q) = t
  <2>1. Held(p, p) + Held(p, q) <= Held(p, z)
    BY SMTT(30), <1>1, <1>2
  <2> QED
    BY SMTT(30), <2>1, KeepWindow
<1>4. Held(p, v) = Held(p, z) + 1
  BY StoreWindow
<1>5. Held(q, v) = Held(q, z) + 1 /\ WindowOf(d, q, v) = Append(s, ch)
  <2>1. Held(q, z) < SIZE
    BY SMTT(30), <1>1, Sizes
  <2> QED
    BY <2>1, StoreWindow
<1>6. Held(p, q) <= Held(p, v) /\ Held(p, v) <= SIZE
  BY SMTT(30), <1>1, <1>4, Sizes
<1>7. WindowOf(d, p, v) = WindowOf(d, p, q) \o WindowOf(d, q, v)
  <2> HIDE DEF d, v
  <2> QED
    BY <1>2, <1>3, <1>6, ConcatWindow
<1>8. s \in Seq(Keys) /\ Len(s) = Held(q, z) /\ \A j \in 1..Held(q, z) : s[j] # "nl"
  BY WindowSeq DEF Ring
<1>9. Ring(d, p, v, v)
  <2> HIDE DEF d, v
  <2>1. Held(p, v) <= Held(p, v) /\ 1..Held(v, v) = {}
    BY SMTT(30), <1>1, <1>2, <1>4
  <2> QED
    BY <1>6, <2>1 DEF Ring
<1>10. ch # "nl" => Ring(d, p, q, v)
  <2> HIDE DEF d, v, s
  <2>1. ASSUME ch # "nl", NEW j \in 1..Held(q, v) PROVE Append(s, ch)[j] # "nl"
    <3>1. j \in 1..Len(s) \/ j = Len(s) + 1
      BY SMTT(30), <1>1, <1>5, <1>8
    <3> QED
      BY SMTT(30), <1>8, <2>1, <3>1
  <2> QED
    BY <1>5, <1>6, <2>1 DEF Ring
<1>11. WindowOf(d, v, v) = <<>>
  <2> HIDE DEF d, v
  <2>1. WindowOf(d, v, v) \in Seq(Keys) /\ Len(WindowOf(d, v, v)) = 0
    BY <1>2, <1>3, WindowSeq
  <2> QED
    BY SMTT(30), <2>1
<1> QED
  BY <1>2, <1>3, <1>4, <1>5, <1>7, <1>9, <1>10, <1>11 DEF StoreResult

\* ^U erases the whole line, as no newline is in it.
LEMMA KillAll == ASSUME DataTypes, RingInv PROVE KillCount = Held(w, e)
<1> DEFINE h == Held(w, e)
           s == WindowOf(buf, w, e)
           stop(k) == k = h \/ buf[((e - 1 - k) % WORD) % SIZE] = "nl"
<1>1. w \in Index /\ e \in Index /\ h \in Nat /\ WORD \in Nat \ {0}
  BY HeldNat, Sizes DEF DataTypes, Index
<1>2. KillCount = CHOOSE j \in 0..h : stop(j) /\ \A k \in 0..(j - 1) : ~stop(k)
  BY DEF KillCount
<1>3. (w <= e => w + h = e) /\ (w > e => w + h = e + WORD)
  BY <1>1, HeldValue
<1>4. \A j \in 1..h : s[j] = buf[((w + j - 1) % WORD) % SIZE] /\ s[j] # "nl"
  BY DEF WindowOf, RingInv, Ring
<1> HIDE DEF h, s
<1>5. ASSUME NEW k \in 0..h, k # h PROVE ~stop(k)
  <2> DEFINE j == h - k
             n == e - 1 - k
  <2>1. j \in 1..h /\ n \in Int
    BY SMTT(30), <1>1, <1>5 DEF Index
  <2>2. (w + j - 1) % WORD = n % WORD
    <3>1. CASE w <= e
      <4>1. w + j - 1 = n
        BY SMTT(30), <1>1, <1>3, <3>1 DEF Index
      <4> QED
        BY <4>1
    <3>2. CASE w > e
      <4>1. w + j - 1 = n - (-1) * WORD
        BY SMTT(30), <1>1, <1>3, <3>2 DEF Index
      <4> DEFINE m == -1
      <4>2. m \in Int
        BY SMTT(30)
      <4> HIDE DEF n, m
      <4>3. (n - m * WORD) % WORD = n % WORD
        BY <1>1, <2>1, <4>2, ModShift
      <4> QED
        BY <4>1, <4>3 DEF m
    <3> QED
      BY SMTT(30), <1>1, <3>1, <3>2 DEF Index
  <2>3. buf[(n % WORD) % SIZE] # "nl"
    <3> HIDE DEF j, n
    <3> QED
      BY <1>4, <2>1, <2>2
  <2> QED
    BY <1>5, <2>3
<1>6. h \in 0..h /\ stop(h)
  BY SMTT(30), <1>1
<1> HIDE DEF stop
<1>7. \A k \in 0..(h - 1) : ~stop(k)
  BY SMTT(30), <1>1, <1>5
<1>8. \A j \in 0..h : stop(j) => j = h
  BY <1>5
<1>9. KillCount \in 0..h /\ stop(KillCount)
  BY <1>2, <1>6, <1>7
<1> QED
  BY <1>8, <1>9 DEF h

\* The number of characters to erase is a natural number.
LEMMA ErasedNat == ASSUME DataTypes, RingInv, NEW c PROVE Erased(c) \in Nat
<1>1. KillCount = Held(w, e) /\ Held(w, e) \in Nat
  BY KillAll, HeldNat DEF DataTypes, Index
<1> QED
  BY <1>1 DEF Erased

\* What is erased is of the line being edited: all of it, one character or
\* none.
LEMMA ErasedIn ==
  ASSUME DataTypes, RingInv, NEW c
  PROVE  /\ Erased(c) \in 0..Held(w, e)
         /\ Erased(c) = 0 \/ Erased(c) = Held(w, e) \/ (Erased(c) = 1 /\ Held(w, e) # 0)
<1>1. Held(w, e) \in Nat /\ (Held(w, e) = 0 <=> w = e) /\ KillCount = Held(w, e)
  BY HeldNat, HeldZero, KillAll DEF DataTypes, Index
<1>2. CASE c = "kill"
  BY SMTT(30), <1>1, <1>2 DEF Erased
<1>3. CASE c # "kill" /\ c = "bs" /\ e # w
  BY SMTT(30), <1>1, <1>3 DEF Erased
<1>4. CASE c # "kill" /\ ~(c = "bs" /\ e # w)
  BY SMTT(30), <1>1, <1>4 DEF Erased
<1> QED
  BY <1>2, <1>3, <1>4

\* A key as consoleintr() stores it.
KeyOf(c) == IF c = "cr" THEN "nl" ELSE c

\* What a handler's step makes of the input q that is ready and the line s.
Edits(q, s, q1, s1) ==
  \/ q1 = q /\ s1 = s
  \/ q1 = q /\ s1 = <<>>
  \/ s # <<>> /\ q1 = q /\ s1 = SubSeq(s, 1, Len(s) - 1)
  \/ /\ Len(q) + Len(s) < SIZE
     /\ \E c \in Chars :
          LET new == Append(s, KeyOf(c)) IN
          IF KeyOf(c) \in {"nl", "eof"} \/ Len(q) + Len(s) + 1 = SIZE
          THEN q1 = q \o new /\ s1 = <<>>
          ELSE q1 = q /\ s1 = new

\* consoleintr() keeps the ring buffer, and does what Edits says.
LEMMA EditRing ==
  ASSUME NestInv, DataTypes, FrameData, RingInv, NEW x \in Contexts, consoleintr(x)
  PROVE  /\ buf' \in Buffers /\ r' \in Index /\ w' \in Index /\ e' \in Index /\ RingInv'
         /\ Edits(WindowOf(buf, r, w), WindowOf(buf, w, e),
                  WindowOf(buf', r', w'), WindowOf(buf', w', e'))
<1> DEFINE a == frame[x].c
           ch == KeyOf(a)
           q == WindowOf(buf, r, w)
           s == WindowOf(buf, w, e)
           h == Held(w, e)
<1>1. /\ buf \in Buffers /\ r \in Index /\ w \in Index /\ e \in Index
      /\ Ring(buf, r, w, e) /\ r' = r
  BY DEF DataTypes, Buffers, Index, RingInv, consoleintr
<1>2. /\ a \in Chars
      /\ \/ ~Stored(ch) /\ e' = (e - Erased(ch)) % WORD /\ buf' = buf /\ w' = w
         \/ /\ Stored(ch) /\ buf' = [buf EXCEPT ![e % SIZE] = ch] /\ e' = Next_(e)
            /\ w' = IF Commits(ch, Next_(e)) THEN Next_(e) ELSE w
  BY EditMove DEF KeyOf
<1>3. ch \in Keys
  BY <1>2 DEF KeyOf, Keys
<1>4. /\ q \in Seq(Keys) /\ Len(q) = Held(r, w) /\ s \in Seq(Keys) /\ Len(s) = h
      /\ Held(r, e) = Held(r, w) + h /\ Held(r, w) \in Nat /\ h \in Nat
  BY SMTT(30), <1>1, WindowSeq, RingSplit, HeldNat
<1>5. CASE ~Stored(ch) /\ e' = (e - Erased(ch)) % WORD /\ buf' = buf /\ w' = w
  <2> DEFINE k == Erased(ch)
  <2>1. k \in 0..h /\ (k = 0 \/ k = h \/ (k = 1 /\ h # 0))
    BY ErasedIn
  <2> HIDE DEF k
  <2>2. /\ e' \in Index /\ Ring(buf, r, w, e')
        /\ WindowOf(buf, w, e') = SubSeq(s, 1, h - k)
    BY SMTT(30), <1>1, <1>5, <2>1, RingErase DEF k
  <2>3. RingInv'
    BY <1>1, <1>5, <2>2 DEF RingInv
  <2> HIDE DEF s, h
  <2>4. Edits(q, s, q, SubSeq(s, 1, h - k))
    <3>1. CASE k = 0
      <4>1. SubSeq(s, 1, h - k) = s
        BY SMTT(30), <1>4, <3>1
      <4> QED
        BY <4>1 DEF Edits
    <3>2. CASE k = h
      <4>1. SubSeq(s, 1, h - k) = <<>>
        BY SMTT(30), <1>4, <3>2
      <4> QED
        BY <4>1 DEF Edits
    <3>3. CASE k = 1 /\ h # 0
      <4>1. s # <<>> /\ SubSeq(s, 1, h - k) = SubSeq(s, 1, Len(s) - 1)
        BY SMTT(30), <1>4, <3>3
      <4> QED
        BY <4>1 DEF Edits
    <3> QED
      BY <2>1, <3>1, <3>2, <3>3
  <2> QED
    BY <1>1, <1>5, <2>2, <2>3, <2>4 DEF s, h
<1>6. CASE /\ Stored(ch) /\ buf' = [buf EXCEPT ![e % SIZE] = ch] /\ e' = Next_(e)
           /\ w' = IF Commits(ch, Next_(e)) THEN Next_(e) ELSE w
  <2> DEFINE d == [buf EXCEPT ![e % SIZE] = ch]
             v == Next_(e)
  <2>1. Held(r, e) < SIZE
    BY <1>6 DEF Stored
  <2>2. /\ d \in Buffers /\ v \in Index /\ Held(r, v) = Held(r, e) + 1
        /\ Ring(d, r, v, v)
        /\ ch # "nl" => Ring(d, r, w, v)
        /\ WindowOf(d, r, w) = q
        /\ WindowOf(d, w, v) = Append(s, ch)
        /\ WindowOf(d, r, v) = q \o Append(s, ch)
        /\ WindowOf(d, v, v) = <<>>
    <3>1. StoreResult(buf, r, w, e, ch, d, v)
      <4> HIDE DEF ch
      <4> QED
        BY <1>1, <1>3, <2>1, RingStore
    <3> HIDE DEF d, v, ch
    <3> QED
      BY <3>1 DEF StoreResult
  <2>3. Commits(ch, v) <=> ch \in {"nl", "eof"} \/ Len(q) + Len(s) + 1 = SIZE
    BY <1>4, <2>2, Sizes DEF Commits
  <2>4. Len(q) + Len(s) < SIZE
    BY <1>4, <2>1
  <2> HIDE DEF q, s
  <2>5. CASE Commits(ch, v)
    <3>1. buf' = d /\ e' = v /\ w' = v
      BY <1>6, <2>5
    <3>2. Edits(q, s, q \o Append(s, ch), <<>>)
      BY <1>2, <2>3, <2>4, <2>5 DEF Edits
    <3>3. RingInv'
      BY <1>1, <2>2, <3>1 DEF RingInv
    <3> QED
      BY <1>1, <2>2, <3>1, <3>2, <3>3 DEF q, s
  <2>6. CASE ~Commits(ch, v)
    <3>1. buf' = d /\ e' = v /\ w' = w
      BY <1>6, <2>6
    <3>2. Edits(q, s, q, Append(s, ch))
      BY <1>2, <2>3, <2>4, <2>6 DEF Edits
    <3>3. RingInv'
      BY <1>1, <2>2, <2>3, <2>6, <3>1 DEF RingInv
    <3> QED
      BY <1>1, <2>2, <3>1, <3>2, <3>3 DEF q, s
  <2> QED
    BY <2>5, <2>6
<1> QED
  BY <1>2, <1>5, <1>6

\* consoleread() takes from the front.
LEMMA CharRing ==
  ASSUME NestInv, DataTypes, FrameData, RingInv, NEW x \in Contexts, consoleread_char(x)
  PROVE  /\ UNCHANGED <<buf, w, e>> /\ r # w /\ r' \in Index /\ RingInv'
         /\ r' = r \/ r' = Next_(r)
<1>1. /\ buf \in Buffers /\ r \in Index /\ w \in Index /\ e \in Index
      /\ Ring(buf, r, w, e) /\ UNCHANGED <<buf, w, e>> /\ r # w
  BY DEF DataTypes, Buffers, Index, RingInv, consoleread_char
<1>2. r' = r \/ r' = Next_(r)
  BY CharMove
<1>3. Next_(r) \in Index /\ Ring(buf, Next_(r), w, e)
  BY <1>1, RingTake
<1> QED
  BY <1>1, <1>2, <1>3 DEF RingInv

\* The receiver's queue holds characters only.
LEMMA RxNext == ASSUME DataTypes, [Next]_vars PROVE rx' \in Seq(Chars)
<1>1. rx \in Seq(Chars)
  BY DEF DataTypes
<1>2. CASE \E c \in Chars : uart_type(c)
  BY SMTT(30), <1>1, <1>2 DEF uart_type
<1>3. CASE \E x \in Contexts : uartgetc(x)
  BY SMTT(30), <1>1, <1>3 DEF uartgetc
<1>4. CASE rx' = rx
  BY <1>1, <1>4
<1>5. ASSUME NEW x \in Contexts,
             \/ printf(x) \/ \E n \in Ns : consolewrite(x, n) \/ consoleread(x, n)
             \/ spin(x) \/ uartputc_lsr(x) \/ uartputc_thr(x)
             \/ printf_return(x)
             \/ uartwrite(x) \/ uartwrite_end(x) \/ uartwrite_woken(x) \/ consolewrite_next(x)
      PROVE  rx' = rx
  BY <1>5 DEF printf, consolewrite, consoleread, Call, spin, uartputc_lsr, uartputc_thr,
              printf_return, uartwrite, uartwrite_end, uartwrite_woken, consolewrite_next, uart
<1>6. ASSUME NEW x \in Contexts,
             \/ consoleread_wait(x) \/ consoleread_sleep(x) \/ consoleread_woken(x)
             \/ consoleread_char(x) \/ consoleread_return(x)
             \/ uartintr_tx(x)
             \/ consoleintr_echo(x) \/ procdump_end(x) \/ consoleintr(x) \/ devintr_end(x)
      PROVE  rx' = rx
  BY <1>6 DEF consoleread_wait, consoleread_sleep, consoleread_woken, consoleread_char,
              consoleread_return, uartintr_tx, consoleintr_echo, procdump_end, consoleintr,
              devintr_end, uart
<1>7. ASSUME NEW c \in CPUs, kkill(c) \/ devintr(c) PROVE rx' = rx
  BY <1>7 DEF kkill, devintr, uart
<1>8. CASE uart_send \/ Quiet \/ UNCHANGED vars
  BY <1>1, <1>8 DEF uart_send, Quiet, vars, uart
<1> QED
  BY <1>2, <1>3, <1>4, <1>5, <1>6, <1>7, <1>8 DEF Next

\* What is known of the characters.
RingNow == DataTypes /\ FrameData /\ RingInv

\* Every step of the console keeps the ring and the data of the frames.
LEMMA RingNext ==
  ASSUME NestInv, RingNow, [Next]_vars
  PROVE  RingNow'
<1> USE DEF RingNow
<1>1. rx' \in Seq(Chars)
  BY RxNext
<1>2. ASSUME UNCHANGED <<buf, r, w, e>> PROVE DataTypes' /\ RingInv'
  BY <1>1, <1>2 DEF DataTypes, RingInv, Ring
<1>3. CASE Eventless
  <2>1. FrameData'
    BY <1>3 DEF Eventless, PlainMove, FrameData, Contexts
  <2> QED
    BY <1>2, <1>3, <2>1 DEF Eventless
<1>4. ASSUME NEW x \in Contexts,
             \/ uartputc_lsr(x) \/ uartputc_thr(x) \/ uartwrite(x)
             \/ consoleread_wait(x) \/ consoleread_sleep(x)
             \/ consoleread_return(x) \/ uartintr_tx(x)
      PROVE  RingNow'
  <2>1. Kept(x) /\ DataOk(x[2], frame'[x])
    BY <1>4, PutMove, WriteMove, WaitMove, ReadReturnMove, TxMove
  <2>2. UNCHANGED <<buf, r, w, e>>
    BY <1>4 DEF uartputc_lsr, uartputc_thr, uartwrite, consoleread_wait, consoleread_sleep,
                consoleread_return, uartintr_tx, cons
  <2>3. FrameData'
    BY <2>1, DataStep
  <2> QED
    BY <1>2, <2>2, <2>3
<1>5. ASSUME NEW x \in Contexts, consoleread_char(x) PROVE RingNow'
  <2>1. FrameData'
    BY <1>5, CharMove, DataStep
  <2>2. UNCHANGED <<buf, w, e>> /\ r' \in Index /\ RingInv'
    BY <1>5, CharRing
  <2> QED
    BY <1>1, <2>1, <2>2 DEF DataTypes, Index
<1>6. ASSUME NEW x \in Contexts, consoleintr(x) PROVE RingNow'
  <2>1. FrameData'
    BY <1>6, EditMove, DataStep DEF Plain, PlainMove
  <2>2. buf' \in Buffers /\ r' \in Index /\ w' \in Index /\ e' \in Index /\ RingInv'
    BY <1>6, EditRing
  <2> QED
    BY <1>1, <2>1, <2>2 DEF DataTypes, Index, Buffers
<1>7. ASSUME NEW c \in CPUs, devintr(c) PROVE RingNow'
  <2>1. <<c, "intr">> \in Contexts
    BY DEF Contexts
  <2>2. FrameData'
    BY <1>7, <2>1, EnterPlain, DataStep DEF Plain, PlainMove
  <2> QED
    BY <1>2, <1>7, <2>2 DEF devintr, cons
<1>8. CASE uart_send
  <2>1. UNCHANGED <<frame, buf, r, w, e>>
    BY <1>8 DEF uart_send, cons
  <2>2. FrameData'
    BY <2>1 DEF FrameData, Contexts
  <2> QED
    BY <1>2, <2>1, <2>2
<1> QED
  BY <1>3, <1>4, <1>5, <1>6, <1>7, <1>8, StepKinds, ErasedNat

=============================================================================
