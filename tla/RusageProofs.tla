---------------------------- MODULE RusageProofs ----------------------------
(* The time accounting of Rusage, proved for any number of processes.      *)
EXTENDS Rusage, TLAPS

\* The part of RusageInv that concerns one process.
Accounted(p) ==
  /\ state[p] # "UNUSED" =>
       wait_ticks[p] + sleep_ticks[p] + OpenInterval(p) <= ticks - start_time[p]
  /\ start_time[p] <= ticks
  /\ wait_start[p] <= ticks
  /\ sleep_start[p] <= ticks
  /\ half[p] => state[p] \in {"USED", "RUNNABLE"}

\* What a process's fields are when its step is over; the fields of the
\* others stay.
Fields(q) == <<state[q], half[q], start_time[q], wait_start[q],
               sleep_start[q], wait_ticks[q], sleep_ticks[q]>>

\* The invariant of the whole table is that of each of its entries.
LEMMA ByProcess == RusageInv <=> TypeOK /\ \A p \in Procs : Accounted(p)
BY DEF RusageInv, Accounted, TimeNotDoubleCounted

\* It holds of the empty table.
LEMMA InitAccounted == Init => RusageInv
BY DEF Init, RusageInv, TypeOK, TimeNotDoubleCounted, OpenInterval, States

\* Every step keeps the types.
LEMMA StepType ==
  ASSUME RusageInv, NEW p \in Procs, Step(p) PROVE TypeOK'
<1> USE DEF RusageInv, TypeOK, Move, marks, States
<1>1. CASE allocproc(p)
  BY <1>1 DEF allocproc
<1>2. CASE set_wait_start(p)
  BY <1>2 DEF set_wait_start
<1>3. CASE freeproc(p)
  BY <1>3 DEF freeproc
<1>4. CASE kfork(p)
  BY <1>4 DEF kfork
<1>5. CASE scheduler(p)
  BY <1>5 DEF scheduler
<1>6. CASE yield(p)
  BY <1>6 DEF yield
<1>7. CASE sleep(p)
  BY <1>7 DEF sleep
<1>8. CASE wakeup(p)
  BY <1>8 DEF wakeup
<1>9. CASE kexit(p)
  BY <1>9 DEF kexit
<1> QED
  BY <1>1, <1>2, <1>3, <1>4, <1>5, <1>6, <1>7, <1>8, <1>9 DEF Step

\* A step of p leaves the other processes' accounts alone.
LEMMA OthersKept ==
  ASSUME RusageInv, NEW p \in Procs, Step(p), NEW q \in Procs, q # p
  PROVE  Accounted(q)'
<1>1. ticks' = ticks /\ Fields(q)' = Fields(q)
  BY DEF RusageInv, TypeOK, Fields, Step, Move, marks, allocproc, set_wait_start,
         freeproc, kfork, scheduler, yield, sleep, wakeup, kexit
<1>2. Accounted(q)
  BY ByProcess
<1> QED
  BY <1>1, <1>2 DEF Fields, Accounted, OpenInterval

\* A step of p closes the open interval of p into its counter, or opens one
\* of length zero.
LEMMA OwnKept ==
  ASSUME RusageInv, NEW p \in Procs, Step(p) PROVE Accounted(p)'
<1>0. Accounted(p)
  BY ByProcess
<1> USE <1>0 DEF RusageInv, TypeOK, Move, marks, Accounted, OpenInterval
<1>1. CASE allocproc(p)
  BY <1>1 DEF allocproc
<1>2. CASE set_wait_start(p)
  BY <1>2 DEF set_wait_start
<1>3. CASE freeproc(p)
  BY <1>3 DEF freeproc
<1>4. CASE kfork(p)
  BY <1>4 DEF kfork
<1>5. CASE scheduler(p)
  BY <1>5 DEF scheduler
<1>6. CASE yield(p)
  BY <1>6 DEF yield
<1>7. CASE sleep(p)
  BY <1>7 DEF sleep
<1>8. CASE wakeup(p)
  BY <1>8 DEF wakeup
<1>9. CASE kexit(p)
  BY <1>9 DEF kexit
<1> QED
  BY <1>1, <1>2, <1>3, <1>4, <1>5, <1>6, <1>7, <1>8, <1>9 DEF Step

\* A tick adds one to the age and to at most one open interval.
LEMMA ClockKept == ASSUME RusageInv, clockintr PROVE RusageInv'
<1>1. TypeOK'
  BY DEF RusageInv, TypeOK, clockintr, marks
<1>2. ASSUME NEW p \in Procs PROVE Accounted(p)'
  <2>1. Accounted(p)
    BY ByProcess
  <2> QED
    BY <2>1 DEF RusageInv, TypeOK, clockintr, marks, Accounted, OpenInterval
<1> QED
  BY <1>1, <1>2 DEF RusageInv, Accounted, TimeNotDoubleCounted

\* Every step of a process, and every tick, keeps it.
LEMMA NextAccounted == RusageInv /\ [Next]_vars => RusageInv'
<1> SUFFICES ASSUME RusageInv, [Next]_vars PROVE RusageInv'
  OBVIOUS
<1>1. CASE clockintr
  BY <1>1, ClockKept
<1>2. ASSUME NEW p \in Procs, Step(p) PROVE RusageInv'
  <2>1. TypeOK'
    BY <1>2, StepType
  <2>2. \A q \in Procs : Accounted(q)'
    BY <1>2, OthersKept, OwnKept
  <2> QED
    BY <2>1, <2>2 DEF RusageInv, Accounted, TimeNotDoubleCounted
<1>3. CASE UNCHANGED vars
  BY <1>3 DEF vars, marks, RusageInv, TypeOK, TimeNotDoubleCounted, OpenInterval
<1> QED
  BY <1>1, <1>2, <1>3 DEF Next

\* The type invariant; the differences of unsigned numbers that scheduler(),
\* wakeup() and kkill() compute do not go below zero.
THEOREM TypeCorrect == Spec => []TypeOK
<1>1. RusageInv => TypeOK
  BY DEF RusageInv
<1> QED
  BY <1>1, InitAccounted, NextAccounted, PTL DEF Spec

\* No tick is counted both as waiting and as sleeping, or twice.
THEOREM TimeAccounted == Spec => []TimeNotDoubleCounted
<1>1. RusageInv => TimeNotDoubleCounted
  BY DEF RusageInv
<1> QED
  BY <1>1, InitAccounted, NextAccounted, PTL DEF Spec
=============================================================================
