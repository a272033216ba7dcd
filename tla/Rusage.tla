------------------------------- MODULE Rusage -------------------------------
(***************************************************************************)
(* The time accounting getrusage() prints: the wait_ticks and sleep_ticks  *)
(* kept by kernel/proc.c at every change of p->state.  The code reads      *)
(* ticks without tickslock, so the clock of CPU 0 may advance between two  *)
(* reads of one critical section; those sections take two steps here.      *)
(***************************************************************************)
EXTENDS Integers, FiniteSets

CONSTANTS
  Procs,
  MaxTicks        \* bound: ticks, below the 2^32 at which it wraps

ASSUME RusageAssumption == MaxTicks \in Nat

VARIABLES
  ticks,
  state,
  half,           \* p is inside a section that reads ticks again
  start_time, wait_start, sleep_start, wait_ticks, sleep_ticks

marks == <<start_time, wait_start, sleep_start, wait_ticks, sleep_ticks>>
vars == <<ticks, state, half, marks>>

States == {"UNUSED", "USED", "SLEEPING", "RUNNABLE", "RUNNING", "ZOMBIE"}

TypeOK ==
  /\ ticks \in Nat
  /\ state \in [Procs -> States]
  /\ half \in [Procs -> BOOLEAN]
  /\ start_time \in [Procs -> Nat]
  /\ wait_start \in [Procs -> Nat]
  /\ sleep_start \in [Procs -> Nat]
  /\ wait_ticks \in [Procs -> Nat]
  /\ sleep_ticks \in [Procs -> Nat]

Init ==
  /\ ticks = 0
  /\ state = [p \in Procs |-> "UNUSED"]
  /\ half = [p \in Procs |-> FALSE]
  /\ start_time = [p \in Procs |-> 0]
  /\ wait_start = [p \in Procs |-> 0]
  /\ sleep_start = [p \in Procs |-> 0]
  /\ wait_ticks = [p \in Procs |-> 0]
  /\ sleep_ticks = [p \in Procs |-> 0]

-----------------------------------------------------------------------------

\* clockintr() on CPU 0; the wakeup(&ticks) it makes is wakeup() below.
clockintr ==
  /\ ticks < MaxTicks
  /\ ticks' = ticks + 1
  /\ UNCHANGED <<state, half, marks>>

\* The process p, found in state s with its lock free, goes to state t.
Move(p, s, t) ==
  /\ state[p] = s /\ ~half[p]
  /\ state' = [state EXCEPT ![p] = t]
  /\ UNCHANGED ticks

allocproc(p) ==
  /\ Move(p, "UNUSED", "USED")
  /\ half' = [half EXCEPT ![p] = TRUE]
  /\ start_time' = [start_time EXCEPT ![p] = ticks]
  /\ sleep_ticks' = [sleep_ticks EXCEPT ![p] = 0]
  /\ wait_ticks' = [wait_ticks EXCEPT ![p] = 0]
  /\ sleep_start' = [sleep_start EXCEPT ![p] = 0]
  /\ UNCHANGED wait_start

\* The second read of ticks in allocproc(), wakeup() and kkill().
set_wait_start(p) ==
  /\ half[p]
  /\ half' = [half EXCEPT ![p] = FALSE]
  /\ wait_start' = [wait_start EXCEPT ![p] = ticks]
  /\ UNCHANGED <<ticks, state, start_time, sleep_start, wait_ticks, sleep_ticks>>

\* allocproc() or kfork() fails later on, or kwait() frees the child.
freeproc(p) ==
  /\ Move(p, "USED", "UNUSED") \/ Move(p, "ZOMBIE", "UNUSED")
  /\ UNCHANGED <<half, marks>>

\* The end of kfork() and of userinit().
kfork(p) ==
  /\ Move(p, "USED", "RUNNABLE")
  /\ wait_start' = [wait_start EXCEPT ![p] = ticks]
  /\ UNCHANGED <<half, start_time, sleep_start, wait_ticks, sleep_ticks>>

scheduler(p) ==
  /\ Move(p, "RUNNABLE", "RUNNING")
  /\ wait_ticks' = [wait_ticks EXCEPT ![p] = @ + (ticks - wait_start[p])]
  /\ UNCHANGED <<half, start_time, wait_start, sleep_start, sleep_ticks>>

\* Mutant of yield: the wait starts when the last one did.
yield_unmarked(p) ==
  /\ Move(p, "RUNNING", "RUNNABLE")
  /\ UNCHANGED <<half, marks>>

yield(p) ==
  /\ Move(p, "RUNNING", "RUNNABLE")
  /\ wait_start' = [wait_start EXCEPT ![p] = ticks]
  /\ UNCHANGED <<half, start_time, sleep_start, wait_ticks, sleep_ticks>>

sleep(p) ==
  /\ Move(p, "RUNNING", "SLEEPING")
  /\ sleep_start' = [sleep_start EXCEPT ![p] = ticks]
  /\ UNCHANGED <<half, start_time, wait_start, wait_ticks, sleep_ticks>>

\* wakeup(), and kkill() of a sleeping process, up to the second read.
wakeup(p) ==
  /\ Move(p, "SLEEPING", "RUNNABLE")
  /\ half' = [half EXCEPT ![p] = TRUE]
  /\ sleep_ticks' = [sleep_ticks EXCEPT ![p] = @ + (ticks - sleep_start[p])]
  /\ UNCHANGED <<start_time, wait_start, sleep_start, wait_ticks>>

kexit(p) ==
  /\ Move(p, "RUNNING", "ZOMBIE")
  /\ UNCHANGED <<half, marks>>

Step(p) ==
  \/ allocproc(p) \/ set_wait_start(p) \/ freeproc(p) \/ kfork(p)
  \/ scheduler(p) \/ yield(p) \/ sleep(p) \/ wakeup(p) \/ kexit(p)

Next == clockintr \/ \E p \in Procs : Step(p)

Spec == Init /\ [][Next]_vars

-----------------------------------------------------------------------------
(* Properties                                                              *)

\* The interval that runs now and is not yet added to a counter.
OpenInterval(p) ==
  CASE half[p] -> 0
    [] ~half[p] /\ state[p] = "RUNNABLE" -> ticks - wait_start[p]
    [] ~half[p] /\ state[p] = "SLEEPING" -> ticks - sleep_start[p]
    [] OTHER -> 0

\* No tick is counted twice: what getrusage() prints as waiting and sleeping
\* never adds up to more than the age of the process, whatever order yields,
\* sleeps, wakeups, kills and the reuse of the slot come in.
TimeNotDoubleCounted ==
  \A p \in Procs : state[p] # "UNUSED" =>
    wait_ticks[p] + sleep_ticks[p] + OpenInterval(p) <= ticks - start_time[p]

\* The inductive invariant behind it: no mark lies in the future.
RusageInv ==
  /\ TypeOK
  /\ TimeNotDoubleCounted
  /\ \A p \in Procs :
       /\ start_time[p] <= ticks
       /\ wait_start[p] <= ticks
       /\ sleep_start[p] <= ticks
       /\ half[p] => state[p] \in {"USED", "RUNNABLE"}
=============================================================================
