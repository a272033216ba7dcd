------------------------------ MODULE Spinlock ------------------------------
(***************************************************************************)
(* kernel/spinlock.c: locks that spin with interrupts off, and the nesting *)
(* count by which push_off() and pop_off() turn interrupts off and on.     *)
(* acquire() is one step if the lock is free: push_off() concerns only its *)
(* own CPU, which nothing interrupts before the swap.  If the lock is not  *)
(* free, others run while the CPU spins.                                   *)
(***************************************************************************)
EXTENDS Integers, FiniteSets

CONSTANTS CPUs, Locks, None

VARIABLES
  lk,      \* lk[l]: the CPU that holds l (locked and cpu), or None
  cpu,     \* cpu[c]: struct cpu's noff and intena, and the SIE bit intr
  panic

CpuInit == [intr |-> TRUE, noff |-> 0, intena |-> FALSE]

SpinlockInit ==
  /\ lk = [l \in Locks |-> None]
  /\ cpu = [c \in CPUs |-> CpuInit]
  /\ panic = FALSE

\* Mutant of push_off: interrupts are taken to have been on.
push_off_on(k) ==
  [intr |-> FALSE, noff |-> k.noff + 1, intena |-> IF k.noff = 0 THEN TRUE ELSE k.intena]

push_off(k) ==
  [intr |-> FALSE, noff |-> k.noff + 1, intena |-> IF k.noff = 0 THEN k.intr ELSE k.intena]

pop_off(k) == [k EXCEPT !.noff = @ - 1, !.intr = (k.noff = 1 /\ k.intena)]

pop_panics(k) == k.intr \/ k.noff < 1
holding(c, l) == lk[l] = c

\* acquire() by CPU c in state k: push_off(), and the swap if it finds 0.
acquire(c, k, l) ==
  /\ cpu' = [cpu EXCEPT ![c] = push_off(k)]
  /\ panic' = (panic \/ holding(c, l))
  /\ lk' = IF lk[l] = None THEN [lk EXCEPT ![l] = c] ELSE lk

\* The swap of a CPU that spins finds 0.
acquire_swap(c, l) == lk[l] = None /\ lk' = [lk EXCEPT ![l] = c]

release(c, l) ==
  /\ lk' = [lk EXCEPT ![l] = None]
  /\ cpu' = [cpu EXCEPT ![c] = pop_off(@)]
  /\ panic' = (panic \/ ~holding(c, l) \/ pop_panics(cpu[c]))
=============================================================================
