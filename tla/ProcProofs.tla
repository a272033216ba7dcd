----------------------------- MODULE ProcProofs -----------------------------
(* Proofs about Proc, for any numbers of slots and CPUs: ProcInv is an        *)
(* inductive invariant of the process table, with a lemma for each action,    *)
(* and what it implies.  In each lemma the first steps have the conjuncts     *)
(* that follow from themselves and the types; the others need more.           *)
EXTENDS Proc, TLAPS

USE Zenon

\* userinit() establishes the invariant.
LEMMA ProcInvInit == Init => ProcInv
<1> SUFFICES ASSUME Init PROVE ProcInv
  OBVIOUS
<1> USE ProcAssumption DEF Init
<1>1. TypeOK
  BY DEF TypeOK, States, Places
<1>2. OneStackOneCPU /\ SchedSound /\ WaitLockHeld
  BY DEF OneStackOneCPU, SchedSound, WaitLockHeld, Waitlocked, Free
<1>3. Stacks /\ Forks /\ Settled
  BY DEF Stacks, Forks, Settled, Kids
<1>4. Parents /\ NoMissedExit
  BY DEF Parents, NoMissedExit, Alive
<1>5. NoOrphans
  BY DEF NoOrphans, Alive
<1>6. UniquePids
  BY SMTT(30) DEF UniquePids
<1> QED
  BY <1>1, <1>2, <1>3, <1>4, <1>5, <1>6 DEF ProcInv

\* scheduler() takes a process that no CPU runs: one that is RUNNABLE and
\* not locked.
LEMMA KeepsScheduler ==
  ASSUME ProcInv, ~panic, NEW c \in CPUs, NEW i \in Slots, scheduler(c, i)
  PROVE  ProcInv'
<1> USE ProcAssumption DEF ProcInv, Free, At, Goto, fields, scheduler
<1>1. TypeOK' /\ OneStackOneCPU' /\ Stacks' /\ Forks' /\ Parents' /\ Settled'
  /\ NoMissedExit' /\ UniquePids'
  BY SMTT(30) DEF TypeOK, OneStackOneCPU, Stacks, Forks, Parents, Settled,
    NoMissedExit, UniquePids, States, Places, Alive, Kids
<1>2. SchedSound'
  BY SMTT(30) DEF SchedSound, TypeOK, OneStackOneCPU, States, Places
<1>3. WaitLockHeld'
  BY SMTT(30) DEF WaitLockHeld, TypeOK, OneStackOneCPU, Waitlocked, States, Places
<1>4. NoOrphans'
  BY <1>1 DEF NoOrphans, Parents
<1> QED
  BY <1>1, <1>2, <1>3, <1>4

\* A process that comes out of swtch() was locked by its own CPU.
LEMMA KeepsResume ==
  ASSUME ProcInv, ~panic, NEW c \in CPUs, NEW i \in Slots, resume(c, i)
  PROVE  ProcInv'
<1> USE ProcAssumption DEF ProcInv, Free, At, Goto, fields, resume
<1>1. TypeOK' /\ OneStackOneCPU' /\ SchedSound'
  BY SMTT(30) DEF TypeOK, OneStackOneCPU, SchedSound, States, Places
<1>2. WaitLockHeld' /\ Stacks' /\ Forks'
  BY SMTT(30) DEF TypeOK, WaitLockHeld, Stacks, Forks, Waitlocked
<1>3. Parents' /\ Settled' /\ NoMissedExit' /\ UniquePids'
  BY SMTT(30) DEF TypeOK, Parents, Settled, NoMissedExit, UniquePids, Alive, Kids
<1>4. NoOrphans'
  BY <1>3 DEF NoOrphans, Parents
<1> QED
  BY <1>1, <1>2, <1>3, <1>4

\* sched() leaves a stack whose lock its CPU holds, so wait_lock is not
\* held.
LEMMA KeepsSched ==
  ASSUME ProcInv, ~panic, NEW c \in CPUs, NEW i \in Slots, sched(c, i)
  PROVE  ProcInv'
<1> USE ProcAssumption DEF ProcInv, Free, At, Goto, fields, sched
<1>1. TypeOK' /\ OneStackOneCPU' /\ SchedSound' /\ WaitLockHeld' /\ Stacks'
      /\ Forks' /\ Parents' /\ Settled' /\ NoMissedExit' /\ UniquePids'
  BY SMTT(30) DEF TypeOK, OneStackOneCPU, SchedSound, WaitLockHeld, Stacks, Forks,
    Parents, Settled, NoMissedExit, UniquePids, States, Places, Waitlocked,
    Alive, Kids
<1>2. NoOrphans'
  BY <1>1 DEF NoOrphans, Parents
<1> QED
  BY <1>1, <1>2

\* yield() keeps the stack locked until the switch is done.
LEMMA KeepsYield ==
  ASSUME ProcInv, ~panic, NEW c \in CPUs, NEW i \in Slots, yield(c, i)
  PROVE  ProcInv'
<1> USE ProcAssumption DEF ProcInv, Free, At, Goto, fields, yield
<1>1. TypeOK' /\ OneStackOneCPU' /\ Settled' /\ NoMissedExit'
  BY SMTT(30) DEF TypeOK, OneStackOneCPU, Settled, NoMissedExit, States, Places, Kids
<1>2. SchedSound'
  BY SMTT(30) DEF SchedSound, TypeOK, OneStackOneCPU, States, Places
<1>3. WaitLockHeld'
  BY SMTT(30) DEF WaitLockHeld, TypeOK, OneStackOneCPU, Waitlocked, States, Places
<1>4. Stacks'
  BY SMTT(30) DEF Stacks, TypeOK, OneStackOneCPU, States, Places
<1>5. Forks'
  BY SMTT(30) DEF Forks, TypeOK, OneStackOneCPU, States, Places
<1>6. Parents'
  BY SMTT(30) DEF Parents, TypeOK, OneStackOneCPU, Alive, States, Places
<1>7. UniquePids'
  BY SMTT(30) DEF UniquePids, TypeOK, OneStackOneCPU, States, Places
<1>8. NoOrphans'
  BY <1>6 DEF NoOrphans, Parents
<1> QED
  BY <1>1, <1>2, <1>3, <1>4, <1>5, <1>6, <1>7, <1>8

\* A killed process on its way to kexit() holds no lock and has no fork
\* under way.
LEMMA KeepsTrapKilled ==
  ASSUME ProcInv, ~panic, NEW c \in CPUs, NEW i \in Slots, trap_killed(c, i)
  PROVE  ProcInv'
<1> USE ProcAssumption DEF ProcInv, Free, At, Goto, fields, trap_killed,
  EnterExit
<1>1. TypeOK' /\ OneStackOneCPU' /\ SchedSound' /\ WaitLockHeld' /\ Forks'
      /\ Parents' /\ Settled' /\ NoMissedExit' /\ UniquePids'
  BY SMTT(30) DEF TypeOK, OneStackOneCPU, SchedSound, WaitLockHeld, Forks, Parents,
    Settled, NoMissedExit, UniquePids, States, Places, Waitlocked, Alive, Kids
<1>2. Stacks'
  BY SMTT(30) DEF Stacks, TypeOK, OneStackOneCPU, States, Places
<1>3. NoOrphans'
  BY <1>1 DEF NoOrphans, Parents
<1> QED
  BY <1>1, <1>2, <1>3

\* Return to user code.
LEMMA KeepsTrapReturn ==
  ASSUME ProcInv, ~panic, NEW c \in CPUs, NEW i \in Slots, trap_return(c, i)
  PROVE  ProcInv'
<1> USE ProcAssumption DEF ProcInv, Free, At, Goto, fields, trap_return
<1>1. TypeOK' /\ OneStackOneCPU' /\ SchedSound' /\ WaitLockHeld' /\ Stacks'
      /\ Forks' /\ Parents' /\ Settled' /\ NoMissedExit' /\ UniquePids'
  BY SMTT(30) DEF TypeOK, OneStackOneCPU, SchedSound, WaitLockHeld, Stacks, Forks,
    Parents, Settled, NoMissedExit, UniquePids, States, Places, Waitlocked,
    Alive, Kids
<1>2. NoOrphans'
  BY <1>1 DEF NoOrphans, Parents
<1> QED
  BY <1>1, <1>2

\* kfork() gives the child its parent, which is running and not exiting.
LEMMA KeepsForkParent ==
  ASSUME ProcInv, ~panic, NEW c \in CPUs, NEW i \in Slots, fork_parent(c, i)
  PROVE  ProcInv'
<1> USE ProcAssumption DEF ProcInv, Free, At, Goto, fields, fork_parent
<1>1. OneStackOneCPU' /\ SchedSound' /\ WaitLockHeld' /\ Forks' /\ UniquePids'
  BY SMTT(30) DEF TypeOK, OneStackOneCPU, SchedSound, WaitLockHeld, Forks, UniquePids,
    States, Places, Waitlocked
<1>2. TypeOK'
  BY DEF TypeOK, Forks, States, Places
<1>3. Stacks'
  BY SMTT(30) DEF Stacks, TypeOK, Forks, States, Places
<1>4. Parents'
  BY SMTT(30) DEF Parents, TypeOK, OneStackOneCPU, Alive, States, Places
<1>5. Settled'
  BY SMTT(30) DEF Settled, TypeOK, OneStackOneCPU, Kids, States, Places
<1>6. NoMissedExit'
  BY SMTT(30) DEF NoMissedExit, TypeOK, OneStackOneCPU, States, Places
<1>7. NoOrphans'
  BY <1>4 DEF NoOrphans, Parents
<1> QED
  BY <1>1, <1>2, <1>3, <1>4, <1>5, <1>6, <1>7

\* kfork() makes the child RUNNABLE, which is on no CPU and has its parent.
LEMMA KeepsForkRun ==
  ASSUME ProcInv, ~panic, NEW c \in CPUs, NEW i \in Slots, fork_run(c, i)
  PROVE  ProcInv'
<1> USE ProcAssumption DEF ProcInv, Free, At, Goto, fields, fork_run
<1>1. WaitLockHeld' /\ Forks' /\ Settled' /\ NoMissedExit'
  BY SMTT(30) DEF TypeOK, WaitLockHeld, Forks, Settled, NoMissedExit, States, Places,
    Waitlocked, Kids
<1>2. TypeOK'
  BY DEF TypeOK, Forks, States, Places
<1>3. OneStackOneCPU'
  BY SMTT(30) DEF OneStackOneCPU, TypeOK, Forks, States, Places
<1>4. SchedSound'
  BY SMTT(30) DEF SchedSound, TypeOK, Forks, States, Places
<1>5. Stacks'
  BY SMTT(30) DEF Stacks, TypeOK, Forks, States, Places
<1>6. Parents'
  BY SMTT(30) DEF Parents, TypeOK, Forks, Alive, States, Places
<1>7. UniquePids'
  BY SMTT(30) DEF UniquePids, TypeOK, Forks, States, Places
<1>8. NoOrphans'
  BY <1>6 DEF NoOrphans, Parents
<1> QED
  BY <1>1, <1>2, <1>3, <1>4, <1>5, <1>6, <1>7, <1>8

\* kexit() takes wait_lock.
LEMMA KeepsExitLock ==
  ASSUME ProcInv, ~panic, NEW c \in CPUs, NEW i \in Slots, exit_lock(c, i)
  PROVE  ProcInv'
<1> USE ProcAssumption DEF ProcInv, Free, At, Goto, fields, exit_lock
<1>1. TypeOK' /\ OneStackOneCPU' /\ SchedSound' /\ WaitLockHeld' /\ Stacks'
      /\ Forks' /\ Parents' /\ Settled' /\ NoMissedExit' /\ UniquePids'
  BY SMTT(30) DEF TypeOK, OneStackOneCPU, SchedSound, WaitLockHeld, Stacks, Forks,
    Parents, Settled, NoMissedExit, UniquePids, States, Places, Waitlocked,
    Alive, Kids
<1>2. NoOrphans'
  BY <1>1 DEF NoOrphans, Parents
<1> QED
  BY <1>1, <1>2

\* reparent() leaves no child behind and wakes init, if it sleeps, for the
\* zombies among them.
LEMMA KeepsReparent ==
  ASSUME ProcInv, ~panic, NEW c \in CPUs, NEW i \in Slots, reparent(c, i)
  PROVE  ProcInv'
<1> USE ProcAssumption DEF ProcInv, Free, At, Goto, fields, reparent, Wakeup
<1>1. TypeOK' /\ OneStackOneCPU' /\ SchedSound' /\ WaitLockHeld' /\ Stacks'
      /\ Forks' /\ UniquePids'
  BY SMTT(30) DEF TypeOK, OneStackOneCPU, SchedSound, WaitLockHeld, Stacks, Forks,
    UniquePids, States, Places, Waitlocked
<1>2. Parents'
  BY SMTT(30) DEF Parents, TypeOK, OneStackOneCPU, Alive, States, Places
<1>3. Settled'
  BY SMTT(30) DEF Settled, TypeOK, OneStackOneCPU, SchedSound, WaitLockHeld, Stacks,
    Forks, Parents, NoMissedExit, UniquePids, Kids, States, Places,
    Waitlocked, Alive
<1>4. NoMissedExit'
  BY SMTT(30) DEF NoMissedExit, TypeOK, Stacks, States, Places
<1>5. NoOrphans'
  BY <1>2 DEF NoOrphans, Parents
<1> QED
  BY <1>1, <1>2, <1>3, <1>4, <1>5

\* kexit() wakes its parent, which cannot sleep again before wait_lock is
\* free.
LEMMA KeepsExitWakeup ==
  ASSUME ProcInv, ~panic, NEW c \in CPUs, NEW i \in Slots, exit_wakeup(c, i)
  PROVE  ProcInv'
<1> USE ProcAssumption DEF ProcInv, Free, At, Goto, fields, exit_wakeup,
  Wakeup
<1>1. OneStackOneCPU' /\ SchedSound' /\ WaitLockHeld' /\ Stacks' /\ Forks'
      /\ Parents' /\ NoMissedExit' /\ UniquePids'
  BY SMTT(30) DEF TypeOK, OneStackOneCPU, SchedSound, WaitLockHeld, Stacks, Forks,
    Parents, NoMissedExit, UniquePids, States, Places, Waitlocked, Alive
<1>2. TypeOK'
  BY DEF TypeOK, OneStackOneCPU, Parents, States, Places, Alive
<1>3. Settled'
  BY SMTT(30) DEF Settled, TypeOK, OneStackOneCPU, Stacks, Parents, Kids, States,
    Places, Alive
<1>4. NoOrphans'
  BY <1>1 DEF NoOrphans, Parents
<1> QED
  BY <1>1, <1>2, <1>3, <1>4

\* A process becomes a ZOMBIE without children and with a parent that is
\* awake.
LEMMA KeepsExitZombie ==
  ASSUME ProcInv, ~panic, NEW c \in CPUs, NEW i \in Slots, exit_zombie(c, i)
  PROVE  ProcInv'
<1> USE ProcAssumption DEF ProcInv, Free, At, Goto, fields, exit_zombie
<1>1. TypeOK' /\ OneStackOneCPU' /\ SchedSound' /\ WaitLockHeld' /\ Stacks'
  BY SMTT(30) DEF TypeOK, OneStackOneCPU, SchedSound, WaitLockHeld, Stacks, States,
    Places, Waitlocked
<1>2. Forks'
  BY SMTT(30) DEF Forks, TypeOK, OneStackOneCPU, States, Places
<1>3. Parents'
  BY SMTT(30) DEF Parents, TypeOK, OneStackOneCPU, Settled, Alive, States, Places, Kids
<1>4. Settled'
  BY SMTT(30) DEF Settled, TypeOK, WaitLockHeld, Kids, States, Places, Waitlocked
<1>5. NoMissedExit'
  BY SMTT(30) DEF NoMissedExit, TypeOK, Settled, States, Places, Kids
<1>6. UniquePids'
  BY SMTT(30) DEF UniquePids, TypeOK, OneStackOneCPU, States, Places
<1>7. NoOrphans'
  BY <1>3 DEF NoOrphans, Parents
<1> QED
  BY <1>1, <1>2, <1>3, <1>4, <1>5, <1>6, <1>7

\* kwait() takes wait_lock.
LEMMA KeepsWaitLockAcquire ==
  ASSUME ProcInv, ~panic, NEW c \in CPUs, NEW i \in Slots, wait_lock_acquire(c, i)
  PROVE  ProcInv'
<1> USE ProcAssumption DEF ProcInv, Free, At, Goto, fields, wait_lock_acquire
<1>1. TypeOK' /\ OneStackOneCPU' /\ SchedSound' /\ WaitLockHeld' /\ Stacks'
      /\ Forks' /\ NoMissedExit' /\ UniquePids'
  BY SMTT(30) DEF TypeOK, OneStackOneCPU, SchedSound, WaitLockHeld, Stacks, Forks,
    NoMissedExit, UniquePids, States, Places, Waitlocked
<1>2. Parents'
  BY SMTT(30) DEF Parents, TypeOK, OneStackOneCPU, Alive, States, Places
<1>3. Settled'
  BY SMTT(30) DEF Settled, TypeOK, OneStackOneCPU, Kids, States, Places
<1>4. NoOrphans'
  BY <1>2 DEF NoOrphans, Parents
<1> QED
  BY <1>1, <1>2, <1>3, <1>4

\* freeproc() of a ZOMBIE that no CPU runs and that has no children.
LEMMA KeepsWaitReap ==
  ASSUME ProcInv, ~panic, NEW c \in CPUs, NEW i \in Slots, NEW j \in Slots, wait_reap(c, i, j)
  PROVE  ProcInv'
<1> USE ProcAssumption DEF ProcInv, Free, At, Goto, fields, wait_reap
<1>1. SchedSound' /\ WaitLockHeld' /\ Stacks' /\ Parents' /\ NoMissedExit'
      /\ UniquePids'
  BY SMTT(30) DEF TypeOK, SchedSound, WaitLockHeld, Stacks, Parents, NoMissedExit,
    UniquePids, States, Places, Waitlocked, Alive
<1>2. TypeOK'
  BY DEF TypeOK, OneStackOneCPU, States, Places
<1>3. OneStackOneCPU'
  BY SMTT(30) DEF OneStackOneCPU, TypeOK, WaitLockHeld, States, Places, Waitlocked
<1>4. Forks'
  BY SMTT(30) DEF Forks, TypeOK, OneStackOneCPU, States, Places
<1>5. Settled'
  BY SMTT(30) DEF Settled, TypeOK, WaitLockHeld, Kids, States, Places, Waitlocked
<1>6. NoOrphans'
  BY <1>1 DEF NoOrphans, Parents
<1> QED
  BY <1>1, <1>2, <1>3, <1>4, <1>5, <1>6

\* kwait() has found no ZOMBIE among its children.
LEMMA KeepsWaitNone ==
  ASSUME ProcInv, ~panic, NEW c \in CPUs, NEW i \in Slots, wait_none(c, i)
  PROVE  ProcInv'
<1> USE ProcAssumption DEF ProcInv, Free, At, Goto, fields, wait_none
<1>1. TypeOK' /\ OneStackOneCPU' /\ Forks' /\ Parents' /\ NoMissedExit'
      /\ UniquePids'
  BY SMTT(30) DEF TypeOK, OneStackOneCPU, Forks, Parents, NoMissedExit, UniquePids,
    States, Places, Alive
<1>2. SchedSound'
  BY SMTT(30) DEF SchedSound, TypeOK, OneStackOneCPU, States, Places
<1>3. WaitLockHeld'
  BY SMTT(30) DEF WaitLockHeld, TypeOK, OneStackOneCPU, Waitlocked, States, Places
<1>4. Stacks'
  BY SMTT(30) DEF Stacks, TypeOK, OneStackOneCPU, States, Places
<1>5. Settled'
  BY SMTT(30) DEF Settled, TypeOK, OneStackOneCPU, Kids, States, Places
<1>6. NoOrphans'
  BY <1>1 DEF NoOrphans, Parents
<1> QED
  BY <1>1, <1>2, <1>3, <1>4, <1>5, <1>6

\* kwait() sleeps without ZOMBIE children, and gives up wait_lock under
\* p->lock.
LEMMA KeepsSleep ==
  ASSUME ProcInv, ~panic, NEW c \in CPUs, NEW i \in Slots, sleep(c, i)
  PROVE  ProcInv'
<1> USE ProcAssumption DEF ProcInv, Free, At, Goto, fields, sleep
<1>1. SchedSound' /\ WaitLockHeld' /\ Stacks'
  BY SMTT(30) DEF TypeOK, SchedSound, WaitLockHeld, Stacks, States, Places, Waitlocked
<1>2. TypeOK'
  BY DEF TypeOK, OneStackOneCPU, States, Places
<1>3. OneStackOneCPU'
  BY SMTT(30) DEF OneStackOneCPU, TypeOK, WaitLockHeld, States, Places, Waitlocked
<1>4. Forks'
  BY SMTT(30) DEF Forks, TypeOK, OneStackOneCPU, States, Places
<1>5. Parents'
  BY SMTT(30) DEF Parents, TypeOK, OneStackOneCPU, Alive, States, Places
<1>6. Settled'
  BY SMTT(30) DEF Settled, TypeOK, WaitLockHeld, Kids, States, Places, Waitlocked
<1>7. NoMissedExit'
  BY SMTT(30) DEF NoMissedExit, TypeOK, Settled, States, Places, Kids
<1>8. UniquePids'
  BY SMTT(30) DEF UniquePids, TypeOK, OneStackOneCPU, States, Places
<1>9. NoOrphans'
  BY <1>5 DEF NoOrphans, Parents
<1> QED
  BY <1>1, <1>2, <1>3, <1>4, <1>5, <1>6, <1>7, <1>8, <1>9

\* allocproc() takes a slot that is in nobody's hands, and a new pid.
LEMMA KeepsForkAlloc ==
  ASSUME ProcInv, ~panic, NEW c \in CPUs, NEW i \in Slots, fork_alloc(c, i)
  PROVE  ProcInv'
<1> USE ProcAssumption DEF ProcInv, Free, At, Goto, fields, fork_alloc,
  Syscall
<1>1. TypeOK'
  BY SMTT(30) DEF TypeOK, OneStackOneCPU, States, Places
<1>2. OneStackOneCPU'
  BY SMTT(30) DEF OneStackOneCPU, TypeOK, WaitLockHeld, States, Places, Waitlocked
<1>3. SchedSound'
  BY SMTT(30) DEF SchedSound, TypeOK, OneStackOneCPU, States, Places
<1>4. WaitLockHeld'
  BY SMTT(30) DEF WaitLockHeld, TypeOK, OneStackOneCPU, Waitlocked, States, Places
<1>5. Stacks'
  BY SMTT(30) DEF Stacks, TypeOK, OneStackOneCPU, States, Places
<1>6. Forks'
  BY SMTT(30) DEF Forks, TypeOK, Stacks, States, Places
<1>7. Parents'
  BY SMTT(30) DEF Parents, TypeOK, OneStackOneCPU, Alive, States, Places
<1>8. Settled'
  BY SMTT(30) DEF Settled, TypeOK, OneStackOneCPU, Kids, States, Places
<1>9. NoMissedExit'
  BY SMTT(30) DEF NoMissedExit, TypeOK, OneStackOneCPU, States, Places
<1>10. UniquePids'
  BY SMTT(30) DEF UniquePids, TypeOK, OneStackOneCPU, Stacks, States, Places
<1>11. NoOrphans'
  BY <1>7 DEF NoOrphans, Parents
<1> QED
  BY <1>1, <1>2, <1>3, <1>4, <1>5, <1>6, <1>7, <1>8, <1>9, <1>10, <1>11

\* A fork that fails.
LEMMA KeepsForkFail ==
  ASSUME ProcInv, ~panic, NEW c \in CPUs, NEW i \in Slots, fork_fail(c, i)
  PROVE  ProcInv'
<1> USE ProcAssumption DEF ProcInv, Free, At, Goto, fields, fork_fail, Syscall
<1>1. OneStackOneCPU' /\ SchedSound' /\ NoMissedExit' /\ UniquePids'
  BY SMTT(30) DEF TypeOK, OneStackOneCPU, SchedSound, NoMissedExit, UniquePids, States,
    Places
<1>2. TypeOK'
  <2>1. killed' \in [Slots -> BOOLEAN]
    <3>1. killed \in [Slots -> BOOLEAN]
      BY DEF TypeOK
    <3>2. killed' = killed \/ \E np \in Slots : killed' = [killed EXCEPT ![np] = FALSE]
      OBVIOUS
    <3> QED
      BY <3>1, <3>2
  <2>2. nextpid' \in Nat
    <3>1. nextpid' = nextpid \/ nextpid' = nextpid + 1
      OBVIOUS
    <3> QED
      BY SMTT(30), <3>1 DEF TypeOK
  <2> QED
    BY <2>1, <2>2 DEF TypeOK, States, Places
<1>3. WaitLockHeld'
  BY SMTT(30) DEF WaitLockHeld, TypeOK, OneStackOneCPU, Waitlocked, States, Places
<1>4. Stacks'
  BY SMTT(30) DEF Stacks, TypeOK, OneStackOneCPU, States, Places
<1>5. Forks'
  BY SMTT(30) DEF Forks, TypeOK, OneStackOneCPU, States, Places
<1>6. Parents'
  BY SMTT(30) DEF Parents, TypeOK, OneStackOneCPU, Alive, States, Places
<1>7. Settled'
  BY SMTT(30) DEF Settled, TypeOK, OneStackOneCPU, Kids, States, Places
<1>8. NoOrphans'
  BY <1>6 DEF NoOrphans, Parents
<1> QED
  BY <1>1, <1>2, <1>3, <1>4, <1>5, <1>6, <1>7, <1>8

\* The system call exit(); for init it is the panic.
LEMMA KeepsExitCall ==
  ASSUME ProcInv, ~panic, NEW c \in CPUs, NEW i \in Slots, exit_call(c, i)
  PROVE  ProcInv'
<1> USE ProcAssumption DEF ProcInv, Free, At, Goto, fields, exit_call,
  Syscall, EnterExit
<1>1. Settled' /\ NoMissedExit' /\ UniquePids'
  BY SMTT(30) DEF TypeOK, Settled, NoMissedExit, UniquePids, States, Places, Kids
<1>2. TypeOK'
  BY DEF TypeOK, OneStackOneCPU, States, Places
<1>3. OneStackOneCPU'
  BY SMTT(30) DEF OneStackOneCPU, TypeOK, WaitLockHeld, States, Places, Waitlocked
<1>4. SchedSound'
  BY SMTT(30) DEF SchedSound, TypeOK, OneStackOneCPU, States, Places
<1>5. WaitLockHeld'
  BY SMTT(30) DEF WaitLockHeld, TypeOK, OneStackOneCPU, Waitlocked, States, Places
<1>6. Stacks'
  BY SMTT(30) DEF Stacks, TypeOK, OneStackOneCPU, States, Places
<1>7. Forks'
  BY SMTT(30) DEF Forks, TypeOK, OneStackOneCPU, States, Places
<1>8. Parents'
  <2>1. CASE i = init
    BY <2>1 DEF Parents, TypeOK, Alive
  <2>2. CASE i # init
    BY <2>2 DEF Parents, TypeOK, Alive
  <2> QED
    BY <2>1, <2>2
<1>9. NoOrphans'
  BY <1>8 DEF NoOrphans, Parents
<1> QED
  BY <1>1, <1>2, <1>3, <1>4, <1>5, <1>6, <1>7, <1>8, <1>9

\* The system call wait().
LEMMA KeepsWaitCall ==
  ASSUME ProcInv, ~panic, NEW c \in CPUs, NEW i \in Slots, wait_call(c, i)
  PROVE  ProcInv'
<1> USE ProcAssumption DEF ProcInv, Free, At, Goto, fields, wait_call, Syscall
<1>1. SchedSound' /\ Settled' /\ NoMissedExit' /\ UniquePids'
  BY SMTT(30) DEF TypeOK, SchedSound, Settled, NoMissedExit, UniquePids, States,
    Places, Kids
<1>2. TypeOK'
  BY DEF TypeOK, OneStackOneCPU, States, Places
<1>3. OneStackOneCPU'
  BY SMTT(30) DEF OneStackOneCPU, TypeOK, WaitLockHeld, States, Places, Waitlocked
<1>4. WaitLockHeld'
  BY SMTT(30) DEF WaitLockHeld, TypeOK, OneStackOneCPU, Waitlocked, States, Places
<1>5. Stacks'
  BY SMTT(30) DEF Stacks, TypeOK, OneStackOneCPU, States, Places
<1>6. Forks'
  BY SMTT(30) DEF Forks, TypeOK, OneStackOneCPU, States, Places
<1>7. Parents'
  BY SMTT(30) DEF Parents, TypeOK, OneStackOneCPU, Alive, States, Places
<1>8. NoOrphans'
  BY <1>7 DEF NoOrphans, Parents
<1> QED
  BY <1>1, <1>2, <1>3, <1>4, <1>5, <1>6, <1>7, <1>8

\* kwait() returns early and gives up wait_lock.
LEMMA KeepsWaitCopyoutFails ==
  ASSUME ProcInv, ~panic, NEW c \in CPUs, NEW i \in Slots, wait_copyout_fails(c, i)
  PROVE  ProcInv'
<1> USE ProcAssumption DEF ProcInv, Free, At, Goto, fields, wait_copyout_fails
<1>1. TypeOK'
  BY DEF TypeOK, OneStackOneCPU, States, Places
<1>2. OneStackOneCPU'
  BY SMTT(30) DEF OneStackOneCPU, TypeOK, WaitLockHeld, States, Places, Waitlocked
<1>3. SchedSound'
  BY SMTT(30) DEF SchedSound, TypeOK, OneStackOneCPU, States, Places
<1>4. WaitLockHeld'
  BY SMTT(30) DEF WaitLockHeld, TypeOK, OneStackOneCPU, Waitlocked, States, Places
<1>5. Stacks'
  BY SMTT(30) DEF Stacks, TypeOK, OneStackOneCPU, States, Places
<1>6. Forks'
  BY SMTT(30) DEF Forks, TypeOK, OneStackOneCPU, States, Places
<1>7. Parents'
  BY SMTT(30) DEF Parents, TypeOK, OneStackOneCPU, Alive, States, Places
<1>8. Settled'
  BY SMTT(30) DEF Settled, TypeOK, OneStackOneCPU, Kids, States, Places
<1>9. NoMissedExit'
  BY SMTT(30) DEF NoMissedExit, TypeOK, OneStackOneCPU, States, Places
<1>10. UniquePids'
  BY SMTT(30) DEF UniquePids, TypeOK, OneStackOneCPU, States, Places
<1>11. NoOrphans'
  BY <1>7 DEF NoOrphans, Parents
<1> QED
  BY <1>1, <1>2, <1>3, <1>4, <1>5, <1>6, <1>7, <1>8, <1>9, <1>10, <1>11

\* An exception marks the process.
LEMMA KeepsFault ==
  ASSUME ProcInv, ~panic, NEW c \in CPUs, NEW i \in Slots, fault(c, i)
  PROVE  ProcInv'
<1> USE ProcAssumption DEF ProcInv, Free, At, Goto, fields, fault
<1>1. UniquePids'
  BY DEF TypeOK, UniquePids, States, Places
<1>2. TypeOK'
  BY DEF TypeOK, OneStackOneCPU, States, Places
<1>3. OneStackOneCPU'
  BY SMTT(30) DEF OneStackOneCPU, TypeOK, WaitLockHeld, States, Places, Waitlocked
<1>4. SchedSound'
  BY SMTT(30) DEF SchedSound, TypeOK, OneStackOneCPU, States, Places
<1>5. WaitLockHeld'
  BY SMTT(30) DEF WaitLockHeld, TypeOK, OneStackOneCPU, Waitlocked, States, Places
<1>6. Stacks'
  BY SMTT(30) DEF Stacks, TypeOK, OneStackOneCPU, States, Places
<1>7. Forks'
  BY SMTT(30) DEF Forks, TypeOK, OneStackOneCPU, States, Places
<1>8. Parents'
  BY SMTT(30) DEF Parents, TypeOK, OneStackOneCPU, Alive, States, Places
<1>9. Settled'
  BY SMTT(30) DEF Settled, TypeOK, OneStackOneCPU, Kids, States, Places
<1>10. NoMissedExit'
  BY SMTT(30) DEF NoMissedExit, TypeOK, OneStackOneCPU, States, Places
<1>11. NoOrphans'
  BY <1>8 DEF NoOrphans, Parents
<1> QED
  BY <1>1, <1>2, <1>3, <1>4, <1>5, <1>6, <1>7, <1>8, <1>9, <1>10, <1>11

\* kkill() marks a process and wakes it, which is on no CPU if it sleeps
\* unlocked.
LEMMA KeepsKkill ==
  ASSUME ProcInv, ~panic, NEW c \in CPUs, NEW i \in Slots, NEW n \in KillArgs, kkill(c, i, n)
  PROVE  ProcInv'
<1> USE ProcAssumption DEF ProcInv, Free, At, Goto, fields, kkill, Syscall
<1>1. TypeOK'
  <2>1. killed' \in [Slots -> BOOLEAN]
    BY DEF TypeOK
  <2>2. state' \in [Slots -> States]
    BY SMTT(30) DEF TypeOK, States
  <2> QED
    BY <2>1, <2>2 DEF TypeOK, States, Places
<1>2. OneStackOneCPU'
  BY SMTT(30) DEF OneStackOneCPU, TypeOK, WaitLockHeld, States, Places, Waitlocked
<1>3. SchedSound'
  BY SMTT(30) DEF SchedSound, TypeOK, OneStackOneCPU, States, Places
<1>4. WaitLockHeld'
  BY SMTT(30) DEF WaitLockHeld, TypeOK, OneStackOneCPU, Waitlocked, States, Places
<1>5. Stacks'
  BY SMTT(30) DEF Stacks, TypeOK, OneStackOneCPU, States, Places
<1>6. Forks'
  BY SMTT(30) DEF Forks, TypeOK, OneStackOneCPU, States, Places
<1>7. Parents'
  BY SMTT(30) DEF Parents, TypeOK, OneStackOneCPU, Alive, States, Places
<1>8. Settled'
  BY SMTT(30) DEF Settled, TypeOK, OneStackOneCPU, Stacks, Parents, Kids, States,
    Places, Alive
<1>9. NoMissedExit'
  BY SMTT(30) DEF NoMissedExit, TypeOK, OneStackOneCPU, States, Places
<1>10. UniquePids'
  BY SMTT(30) DEF UniquePids, TypeOK, OneStackOneCPU, States, Places
<1>11. NoOrphans'
  BY <1>7 DEF NoOrphans, Parents
<1> QED
  BY <1>1, <1>2, <1>3, <1>4, <1>5, <1>6, <1>7, <1>8, <1>9, <1>10, <1>11

\* Every step of the process table keeps it.
LEMMA ProcInvNext == ProcInv /\ [Next]_vars => ProcInv'
<1> SUFFICES ASSUME ProcInv, [Next]_vars PROVE ProcInv'
  OBVIOUS
<1>1. ASSUME ~panic, NEW c \in CPUs, NEW i \in Slots, Switch(c, i) PROVE ProcInv'
  BY <1>1, KeepsScheduler, KeepsResume, KeepsSched, KeepsYield DEF Switch
<1>2. ASSUME ~panic, NEW c \in CPUs, NEW i \in Slots, Kernel(c, i) PROVE ProcInv'
  BY <1>2, KeepsTrapKilled, KeepsTrapReturn, KeepsForkParent, KeepsForkRun,
     KeepsExitLock, KeepsReparent, KeepsExitWakeup, KeepsExitZombie,
     KeepsWaitLockAcquire, KeepsWaitReap, KeepsWaitNone, KeepsSleep DEF Kernel
<1>3. ASSUME ~panic, NEW c \in CPUs, NEW i \in Slots, User(c, i) PROVE ProcInv'
  BY <1>3, KeepsForkAlloc, KeepsForkFail, KeepsExitCall, KeepsWaitCall,
     KeepsWaitCopyoutFails, KeepsFault, KeepsKkill DEF User
<1>4. CASE UNCHANGED vars
  <2> USE <1>4 DEF vars, fields, ProcInv
  <2>1. TypeOK' /\ OneStackOneCPU' /\ SchedSound' /\ WaitLockHeld'
    BY SMTT(30) DEF TypeOK, OneStackOneCPU, SchedSound, WaitLockHeld, Free
  <2>2. Stacks' /\ Forks' /\ Parents' /\ Settled'
    BY SMTT(30) DEF Stacks, Forks, Parents, Settled, Kids
  <2>3. NoMissedExit' /\ NoOrphans' /\ UniquePids'
    BY DEF NoMissedExit, NoOrphans, UniquePids
  <2> QED
    BY <2>1, <2>2, <2>3
<1> QED
  BY <1>1, <1>2, <1>3, <1>4 DEF Next, Halted

\* The process table stays well formed through every interleaving of fork, exit,
\* wait, kill and scheduling on any number of CPUs.
THEOREM TableSound == Spec => []ProcInv
BY ProcInvInit, ProcInvNext, PTL DEF Spec

\* No kernel stack is run by two CPUs or freed under one.
THEOREM OneCPUPerStack == Spec => []OneStackOneCPU
<1>1. ProcInv => OneStackOneCPU
  BY DEF ProcInv
<1> QED
  BY <1>1, TableSound, PTL

\* No parent sleeps in kwait() over a ZOMBIE child.
THEOREM ExitsNoticed == Spec => []NoMissedExit
<1>1. ProcInv => NoMissedExit
  BY DEF ProcInv
<1> QED
  BY <1>1, TableSound, PTL

=============================================================================
