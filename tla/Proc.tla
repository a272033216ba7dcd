-------------------------------- MODULE Proc --------------------------------
(***************************************************************************)
(* The process table of kernel/proc.c: fork, exit, wait, kill, yield and   *)
(* the per-CPU scheduler.  p->lock and wait_lock are explicit wherever the *)
(* code holds them over several steps: p->lock across swtch(), wait_lock   *)
(* across exit and wait.  A section under one lock alone is one action.    *)
(***************************************************************************)
EXTENDS Integers, FiniteSets

CONSTANTS
  Slots,      \* &proc[0] .. &proc[NPROC-1]
  init,       \* initproc
  CPUs,
  Nil,        \* null pointer, and the holder of a free lock
  MaxPid,     \* bound: pids handed out by allocpid()
  KillArgs    \* arguments kill() is called with

ASSUME ProcAssumption ==
  /\ init \in Slots
  /\ Nil \notin Slots /\ Nil \notin CPUs
  /\ MaxPid \in Nat /\ KillArgs \subseteq Nat

VARIABLES
  state, chan, killed, pid, parent,  \* fields of struct proc
  lock,       \* the CPU holding p->lock
  wait_lock,  \* the CPU holding wait_lock
  cproc,      \* c->proc: the process whose kernel stack CPU c runs on
  kpc,        \* where each process is in the kernel
  child,      \* np in kfork()
  nextpid,
  panic       \* kexit() called by init: the kernel has stopped

fields == <<state, chan, killed, pid, parent>>
vars == <<fields, lock, wait_lock, cproc, kpc, child, nextpid, panic>>

States == {"UNUSED", "USED", "SLEEPING", "RUNNABLE", "RUNNING", "ZOMBIE"}

Places ==
  {"user", "ret",                \* user code; usertrap()'s last killed() check
   "fork_parent", "fork_run",    \* kfork() before each of its later sections
   "exit", "exit_reparent", "exit_wakeup", "exit_zombie", "dead",
   "wait", "wait_scan", "wait_sleep", "woken"}

TypeOK ==
  /\ state \in [Slots -> States]
  /\ chan \in [Slots -> Slots \cup {Nil}]
  /\ killed \in [Slots -> BOOLEAN]
  /\ pid \in [Slots -> Nat]
  /\ parent \in [Slots -> Slots \cup {Nil}]
  /\ lock \in [Slots -> CPUs \cup {Nil}]
  /\ wait_lock \in CPUs \cup {Nil}
  /\ cproc \in [CPUs -> Slots \cup {Nil}]
  /\ kpc \in [Slots -> Places]
  /\ child \in [Slots -> Slots \cup {Nil}]
  /\ nextpid \in Nat
  /\ panic \in BOOLEAN

\* userinit(): only initproc exists.
Init ==
  /\ state = [i \in Slots |-> IF i = init THEN "RUNNABLE" ELSE "UNUSED"]
  /\ chan = [i \in Slots |-> Nil]
  /\ killed = [i \in Slots |-> FALSE]
  /\ pid = [i \in Slots |-> IF i = init THEN 1 ELSE 0]
  /\ parent = [i \in Slots |-> Nil]
  /\ lock = [i \in Slots |-> Nil]
  /\ wait_lock = Nil
  /\ cproc = [c \in CPUs |-> Nil]
  /\ kpc = [i \in Slots |-> "user"]
  /\ child = [i \in Slots |-> Nil]
  /\ nextpid = 2
  /\ panic = FALSE

-----------------------------------------------------------------------------
(* Helpers                                                                 *)

Free(i) == lock[i] = Nil

\* CPU c executes process i (which does not hold its own lock) at place l.
At(c, i, l) == cproc[c] = i /\ Free(i) /\ kpc[i] = l

Goto(i, l) == kpc' = [kpc EXCEPT ![i] = l]

\* The effect of wakeup(chan = w) on the process table.  Processes sleep here
\* only on their own address, so w is the one that may be woken.
Wakeup(w) ==
  /\ Free(w)
  /\ state' = IF state[w] = "SLEEPING" /\ chan[w] = w
              THEN [state EXCEPT ![w] = "RUNNABLE"] ELSE state

-----------------------------------------------------------------------------
(* Scheduling                                                              *)

\* scheduler() finds i RUNNABLE and switches to it, i's lock held.
scheduler(c, i) ==
  /\ cproc[c] = Nil
  /\ Free(i)
  /\ state[i] = "RUNNABLE"
  /\ lock' = [lock EXCEPT ![i] = c]
  /\ state' = [state EXCEPT ![i] = "RUNNING"]
  /\ cproc' = [cproc EXCEPT ![c] = i]
  /\ UNCHANGED <<chan, killed, pid, parent, wait_lock, kpc, child, nextpid, panic>>

\* The process comes out of swtch() in forkret(), yield() or sleep() and
\* releases its lock; sleep() has cleared chan and goes on to take wait_lock.
resume(c, i) ==
  /\ cproc[c] = i /\ lock[i] = c
  /\ state[i] = "RUNNING"
  /\ lock' = [lock EXCEPT ![i] = Nil]
  /\ \/ /\ kpc[i] = "woken"
        /\ chan' = [chan EXCEPT ![i] = Nil]
        /\ Goto(i, "wait")
     \/ /\ kpc[i] # "woken"
        /\ UNCHANGED <<chan, kpc>>
  /\ UNCHANGED <<state, killed, pid, parent, wait_lock, cproc, child, nextpid, panic>>

\* sched(): swtch() back to the scheduler, which releases the lock.
sched(c, i) ==
  /\ cproc[c] = i /\ lock[i] = c
  /\ state[i] # "RUNNING"
  /\ cproc' = [cproc EXCEPT ![c] = Nil]
  /\ lock' = [lock EXCEPT ![i] = Nil]
  /\ UNCHANGED <<fields, wait_lock, kpc, child, nextpid, panic>>

\* Mutant of yield: p->lock is given up before swtch().
yield_unlocked(c, i) ==
  /\ cproc[c] = i /\ Free(i)
  /\ wait_lock # c
  /\ state' = [state EXCEPT ![i] = "RUNNABLE"]
  /\ UNCHANGED <<chan, killed, pid, parent, lock, wait_lock, cproc, kpc, child, nextpid, panic>>

\* yield() from a timer interrupt, which a held spinlock keeps off.
yield(c, i) ==
  /\ cproc[c] = i /\ Free(i)
  /\ wait_lock # c
  /\ lock' = [lock EXCEPT ![i] = c]
  /\ state' = [state EXCEPT ![i] = "RUNNABLE"]
  /\ UNCHANGED <<chan, killed, pid, parent, wait_lock, cproc, kpc, child, nextpid, panic>>

-----------------------------------------------------------------------------
(* usertrap()                                                              *)

\* kexit() up to its first lock: init may not exit.
EnterExit(i) ==
  /\ panic' = (i = init)
  /\ Goto(i, "exit")
  /\ UNCHANGED <<fields, lock, wait_lock, cproc, child, nextpid>>

\* Mutant of trap_killed: an interrupt of user code does not look at killed.
trap_killed_return(c, i) ==
  /\ At(c, i, "ret")
  /\ killed[i]
  /\ EnterExit(i)

\* A killed process that enters the kernel, or is about to leave it, exits.
trap_killed(c, i) ==
  /\ At(c, i, "user") \/ At(c, i, "ret")
  /\ killed[i]
  /\ EnterExit(i)

trap_return(c, i) ==
  /\ At(c, i, "ret")
  /\ ~killed[i]
  /\ Goto(i, "user")
  /\ UNCHANGED <<fields, lock, wait_lock, cproc, child, nextpid, panic>>

\* An unexpected exception: setkilled().
fault(c, i) ==
  /\ At(c, i, "user")
  /\ killed' = [killed EXCEPT ![i] = TRUE]
  /\ Goto(i, "ret")
  /\ UNCHANGED <<state, chan, pid, parent, lock, wait_lock, cproc, child, nextpid, panic>>

Syscall(c, i) == At(c, i, "user") /\ ~killed[i]

-----------------------------------------------------------------------------
(* kfork()                                                                 *)

\* allocproc() and the copy of the parent, under np->lock.
fork_alloc(c, i) ==
  /\ Syscall(c, i)
  /\ nextpid <= MaxPid
  /\ nextpid' = nextpid + 1
  /\ \E np \in Slots :
       /\ Free(np) /\ state[np] = "UNUSED"
       /\ pid' = [pid EXCEPT ![np] = nextpid]
       /\ state' = [state EXCEPT ![np] = "USED"]
       /\ child' = [child EXCEPT ![i] = np]
       /\ kpc' = [kpc EXCEPT ![i] = "fork_parent", ![np] = "user"]
  /\ UNCHANGED <<chan, killed, parent, lock, wait_lock, cproc, panic>>

\* No slot; or no memory, when freeproc() undoes what allocproc() did before
\* np->lock is released: nobody sees the slot USED.
fork_fail(c, i) ==
  /\ Syscall(c, i)
  /\ nextpid <= MaxPid
  /\ \/ /\ \A np \in Slots : state[np] # "UNUSED"
        /\ UNCHANGED <<killed, nextpid>>
     \/ /\ nextpid' = nextpid + 1
        /\ \E np \in Slots :
             /\ Free(np) /\ state[np] = "UNUSED"
             /\ killed' = [killed EXCEPT ![np] = FALSE]
  /\ Goto(i, "ret")
  /\ UNCHANGED <<state, chan, pid, parent, lock, wait_lock, cproc, child, panic>>

fork_parent(c, i) ==
  /\ At(c, i, "fork_parent")
  /\ wait_lock = Nil
  /\ parent' = [parent EXCEPT ![child[i]] = i]
  /\ Goto(i, "fork_run")
  /\ UNCHANGED <<state, chan, killed, pid, lock, wait_lock, cproc, child, nextpid, panic>>

fork_run(c, i) ==
  /\ At(c, i, "fork_run")
  /\ Free(child[i])
  /\ state' = [state EXCEPT ![child[i]] = "RUNNABLE"]
  /\ child' = [child EXCEPT ![i] = Nil]
  /\ Goto(i, "ret")
  /\ UNCHANGED <<chan, killed, pid, parent, lock, wait_lock, cproc, nextpid, panic>>

-----------------------------------------------------------------------------
(* kexit()                                                                 *)

exit_call(c, i) ==
  /\ Syscall(c, i)
  /\ EnterExit(i)

\* acquire(&wait_lock), the files and cwd closed before it.
exit_lock(c, i) ==
  /\ At(c, i, "exit")
  /\ wait_lock = Nil
  /\ wait_lock' = c
  /\ Goto(i, "exit_reparent")
  /\ UNCHANGED <<fields, lock, cproc, child, nextpid, panic>>

\* reparent(): the children go to init, which is woken if there are any.
reparent(c, i) ==
  /\ At(c, i, "exit_reparent")
  /\ parent' = [j \in Slots |-> IF parent[j] = i THEN init ELSE parent[j]]
  /\ IF \E j \in Slots : parent[j] = i THEN Wakeup(init) ELSE UNCHANGED state
  /\ Goto(i, "exit_wakeup")
  /\ UNCHANGED <<chan, killed, pid, lock, wait_lock, cproc, child, nextpid, panic>>

\* Mutant of exit_wakeup: the parent is not woken.
exit_no_wakeup(c, i) ==
  /\ At(c, i, "exit_wakeup")
  /\ Goto(i, "exit_zombie")
  /\ UNCHANGED <<fields, lock, wait_lock, cproc, child, nextpid, panic>>

exit_wakeup(c, i) ==
  /\ At(c, i, "exit_wakeup")
  /\ Wakeup(parent[i])
  /\ Goto(i, "exit_zombie")
  /\ UNCHANGED <<chan, killed, pid, parent, lock, wait_lock, cproc, child, nextpid, panic>>

\* Mutant of exit_zombie: wait_lock and p->lock are both given up before sched().
exit_zombie_unlocked(c, i) ==
  /\ At(c, i, "exit_zombie")
  /\ state' = [state EXCEPT ![i] = "ZOMBIE"]
  /\ wait_lock' = Nil
  /\ Goto(i, "dead")
  /\ UNCHANGED <<chan, killed, pid, parent, lock, cproc, child, nextpid, panic>>

\* Take p->lock, become a ZOMBIE, release wait_lock; sched() is next.
exit_zombie(c, i) ==
  /\ At(c, i, "exit_zombie")
  /\ lock' = [lock EXCEPT ![i] = c]
  /\ state' = [state EXCEPT ![i] = "ZOMBIE"]
  /\ wait_lock' = Nil
  /\ Goto(i, "dead")
  /\ UNCHANGED <<chan, killed, pid, parent, cproc, child, nextpid, panic>>

-----------------------------------------------------------------------------
(* kwait()                                                                 *)

wait_call(c, i) ==
  /\ Syscall(c, i)
  /\ Goto(i, "wait")
  /\ UNCHANGED <<fields, lock, wait_lock, cproc, child, nextpid, panic>>

wait_lock_acquire(c, i) ==
  /\ At(c, i, "wait")
  /\ wait_lock = Nil
  /\ wait_lock' = c
  /\ Goto(i, "wait_scan")
  /\ UNCHANGED <<fields, lock, cproc, child, nextpid, panic>>

Kids(i) == {j \in Slots : parent[j] = i}

\* freeproc(j): the slot of a ZOMBIE child goes back to the table.
wait_reap(c, i, j) ==
  /\ At(c, i, "wait_scan")
  /\ j \in Kids(i) /\ Free(j) /\ state[j] = "ZOMBIE"
  /\ state' = [state EXCEPT ![j] = "UNUSED"]
  /\ pid' = [pid EXCEPT ![j] = 0]
  /\ parent' = [parent EXCEPT ![j] = Nil]
  /\ chan' = [chan EXCEPT ![j] = Nil]
  /\ killed' = [killed EXCEPT ![j] = FALSE]
  /\ wait_lock' = Nil
  /\ Goto(i, "ret")
  /\ UNCHANGED <<lock, cproc, child, nextpid, panic>>

\* copyout() of the exit status fails: the ZOMBIE stays.
wait_copyout_fails(c, i) ==
  /\ At(c, i, "wait_scan")
  /\ \E j \in Kids(i) : Free(j) /\ state[j] = "ZOMBIE"
  /\ wait_lock' = Nil
  /\ Goto(i, "ret")
  /\ UNCHANGED <<fields, lock, cproc, child, nextpid, panic>>

\* No ZOMBIE child: give up without children or when killed, else sleep.
wait_none(c, i) ==
  /\ At(c, i, "wait_scan")
  /\ \A j \in Kids(i) : Free(j) /\ state[j] # "ZOMBIE"
  /\ \/ /\ Kids(i) = {} \/ killed[i]
        /\ wait_lock' = Nil
        /\ Goto(i, "ret")
     \/ /\ Kids(i) # {} /\ ~killed[i]
        /\ Goto(i, "wait_sleep")
        /\ UNCHANGED wait_lock
  /\ UNCHANGED <<fields, lock, cproc, child, nextpid, panic>>

\* sleep(p, &wait_lock) up to sched().
sleep(c, i) ==
  /\ At(c, i, "wait_sleep")
  /\ lock' = [lock EXCEPT ![i] = c]
  /\ wait_lock' = Nil
  /\ chan' = [chan EXCEPT ![i] = i]
  /\ state' = [state EXCEPT ![i] = "SLEEPING"]
  /\ Goto(i, "woken")
  /\ UNCHANGED <<killed, pid, parent, cproc, child, nextpid, panic>>

-----------------------------------------------------------------------------
(* kkill(n): a slot with that pid, if any, is marked and woken.            *)
kkill(c, i, n) ==
  /\ Syscall(c, i)
  /\ \/ \E j \in Slots :
          /\ Free(j) /\ pid[j] = n
          /\ killed' = [killed EXCEPT ![j] = TRUE]
          /\ state' = IF state[j] = "SLEEPING"
                      THEN [state EXCEPT ![j] = "RUNNABLE"] ELSE state
     \/ /\ \A j \in Slots : pid[j] # n
        /\ UNCHANGED <<state, killed>>
  /\ Goto(i, "ret")
  /\ UNCHANGED <<chan, pid, parent, lock, wait_lock, cproc, child, nextpid, panic>>

-----------------------------------------------------------------------------

Switch(c, i) == scheduler(c, i) \/ resume(c, i) \/ sched(c, i) \/ yield(c, i)

Kernel(c, i) ==
  \/ trap_killed(c, i) \/ trap_return(c, i)
  \/ fork_parent(c, i) \/ fork_run(c, i)
  \/ exit_lock(c, i) \/ reparent(c, i) \/ exit_wakeup(c, i) \/ exit_zombie(c, i)
  \/ wait_lock_acquire(c, i) \/ (\E j \in Slots : wait_reap(c, i, j))
  \/ wait_none(c, i) \/ sleep(c, i)

User(c, i) ==
  \/ fork_alloc(c, i) \/ fork_fail(c, i) \/ exit_call(c, i) \/ wait_call(c, i)
  \/ wait_copyout_fails(c, i) \/ fault(c, i)
  \/ \E n \in KillArgs : kkill(c, i, n)

Halted == panic /\ UNCHANGED vars

Next ==
  \/ /\ ~panic
     /\ \E c \in CPUs, i \in Slots :
          Switch(c, i) \/ Kernel(c, i) \/ User(c, i)
  \/ Halted

Spec == Init /\ [][Next]_vars

\* A CPU in the middle of a switch completes it (weak fairness).  A timer
\* interrupt stays pending while a spinlock keeps it off, every pass of
\* scheduler() over the table picks a RUNNABLE process, a time slice lets a
\* process get on in the kernel, and spinlocks do not starve a waiter (strong
\* fairness).  init keeps calling wait().
FairSpec ==
  /\ Spec
  /\ \A c \in CPUs :
       /\ WF_vars(~panic /\ \E i \in Slots : resume(c, i) \/ sched(c, i))
       /\ SF_vars(~panic /\ \E i \in Slots : yield(c, i))
  /\ \A i \in Slots :
       /\ SF_vars(~panic /\ \E c \in CPUs : scheduler(c, i))
       /\ SF_vars(~panic /\ \E c \in CPUs : Kernel(c, i))
  /\ SF_vars(~panic /\ \E c \in CPUs : wait_call(c, init))
  /\ SF_vars(~panic /\ \E c \in CPUs, j \in Slots : wait_reap(c, init, j))

-----------------------------------------------------------------------------
(* Properties                                                              *)

Alive == {"SLEEPING", "RUNNABLE", "RUNNING"}

\* A kernel stack is never run by two CPUs, and freeproc() never frees the
\* one a CPU still runs on: p->lock covers swtch() in yield(), sleep(),
\* kexit() and scheduler(), and kwait() takes it before freeing a child.
OneStackOneCPU ==
  \A c \in CPUs, i \in Slots : cproc[c] = i =>
    /\ \A d \in CPUs : cproc[d] = i => d = c
    /\ state[i] = "RUNNING" \/ (lock[i] = c /\ state[i] \in {"RUNNABLE", "SLEEPING", "ZOMBIE"})

\* sched()'s panics cannot happen: whoever switches away holds p->lock and no
\* other lock ("sched p->lock", "sched locks", "sched RUNNING"), and a dead
\* process is never scheduled again ("zombie exit").
SchedSound ==
  \A c \in CPUs :
    /\ wait_lock = c => cproc[c] # Nil /\ Free(cproc[c])
    /\ \A i \in Slots : lock[i] = c => cproc[c] = i
    /\ \A i \in Slots : kpc[i] = "dead" => state[i] \in {"ZOMBIE", "UNUSED"}

\* A parent asleep in kwait() never has a ZOMBIE child: kexit() and kwait()
\* hold wait_lock from the look at the children to the sleep, and reparent()
\* wakes init for the zombies it inherits.
NoMissedExit ==
  \A i, j \in Slots :
    state[i] = "SLEEPING" /\ parent[j] = i => state[j] # "ZOMBIE"

\* Every process but init that can run or be reaped has a parent that can
\* still wait for it: no exit leaves an orphan behind.
NoOrphans ==
  \A j \in Slots \ {init} :
    state[j] \in Alive \cup {"ZOMBIE"} =>
      parent[j] # Nil /\ state[parent[j]] \in Alive

\* Two entries in use never share a pid, and allocpid() numbers are not reused.
UniquePids ==
  \A i, j \in Slots :
    state[i] # "UNUSED" => pid[i] \in 1..(nextpid - 1) /\ (pid[i] = pid[j] => i = j)

\* A dead process whose parent is init, an orphan included, is freed.
ZombieReaped ==
  \A j \in Slots \ {init} :
    state[j] = "ZOMBIE" /\ parent[j] = init ~> state[j] = "UNUSED" \/ panic

\* A process that is killed exits, wherever kill() finds it: in user code, in
\* any place of kfork() or kwait(), asleep, or not yet started.  The one
\* exception is a kill() between kwait()'s look at killed and sleep(): it wakes
\* nobody, and the process sleeps on until a child exits.
KilledExits ==
  \A j \in Slots \ {init} :
    killed[j] /\ state[j] \in {"RUNNABLE", "RUNNING"} /\ kpc[j] # "wait_sleep" ~>
      state[j] = "ZOMBIE" \/ panic

-----------------------------------------------------------------------------
(* The inductive invariant behind the properties above.                    *)

\* Places where a process holds wait_lock.
Waitlocked == {"exit_reparent", "exit_wakeup", "exit_zombie", "wait_scan", "wait_sleep"}

WaitLockHeld ==
  /\ \A i \in Slots : kpc[i] \in Waitlocked =>
       \E c \in CPUs : wait_lock = c /\ cproc[c] = i /\ Free(i)
  /\ \A c \in CPUs : wait_lock = c =>
       cproc[c] # Nil /\ Free(cproc[c]) /\ kpc[cproc[c]] \in Waitlocked

\* What p->state says about the kernel stack of the process.
Stacks ==
  \A i \in Slots :
    /\ state[i] = "SLEEPING" => kpc[i] = "woken" /\ chan[i] = i
    /\ state[i] = "USED" => kpc[i] = "user"
    /\ kpc[i] = "dead" => state[i] \in {"ZOMBIE", "UNUSED"}
    /\ state[i] = "ZOMBIE" => kpc[i] = "dead"
    /\ state[i] = "UNUSED" => parent[i] = Nil /\ pid[i] = 0 /\ kpc[i] \in {"user", "dead"}

\* A fork in progress owns the slot it allocated.
Forks ==
  \A i \in Slots :
    /\ kpc[i] \in {"fork_parent", "fork_run"} <=> child[i] # Nil
    /\ child[i] # Nil => /\ state[child[i]] = "USED"
                         /\ \A k \in Slots : child[k] = child[i] => k = i
    /\ kpc[i] = "fork_run" => parent[child[i]] = i

Parents ==
  /\ state[init] \in Alive
  /\ ~panic => kpc[init] \notin {"exit", "exit_reparent", "exit_wakeup", "exit_zombie"}
  /\ kpc[init] \notin {"exit_reparent", "exit_wakeup", "exit_zombie"}
  /\ \A j \in Slots :
       /\ parent[j] # Nil => state[parent[j]] \in Alive
       /\ j # init /\ state[j] \in Alive \cup {"ZOMBIE"} => parent[j] # Nil

\* What a process in kexit() or kwait() has settled while it holds wait_lock.
Settled ==
  \A i \in Slots :
    /\ kpc[i] \in {"exit_wakeup", "exit_zombie"} => Kids(i) = {}
    /\ kpc[i] = "exit_zombie" => state[parent[i]] # "SLEEPING"
    /\ kpc[i] = "wait_sleep" => \A j \in Kids(i) : state[j] # "ZOMBIE"

\* Types and all of the above, for kfork(), kexit(), kwait(), kkill() and the
\* scheduler together.
ProcInv ==
  /\ TypeOK /\ OneStackOneCPU /\ SchedSound /\ WaitLockHeld /\ Stacks
  /\ Forks /\ Parents /\ Settled /\ NoMissedExit /\ NoOrphans /\ UniquePids
=============================================================================
