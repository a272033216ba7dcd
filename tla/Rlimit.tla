------------------------------- MODULE Rlimit -------------------------------
(***************************************************************************)
(* The resource limits of one process: CPU ticks (kernel/trap.c,           *)
(* kernel/sysproc.c) and open files (kernel/sysfile.c, kernel/file.c).     *)
(* Only the process itself and the timer interrupts taken while it runs    *)
(* touch these fields, so one process and its interrupts are modelled.     *)
(***************************************************************************)
EXTENDS Integers, FiniteSets

CONSTANTS
  NOFILE,
  MAX_CPU_TICKS,
  DefaultCpu,     \* cpu_ticks_max given by allocproc()
  WORD,           \* 2^64: the range of cpu_ticks and cpu_ticks_max
  CpuArgs,        \* arguments of setrlimit(RLIMIT_CPU, n): C ints
  FileArgs,       \* arguments of setrlimit(RLIMIT_NOFILE, n): C ints
  TickBound       \* bound: cpu_ticks in the runs

ASSUME RlimitAssumption ==
  /\ NOFILE \in Nat \ {0}
  /\ MAX_CPU_TICKS \in Nat /\ DefaultCpu \in 1..MAX_CPU_TICKS
  /\ WORD \in Nat /\ TickBound \in Nat
  /\ MAX_CPU_TICKS < WORD /\ TickBound < WORD
  /\ CpuArgs \subseteq Int /\ FileArgs \subseteq Int

VARIABLES
  mode,           \* running user code, in a system call, between the checks
                  \* and the assignment of setrlimit(RLIMIT_CPU), or exited
  rlim_max,       \* the argument of that setrlimit()
  cpu_ticks, cpu_ticks_max, killed,
  ofile,          \* descriptors in use
  nofile_max,
  user_ticks      \* history: ticks charged in user mode

cpu == <<rlim_max, cpu_ticks, cpu_ticks_max, user_ticks>>
files == <<ofile, nofile_max>>
vars == <<mode, cpu, killed, files>>

TypeOK ==
  /\ mode \in {"user", "kernel", "set_cpu", "dead"}
  /\ rlim_max \in CpuArgs \cup {0}
  /\ cpu_ticks \in Nat /\ cpu_ticks_max \in 0..(WORD - 1)
  /\ killed \in BOOLEAN
  /\ ofile \subseteq 0..(NOFILE - 1)
  /\ nofile_max \in 1..NOFILE
  /\ user_ticks \in Nat

\* allocproc(), with some descriptors in use.
Init ==
  /\ mode = "user"
  /\ rlim_max = 0
  /\ cpu_ticks = 0 /\ cpu_ticks_max = DefaultCpu
  /\ killed = FALSE
  /\ ofile \in SUBSET (0..(NOFILE - 1))
  /\ nofile_max = NOFILE
  /\ user_ticks = 0

-----------------------------------------------------------------------------
(* Timer interrupts and kill                                               *)

\* Mutants of user_tick: the limit compared with >, and with =.
user_tick_above ==
  /\ mode = "user"
  /\ IF killed
     THEN mode' = "dead" /\ UNCHANGED <<cpu, killed>>
     ELSE /\ cpu_ticks < TickBound
          /\ cpu_ticks' = cpu_ticks + 1
          /\ user_ticks' = user_ticks + 1
          /\ killed' = (cpu_ticks' > cpu_ticks_max)
          /\ UNCHANGED <<mode, rlim_max, cpu_ticks_max>>
  /\ UNCHANGED files

user_tick_equal ==
  /\ mode = "user"
  /\ IF killed
     THEN mode' = "dead" /\ UNCHANGED <<cpu, killed>>
     ELSE /\ cpu_ticks < TickBound
          /\ cpu_ticks' = cpu_ticks + 1
          /\ user_ticks' = user_ticks + 1
          /\ killed' = (cpu_ticks' = cpu_ticks_max)
          /\ UNCHANGED <<mode, rlim_max, cpu_ticks_max>>
  /\ UNCHANGED files

\* usertrap() on a timer interrupt: a killed process exits, any other is
\* charged and marked at its limit; it returns to user mode once more.
user_tick ==
  /\ mode = "user"
  /\ IF killed
     THEN mode' = "dead" /\ UNCHANGED <<cpu, killed>>
     ELSE /\ cpu_ticks < TickBound
          /\ cpu_ticks' = cpu_ticks + 1
          /\ user_ticks' = user_ticks + 1
          /\ killed' = (cpu_ticks_max > 0 /\ cpu_ticks' >= cpu_ticks_max)
          /\ UNCHANGED <<mode, rlim_max, cpu_ticks_max>>
  /\ UNCHANGED files

\* kerneltrap() on a timer interrupt in a system call: charged, not checked.
kernel_tick ==
  /\ mode \in {"kernel", "set_cpu"}
  /\ cpu_ticks < TickBound - 1
  /\ cpu_ticks' = cpu_ticks + 1
  /\ UNCHANGED <<mode, rlim_max, cpu_ticks_max, killed, user_ticks, files>>

\* kkill() by another process.
kkill ==
  /\ mode # "dead"
  /\ killed' = TRUE
  /\ UNCHANGED <<mode, cpu, files>>

\* usertrap() at the start of a system call.
syscall ==
  /\ mode = "user"
  /\ mode' = IF killed THEN "dead" ELSE "kernel"
  /\ UNCHANGED <<cpu, killed, files>>

\* usertrap() at its end.
return_to_user ==
  /\ mode = "kernel"
  /\ mode' = IF killed THEN "dead" ELSE "user"
  /\ UNCHANGED <<cpu, killed, files>>

-----------------------------------------------------------------------------
(* System calls                                                            *)

\* kfork() returns in the child, which the model follows from here: it has the
\* limits and the files of its parent and a count of its own.
kfork ==
  /\ mode = "kernel"
  /\ cpu_ticks' = 0 /\ user_ticks' = 0
  /\ killed' = FALSE
  /\ mode' = "user"
  /\ UNCHANGED <<rlim_max, cpu_ticks_max, files>>

\* The checks of setrlimit(RLIMIT_CPU, n).  The last one compares unsigned.
set_cpu_check(n) ==
  /\ mode = "kernel"
  /\ n # 0
  /\ n <= MAX_CPU_TICKS
  /\ n % WORD > cpu_ticks
  /\ rlim_max' = n
  /\ mode' = "set_cpu"
  /\ UNCHANGED <<cpu_ticks, cpu_ticks_max, user_ticks, killed, files>>

set_cpu_assign ==
  /\ mode = "set_cpu"
  /\ cpu_ticks_max' = rlim_max % WORD
  /\ rlim_max' = 0
  /\ mode' = "kernel"
  /\ UNCHANGED <<cpu_ticks, user_ticks, killed, files>>

get_proc_open_files == Cardinality(ofile)

\* Mutant of setrlimit_nofile: NOFILE is not looked at.
setrlimit_nofile_unchecked(n) ==
  /\ mode = "kernel"
  /\ n > get_proc_open_files
  /\ nofile_max' = n
  /\ UNCHANGED <<mode, cpu, killed, ofile>>

setrlimit_nofile(n) ==
  /\ mode = "kernel"
  /\ n <= NOFILE
  /\ n > 0
  /\ n > get_proc_open_files
  /\ nofile_max' = n
  /\ UNCHANGED <<mode, cpu, killed, ofile>>

\* fdalloc(): the lowest free descriptor below nofile_cur, which allocproc()
\* sets to NOFILE and nothing changes.
FreeFds(used) == 0..(NOFILE - 1) \ used
fdalloc(used, fd) == fd \in FreeFds(used) /\ \A g \in FreeFds(used) : fd <= g

OpenSucceeds == get_proc_open_files < nofile_max /\ FreeFds(ofile) # {}

sys_open ==
  /\ mode = "kernel"
  /\ OpenSucceeds
  /\ \E fd \in FreeFds(ofile) : fdalloc(ofile, fd) /\ ofile' = ofile \cup {fd}
  /\ UNCHANGED <<mode, cpu, killed, nofile_max>>

sys_dup ==
  /\ mode = "kernel"
  /\ ofile # {}
  /\ \E fd \in FreeFds(ofile) : fdalloc(ofile, fd) /\ ofile' = ofile \cup {fd}
  /\ UNCHANGED <<mode, cpu, killed, nofile_max>>

\* Two descriptors or none; a failure puts back what it took.
sys_pipe ==
  /\ mode = "kernel"
  /\ \E fd0, fd1 \in FreeFds(ofile) :
       /\ fdalloc(ofile, fd0) /\ fdalloc(ofile \cup {fd0}, fd1)
       /\ ofile' = ofile \cup {fd0, fd1}
  /\ UNCHANGED <<mode, cpu, killed, nofile_max>>

sys_close(fd) ==
  /\ mode = "kernel"
  /\ fd \in ofile
  /\ ofile' = ofile \ {fd}
  /\ UNCHANGED <<mode, cpu, killed, nofile_max>>

\* rlim_cur of sys_getrlimit().
rlim_cur(max, used) == IF used >= max THEN 0 ELSE max - used
getrlimit_nofile == rlim_cur(nofile_max, get_proc_open_files)
getrlimit_cpu == rlim_cur(cpu_ticks_max, cpu_ticks)

-----------------------------------------------------------------------------

Trap == user_tick \/ kernel_tick \/ kkill \/ syscall \/ return_to_user

Call ==
  \/ kfork
  \/ \E n \in CpuArgs : set_cpu_check(n)
  \/ set_cpu_assign
  \/ \E n \in FileArgs : setrlimit_nofile(n)
  \/ sys_open \/ sys_dup \/ sys_pipe
  \/ \E fd \in 0..(NOFILE - 1) : sys_close(fd)

Exited == mode = "dead" /\ UNCHANGED vars

Next == Trap \/ Call \/ Exited

Spec == Init /\ [][Next]_vars

\* A process that computes: its system calls end and return, and the timer,
\* which fires every tick, keeps finding it in user mode.
HogSpec ==
  /\ Spec
  /\ WF_vars(set_cpu_assign) /\ SF_vars(return_to_user)
  /\ SF_vars(user_tick)

-----------------------------------------------------------------------------
(* Properties                                                              *)

\* getrlimit(RLIMIT_NOFILE) reports room exactly when the next open() would
\* find it: sys_open's own test, fdalloc()'s and setrlimit's agree.
HeadroomExact == getrlimit_nofile > 0 <=> OpenSucceeds

\* A process is never charged more ticks in user mode than its limit, however
\* setrlimit() moves the limit and whatever kerneltrap() charges meanwhile.
UserTicksBounded == user_ticks <= cpu_ticks_max

\* The inductive invariant behind it: an unmarked process is below its limit,
\* and so is the new limit setrlimit() is about to store.
RlimitInv ==
  /\ TypeOK
  /\ UserTicksBounded
  /\ user_ticks <= cpu_ticks /\ cpu_ticks_max > 0
  /\ ~killed => user_ticks < cpu_ticks_max
  /\ mode = "set_cpu" => user_ticks < rlim_max % WORD

\* A process the timer keeps finding in user mode is stopped by its limit,
\* inherited or moved by setrlimit(), although kerneltrap() never checks it;
\* only a chain of children that forks for ever goes on.
HogStopped == <>[][~kfork]_vars => <>(mode = "dead")

\* What the messages of setrlimit() say: the limit is positive and below the
\* system maximum. It holds for arguments that are not negative (README,
\* "Disagreements").
CpuLimitCapped == cpu_ticks_max \in 1..MAX_CPU_TICKS
=============================================================================
