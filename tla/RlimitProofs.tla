---------------------------- MODULE RlimitProofs ----------------------------
(* The limits of Rlimit, proved for every system limit and every argument. *)
EXTENDS Rlimit, FiniteSetTheorems, TLAPS

\* The timer interrupt in user mode is the one step that brings user_ticks
\* closer to the limit.
LEMMA UserTickBounded == ASSUME RlimitInv, user_tick PROVE RlimitInv'
<1> USE RlimitAssumption DEF RlimitInv, TypeOK, UserTicksBounded
<1>1. CASE killed
  BY <1>1 DEF user_tick, cpu, files
<1>2. CASE ~killed
  <2>1. /\ mode = "user" /\ mode' = mode
        /\ cpu_ticks' = cpu_ticks + 1 /\ user_ticks' = user_ticks + 1
        /\ UNCHANGED <<rlim_max, cpu_ticks_max, ofile, nofile_max>>
    BY <1>2 DEF user_tick, files
  <2>2. killed' = (cpu_ticks_max > 0 /\ cpu_ticks' >= cpu_ticks_max)
    BY <1>2 DEF user_tick
  <2>3. ~killed' => ~(cpu_ticks_max > 0 /\ cpu_ticks' >= cpu_ticks_max)
    BY ONLY <2>2
  <2>4. killed' \in BOOLEAN
    <3>1. CASE cpu_ticks_max > 0 /\ cpu_ticks' >= cpu_ticks_max
      <4>1. killed' = TRUE
        BY ONLY <2>2, <3>1
      <4> QED
        BY ONLY <4>1
    <3>2. CASE ~(cpu_ticks_max > 0 /\ cpu_ticks' >= cpu_ticks_max)
      <4>1. killed' = FALSE
        BY ONLY <2>2, <3>2
      <4> QED
        BY ONLY <4>1
    <3> QED
      BY ONLY <3>1, <3>2
  <2>5. UserTicksBounded' /\ (user_ticks <= cpu_ticks)'
    BY <1>2, <2>1
  <2>6. (~killed => user_ticks < cpu_ticks_max)'
    BY <1>2, <2>1, <2>3
  <2> QED
    BY <2>1, <2>5, <2>6, <2>4
<1> QED
  BY <1>1, <1>2

\* setrlimit(RLIMIT_CPU): the value stored was above every tick charged when
\* it was checked, and no user-mode tick comes before the assignment.
LEMMA SetCpuBounded ==
  ASSUME RlimitInv, (\E n \in CpuArgs : set_cpu_check(n)) \/ set_cpu_assign
  PROVE  RlimitInv'
<1> USE RlimitAssumption DEF RlimitInv, TypeOK, UserTicksBounded
<1>1. ASSUME NEW n \in CpuArgs, set_cpu_check(n) PROVE RlimitInv'
  BY <1>1 DEF set_cpu_check, files
<1>2. CASE set_cpu_assign
  <2>1. rlim_max \in Int /\ rlim_max % WORD \in 0..(WORD - 1)
    OBVIOUS
  <2> QED
    BY <1>2, <2>1 DEF set_cpu_assign, files
<1> QED
  BY <1>1, <1>2

\* The calls on descriptors leave the CPU fields alone.
LEMMA FilesBounded ==
  ASSUME RlimitInv,
         \/ \E n \in FileArgs : setrlimit_nofile(n)
         \/ sys_open \/ sys_dup \/ sys_pipe
         \/ \E fd \in 0..(NOFILE - 1) : sys_close(fd)
  PROVE  RlimitInv'
<1> USE RlimitAssumption DEF RlimitInv, TypeOK, UserTicksBounded
<1>1. UNCHANGED <<mode, cpu, killed>>
  BY DEF setrlimit_nofile, sys_open, sys_dup, sys_pipe, sys_close
<1>2. nofile_max' \in 1..NOFILE
  BY DEF setrlimit_nofile, sys_open, sys_dup, sys_pipe, sys_close
<1>3. ofile' \subseteq 0..(NOFILE - 1)
  BY DEF setrlimit_nofile, sys_open, sys_dup, sys_pipe, sys_close, FreeFds
<1> QED
  BY <1>1, <1>2, <1>3 DEF cpu

\* The inductive invariant holds at the start: no tick is counted yet.
LEMMA InitBounded == Init => RlimitInv
<1> SUFFICES ASSUME Init PROVE RlimitInv
  OBVIOUS
<1>1. killed \in BOOLEAN /\ ofile \subseteq 0..(NOFILE - 1)
  BY DEF Init
<1>2. nofile_max \in 1..NOFILE
  BY RlimitAssumption DEF Init
<1>3. cpu_ticks_max \in 0..(WORD - 1) /\ cpu_ticks_max > 0
  BY RlimitAssumption DEF Init
<1> QED
  BY <1>1, <1>2, <1>3 DEF Init, RlimitInv, TypeOK, UserTicksBounded

\* Every trap and every system call keeps it.
LEMMA NextBounded == RlimitInv /\ [Next]_vars => RlimitInv'
<1> SUFFICES ASSUME RlimitInv, [Next]_vars PROVE RlimitInv'
  OBVIOUS
<1>1. CASE user_tick
  BY <1>1, UserTickBounded
<1>2. CASE kernel_tick
  BY <1>2, RlimitAssumption DEF kernel_tick, files, RlimitInv, TypeOK, UserTicksBounded
<1>3. CASE kkill \/ syscall \/ return_to_user
  BY <1>3 DEF kkill, syscall, return_to_user, cpu, files, RlimitInv, TypeOK, UserTicksBounded
<1>4. CASE (\E n \in CpuArgs : set_cpu_check(n)) \/ set_cpu_assign
  BY <1>4, SetCpuBounded
<1>5. CASE \/ \E n \in FileArgs : setrlimit_nofile(n)
           \/ sys_open \/ sys_dup \/ sys_pipe
           \/ \E fd \in 0..(NOFILE - 1) : sys_close(fd)
  BY <1>5, FilesBounded
<1>6. CASE kfork
  <2>1. killed' \in BOOLEAN
    BY <1>6 DEF kfork
  <2>2. cpu_ticks_max' \in 0..(WORD - 1) /\ cpu_ticks_max' > 0
    BY <1>6 DEF kfork, RlimitInv, TypeOK
  <2>3. user_ticks' = 0 /\ cpu_ticks' = 0 /\ mode' = "user"
    BY <1>6 DEF kfork
  <2>4. UNCHANGED <<rlim_max, ofile, nofile_max>>
    BY <1>6 DEF kfork, files
  <2> QED
    BY <2>1, <2>2, <2>3, <2>4, RlimitAssumption DEF RlimitInv, TypeOK, UserTicksBounded
<1>7. CASE Exited \/ UNCHANGED vars
  BY <1>7 DEF Exited, vars, cpu, files, RlimitInv, TypeOK, UserTicksBounded
<1> QED
  BY <1>1, <1>2, <1>3, <1>4, <1>5, <1>6, <1>7 DEF Next, Trap, Call

\* The type invariant of the limits of kernel/sysproc.c and kernel/sysfile.c.
THEOREM TypeCorrect == Spec => []TypeOK
<1>1. RlimitInv => TypeOK
  BY DEF RlimitInv
<1> QED
  BY <1>1, InitBounded, NextBounded, PTL DEF Spec

\* While fewer descriptors are in use than nofile_max, which is at most NOFILE,
\* fdalloc() finds a free one; so getrlimit() reports room exactly when open()
\* has it.
THEOREM HeadroomReported == Spec => []HeadroomExact
<1>1. TypeOK => HeadroomExact
  <2> SUFFICES ASSUME TypeOK PROVE HeadroomExact
    OBVIOUS
  <2>1. IsFiniteSet(0..(NOFILE - 1)) /\ Cardinality(0..(NOFILE - 1)) = NOFILE
    BY RlimitAssumption, FS_Interval
  <2>2. IsFiniteSet(ofile) /\ Cardinality(ofile) \in Nat
    BY <2>1, FS_Subset, FS_CardinalityType DEF TypeOK
  <2>3. FreeFds(ofile) = {} => Cardinality(ofile) = NOFILE
    <3>1. FreeFds(ofile) = {} => ofile = 0..(NOFILE - 1)
      BY DEF FreeFds, TypeOK
    <3> QED
      BY <3>1, <2>1
  <2>4. nofile_max \in 1..NOFILE
    BY DEF TypeOK
  <2>5. getrlimit_nofile > 0 <=> Cardinality(ofile) < nofile_max
    BY <2>2, <2>4, RlimitAssumption DEF getrlimit_nofile, rlim_cur, get_proc_open_files
  <2> QED
    BY <2>2, <2>3, <2>4, <2>5, RlimitAssumption
       DEF HeadroomExact, OpenSucceeds, get_proc_open_files
<1> QED
  BY <1>1, TypeCorrect, PTL

\* However setrlimit() and kernel-mode ticks interleave, usertrap() never
\* charges a process more user-mode ticks than its limit.
THEOREM CpuLimitHolds == Spec => []UserTicksBounded
<1>1. RlimitInv => UserTicksBounded
  BY DEF RlimitInv
<1> QED
  BY <1>1, InitBounded, NextBounded, PTL DEF Spec
=============================================================================
