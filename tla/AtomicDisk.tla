----------------------------- MODULE AtomicDisk -----------------------------
(***************************************************************************)
(* What the logging layer (kernel/log.c) promises the rest of the file     *)
(* system: a disk whose durable contents change only by whole groups of    *)
(* file-system operations.  `volatile' is what running operations read and *)
(* write, `durable' what a machine that crashes now finds after recovery,  *)
(* `active' the operations between begin_op() and end_op().                *)
(***************************************************************************)
CONSTANTS Blocks, Vals, Procs

VARIABLES durable, volatile, active

vars == <<durable, volatile, active>>

Init ==
  /\ durable \in [Blocks -> Vals]
  /\ volatile = durable
  /\ active = {}

Begin(p) ==
  /\ p \notin active
  /\ active' = active \cup {p}
  /\ UNCHANGED <<durable, volatile>>

Write(p, b, v) ==
  /\ p \in active
  /\ volatile' = [volatile EXCEPT ![b] = v]
  /\ UNCHANGED <<durable, active>>

End(p) ==
  /\ p \in active
  /\ active' = active \ {p}
  /\ UNCHANGED <<durable, volatile>>

\* Every finished operation becomes durable at once, and only when none is
\* half done.
Commit ==
  /\ active = {}
  /\ durable' = volatile
  /\ UNCHANGED <<volatile, active>>

Crash ==
  /\ volatile' = durable
  /\ active' = {}
  /\ UNCHANGED durable

Next ==
  \/ \E p \in Procs : Begin(p) \/ End(p)
  \/ \E p \in Procs, b \in Blocks, v \in Vals : Write(p, b, v)
  \/ Commit
  \/ Crash

Spec == Init /\ [][Next]_vars
=============================================================================
