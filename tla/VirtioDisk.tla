----------------------------- MODULE VirtioDisk -----------------------------
(***************************************************************************)
(* kernel/virtio_disk.c and the virtio block device behind it.  A process  *)
(* in virtio_disk_rw() holds vdisk_lock from its entry or its wakeup to    *)
(* its sleep() or return, so each of these stretches is one action; the    *)
(* interrupt handler holds the lock over several actions, because the      *)
(* device goes on writing the used ring while the handler reads it.  The   *)
(* device completes the requests of the avail ring in any order.           *)
(***************************************************************************)
EXTENDS Integers, FiniteSets, SequencesExt

CONSTANTS
  Procs, Bufs, Blocks, Vals,
  NUM,     \* descriptors, and entries of each ring
  RING,    \* 2^16: the range of the ring indices
  None     \* no descriptor, no buffer, no request

ASSUME VirtioAssumption ==
  /\ NUM \in Nat /\ NUM >= 3
  /\ RING \in Nat /\ RING >= NUM /\ RING % NUM = 0

VARIABLES
  free,       \* disk.free[]: the free descriptors
  desc,       \* descriptor table: chain link, and the request at a chain head
  info,       \* disk.info[]: buffer and status byte, by chain head
  avail, avail_idx,           \* avail ring and avail->idx
  used, used_end, used_idx,   \* used ring, used->idx, disk.used_idx
  vdisk_lock, \* the interrupt handler holds vdisk_lock
  irq,        \* device: an interrupt is pending
  store,      \* device: content of the blocks
  blockno, data, disk,  \* struct buf
  pc, buf, wr, head,    \* of a process: place, b, write, idx[0]
  panic

rings == <<avail, avail_idx, used, used_end, used_idx>>
driver == <<free, desc, info, vdisk_lock>>
device == <<irq, store>>
dvars == <<rings, driver, device, blockno, data, disk, pc, buf, wr, head, panic>>

Desc == 0..(NUM - 1)
Request == [sector: Blocks, b: Bufs, write: BOOLEAN]
NoDesc == [next |-> None, req |-> None]

DiskTypeOK ==
  /\ free \subseteq Desc
  /\ desc \in [Desc -> [next: Desc \cup {None}, req: Request \cup {None}]]
  /\ info \in [Desc -> [b: Bufs \cup {None}, status: {0, 255}]]
  /\ avail \in [Desc -> Desc \cup {None}] /\ used \in [Desc -> Desc \cup {None}]
  /\ {avail_idx, used_end, used_idx} \subseteq 0..(RING - 1)
  /\ {vdisk_lock, irq, panic} \subseteq BOOLEAN
  /\ store \in [Blocks -> Vals] /\ data \in [Bufs -> Vals]
  /\ blockno \in [Bufs -> Blocks \cup {None}]
  /\ disk \in [Bufs -> BOOLEAN]
  /\ buf \in [Procs -> Bufs \cup {None}]
  /\ wr \in [Procs -> BOOLEAN]
  /\ head \in [Procs -> Desc \cup {None}]

\* virtio_disk_init(): every descriptor free.  The rings have gone round some
\* number of times before, so that the indices are about to wrap.
virtio_disk_init ==
  /\ free = Desc
  /\ desc = [i \in Desc |-> NoDesc]
  /\ info = [i \in Desc |-> [b |-> None, status |-> 0]]
  /\ avail = [i \in Desc |-> None] /\ used = [i \in Desc |-> None]
  /\ avail_idx = RING - 1 /\ used_end = RING - 1 /\ used_idx = RING - 1
  /\ vdisk_lock = FALSE /\ irq = FALSE
  /\ disk = [b \in Bufs |-> FALSE]
  /\ wr = [p \in Procs |-> FALSE] /\ head = [p \in Procs |-> None]
  /\ panic = FALSE

-----------------------------------------------------------------------------
\* wakeup(chan): the processes asleep at s that wait for b, if b is given.
Awakened(s, t, b) ==
  [q \in Procs |-> IF pc[q] = s /\ (b = None \/ buf[q] = b) THEN t ELSE pc[q]]

\* Mutant of WakeForDesc: free_desc() without its wakeup().
WakeForDescForgotten == pc

\* wakeup(&disk.free[0])
WakeForDesc == Awakened("desc_sleep", "rw", None)

\* wakeup(b)
WakeForBuf(b) == Awakened("io_sleep", "io", b)

\* alloc_desc() three times: the lowest-numbered free descriptors.
alloc3_desc ==
  LET i == Min(free)
      j == Min(free \ {i})
  IN  <<i, j, Min(free \ {i, j})>>

\* The descriptors free_chain() follows from i.
Chain(i) ==
  LET follow[n \in 1..NUM, j \in Desc] ==
        IF n = 1 \/ desc[j].next = None THEN {j} ELSE {j} \cup follow[n - 1, desc[j].next]
  IN  follow[NUM, i]

\* The chain of three, queued for the device; then sleep(b, &vdisk_lock).
Submit(p) ==
  LET i == alloc3_desc
      b == buf[p]
      r == [sector |-> blockno[b], b |-> b, write |-> wr[p]]
  IN
  /\ free' = free \ {i[1], i[2], i[3]}
  /\ desc' = [desc EXCEPT ![i[1]] = [next |-> i[2], req |-> r],
                          ![i[2]] = [next |-> i[3], req |-> None],
                          ![i[3]] = NoDesc]
  /\ info' = [info EXCEPT ![i[1]] = [b |-> b, status |-> 255]]
  /\ disk' = [disk EXCEPT ![b] = TRUE]
  /\ avail' = [avail EXCEPT ![avail_idx % NUM] = i[1]]
  /\ avail_idx' = (avail_idx + 1) % RING
  /\ head' = [head EXCEPT ![p] = i[1]]
  /\ pc' = [pc EXCEPT ![p] = "io_sleep"]

\* virtio_disk_rw() up to its first sleep().  An alloc3_desc() that gets one
\* or two descriptors gives them back, and free_desc() wakes the waiters.
virtio_disk_rw(p) ==
  /\ pc[p] = "rw"
  /\ ~vdisk_lock
  /\ \/ /\ Cardinality(free) >= 3
        /\ Submit(p)
     \/ /\ Cardinality(free) < 3
        /\ pc' = [(IF free = {} THEN pc ELSE WakeForDesc) EXCEPT ![p] = "desc_sleep"]
        /\ UNCHANGED <<free, desc, info, disk, avail, avail_idx, head>>
  /\ UNCHANGED <<used, used_end, used_idx, vdisk_lock, device, blockno, data, buf, wr, panic>>

\* free_chain(idx[0]); free_desc() panics on a descriptor that is free.
free_chain(p) ==
  /\ panic' = (panic \/ Chain(head[p]) \cap free # {})
  /\ free' = free \cup Chain(head[p])
  /\ desc' = [i \in Desc |-> IF i \in Chain(head[p]) THEN NoDesc ELSE desc[i]]

\* Mutant of virtio_disk_rw_done: a process that wakes up does not look at
\* b->disk again.
virtio_disk_rw_once(p) ==
  /\ pc[p] = "io"
  /\ ~vdisk_lock
  /\ info' = [info EXCEPT ![head[p]].b = None]
  /\ free_chain(p)
  /\ pc' = [WakeForDesc EXCEPT ![p] = "use"]
  /\ wr' = [wr EXCEPT ![p] = FALSE]
  /\ head' = [head EXCEPT ![p] = None]
  /\ UNCHANGED <<rings, vdisk_lock, device, blockno, data, disk, buf>>

\* virtio_disk_rw() from a wakeup on b to its next sleep() or its return.
virtio_disk_rw_done(p) ==
  /\ pc[p] = "io"
  /\ ~vdisk_lock
  /\ \/ /\ disk[buf[p]]
        /\ pc' = [pc EXCEPT ![p] = "io_sleep"]
        /\ UNCHANGED <<info, free, desc, wr, head, panic>>
     \/ /\ ~disk[buf[p]]
        /\ info' = [info EXCEPT ![head[p]].b = None]
        /\ free_chain(p)
        /\ pc' = [WakeForDesc EXCEPT ![p] = "use"]
        /\ wr' = [wr EXCEPT ![p] = FALSE]
        /\ head' = [head EXCEPT ![p] = None]
  /\ UNCHANGED <<rings, vdisk_lock, device, blockno, data, disk, buf>>

-----------------------------------------------------------------------------
(* virtio_disk_intr()                                                      *)

\* acquire(&disk.vdisk_lock) and the acknowledgement.
intr_enter ==
  /\ irq /\ ~vdisk_lock
  /\ vdisk_lock' = TRUE
  /\ irq' = FALSE
  /\ UNCHANGED <<rings, free, desc, info, store, blockno, data, disk,
                 pc, buf, wr, head, panic>>

\* One used entry: it panics on a bad status, and would fault on a null b.
intr_entry ==
  /\ vdisk_lock
  /\ used_idx # used_end
  /\ LET id == used[used_idx % NUM]
         b == info[id].b
     IN  /\ panic' = (panic \/ info[id].status # 0 \/ b = None)
         /\ disk' = [x \in Bufs |-> disk[x] /\ x # b]
         /\ pc' = WakeForBuf(b)
  /\ used' = [used EXCEPT ![used_idx % NUM] = None]
  /\ used_idx' = (used_idx + 1) % RING
  /\ UNCHANGED <<avail, avail_idx, used_end, driver, device, blockno, data, buf, wr, head>>

\* The used ring is empty; release(&disk.vdisk_lock).
intr_exit ==
  /\ vdisk_lock
  /\ used_idx = used_end
  /\ vdisk_lock' = FALSE
  /\ UNCHANGED <<rings, free, desc, info, device, blockno, data, disk, pc, buf, wr, head, panic>>

-----------------------------------------------------------------------------
(* The device.  A ring entry that has been dealt with is dead, and reset.  *)

\* The transfer, the status byte, the used entry and the interrupt.
dev_done(i) ==
  /\ \E k \in Desc : avail[k] = i
  /\ avail' = [j \in Desc |-> IF avail[j] = i THEN None ELSE avail[j]]
  /\ LET r == desc[i].req IN
       /\ store' = [k \in Blocks |->
                      IF r # None /\ r.write /\ k = r.sector THEN data[r.b] ELSE store[k]]
       /\ data' = [b \in Bufs |->
                      IF r # None /\ ~r.write /\ b = r.b THEN store[r.sector] ELSE data[b]]
  /\ info' = [info EXCEPT ![i].status = 0]
  /\ used' = [used EXCEPT ![used_end % NUM] = i]
  /\ used_end' = (used_end + 1) % RING
  /\ irq' = TRUE
  /\ UNCHANGED <<avail_idx, used_idx, free, desc, vdisk_lock, blockno,
                 disk, pc, buf, wr, head, panic>>

\* kill(): a sleeper is made runnable whatever it waits for.
kkill(p) ==
  /\ pc[p] \in {"desc_sleep", "io_sleep", "lock_sleep"}
  /\ pc' = [pc EXCEPT ![p] = CASE @ = "desc_sleep" -> "rw"
                               [] @ = "io_sleep" -> "io"
                               [] @ = "lock_sleep" -> "lock"]
  /\ UNCHANGED <<rings, driver, device, blockno, data, disk, buf, wr, head, panic>>

-----------------------------------------------------------------------------
\* Processes whose request is queued, and the chain heads the device has
\* not taken off the avail ring or the handler has not taken off the used ring.
Outstanding == {p \in Procs : head[p] # None}
InDevice == ({avail[i] : i \in Desc} \cup {used[i] : i \in Desc}) \ {None}

\* A descriptor is free, or in the chain of exactly one process; chains have
\* three descriptors.
Descriptors ==
  /\ \A p \in Outstanding : Cardinality(Chain(head[p])) = 3
  /\ \A p, q \in Outstanding : p # q => Chain(head[p]) \cap Chain(head[q]) = {}
  /\ free = Desc \ UNION {Chain(head[p]) : p \in Outstanding}
=============================================================================
