-------------------------------- MODULE Bio --------------------------------
(***************************************************************************)
(* kernel/bio.c and kernel/sleeplock.c over the disk driver.  Processes    *)
(* read blocks through the cache, change them under the buffer's           *)
(* sleep-lock, write them or hand them to the log (bpin), and release      *)
(* them.  bcache.lock and the spinlock in a sleep-lock cover one action    *)
(* each.  cur is the block content as its users last left it; nothing in   *)
(* the code reads it.                                                      *)
(***************************************************************************)
EXTENDS VirtioDisk

CONSTANTS
  MaxCalls,  \* bound: blocks read and changed in all
  MaxPins    \* bound: buffers pinned by the log at once

VARIABLES
  valid, refcnt, lock, lru,  \* struct buf, and the list from most to least recent
  pinned,  \* buffers pinned by the log
  use,     \* what the process holding a buffer did with it
  cur,
  calls

bvars == <<valid, refcnt, lock, lru, pinned, use, cur, calls>>
vars == <<dvars, bvars>>

BioTypeOK ==
  /\ DiskTypeOK
  /\ pc \in [Procs -> {"idle", "lock", "lock_sleep", "rw", "desc_sleep", "io_sleep", "io",
                       "use", "rel"}]
  /\ valid \in [Bufs -> BOOLEAN]
  /\ refcnt \in [Bufs -> Int]
  /\ lock \in [Bufs -> Procs \cup {None}]
  /\ Len(lru) = Cardinality(Bufs) /\ ToSet(lru) = Bufs
  /\ pinned \subseteq Bufs
  /\ use \in [Procs -> {"clean", "dirty", "logged", "written"}]
  /\ cur \in [Blocks -> Vals]
  /\ calls \in 0..MaxCalls

\* binit(): no buffer names a block; or a cache that has been in use.
Init ==
  /\ virtio_disk_init
  /\ \E v \in Vals : store = [k \in Blocks |-> v] /\ data = [b \in Bufs |-> v]
  /\ cur = store
  /\ \/ blockno = [b \in Bufs |-> None]
     \/ blockno \in Injection(Bufs, Blocks)
  /\ valid = [b \in Bufs |-> blockno[b] # None]
  /\ refcnt = [b \in Bufs |-> 0]
  /\ lock = [b \in Bufs |-> None]
  /\ lru = SetToSeq(Bufs)
  /\ pinned = {}
  /\ pc = [p \in Procs |-> "idle"] /\ buf = [p \in Procs |-> None]
  /\ use = [p \in Procs |-> "clean"]
  /\ calls = 0

-----------------------------------------------------------------------------
\* The buffers bget() takes for block k.
Cached(k) == {b \in Bufs : blockno[b] = k}

\* The unused buffer nearest to the old end of the list.
Victim == lru[Max({i \in DOMAIN lru : refcnt[lru[i]] = 0})]

Unused == {b \in Bufs : refcnt[b] = 0}

\* bget() finds the block.
bget_hit(p, k) ==
  \E b \in Cached(k) :
    /\ buf' = [buf EXCEPT ![p] = b]
    /\ refcnt' = [refcnt EXCEPT ![b] = @ + 1]
    /\ pc' = [pc EXCEPT ![p] = "lock"]
    /\ UNCHANGED <<blockno, valid, panic>>

\* bget() recycles the least recently used buffer, if there is one.
bget_miss(p, k) ==
  /\ Cached(k) = {}
  /\ IF Unused = {}
     THEN panic' = TRUE /\ UNCHANGED <<buf, blockno, valid, refcnt, pc>>
     ELSE LET b == Victim IN
          /\ buf' = [buf EXCEPT ![p] = b]
          /\ blockno' = [blockno EXCEPT ![b] = k]
          /\ valid' = [valid EXCEPT ![b] = FALSE]
          /\ refcnt' = [refcnt EXCEPT ![b] = 1]
          /\ pc' = [pc EXCEPT ![p] = "lock"]
          /\ UNCHANGED panic

\* What bget() counts on: its callers and the log need at most NBUF blocks
\* at once.
WithinNBUF == Cardinality(({buf[q] : q \in Procs} \cup pinned) \ {None}) < Cardinality(Bufs)

\* bread(k), up to the release of bcache.lock in bget().
bget(p, k) ==
  /\ pc[p] = "idle"
  /\ calls < MaxCalls
  /\ Cached(k) # {} \/ WithinNBUF
  /\ calls' = calls + 1
  /\ bget_hit(p, k) \/ bget_miss(p, k)
  /\ UNCHANGED <<rings, driver, device, data, disk, wr, head, lock, lru, pinned, use, cur>>

\* acquiresleep(&b->lock), then bread()'s look at b->valid under that lock.
acquiresleep(p) ==
  /\ pc[p] = "lock"
  /\ \/ /\ lock[buf[p]] # None
        /\ pc' = [pc EXCEPT ![p] = "lock_sleep"]
        /\ UNCHANGED lock
     \/ /\ lock[buf[p]] = None
        /\ lock' = [lock EXCEPT ![buf[p]] = p]
        /\ pc' = [pc EXCEPT ![p] = IF valid[buf[p]] THEN "use" ELSE "rw"]
  /\ UNCHANGED <<rings, driver, device, blockno, data, disk, buf, wr, head, panic,
                 valid, refcnt, lru, pinned, use, cur, calls>>

\* The holder changes the content.
modify(p, v) ==
  /\ pc[p] = "use" /\ use[p] = "clean"
  /\ v # data[buf[p]]
  /\ calls < MaxCalls
  /\ calls' = calls + 1
  /\ data' = [data EXCEPT ![buf[p]] = v]
  /\ cur' = [cur EXCEPT ![blockno[buf[p]]] = v]
  /\ use' = [use EXCEPT ![p] = "dirty"]
  /\ UNCHANGED <<rings, driver, device, blockno, disk, pc, buf, wr, head, panic,
                 valid, refcnt, lock, lru, pinned>>

\* bwrite(): of a changed buffer, or of one the log installs.
bwrite(p) ==
  /\ pc[p] = "use"
  /\ use[p] = "dirty" \/ (use[p] = "clean" /\ buf[p] \in pinned)
  /\ panic' = (panic \/ lock[buf[p]] # p)
  /\ wr' = [wr EXCEPT ![p] = TRUE]
  /\ pc' = [pc EXCEPT ![p] = "rw"]
  /\ UNCHANGED <<rings, driver, device, blockno, data, disk, buf, head, bvars>>

\* The return from virtio_disk_rw() into bread() or bwrite().
rw_return(p) ==
  /\ virtio_disk_rw_done(p)
  /\ \/ disk[buf[p]] /\ UNCHANGED bvars
     \/ /\ ~disk[buf[p]] /\ wr[p]
        /\ use' = [use EXCEPT ![p] = "written"]
        /\ UNCHANGED <<valid, refcnt, lock, lru, pinned, cur, calls>>
     \/ /\ ~disk[buf[p]] /\ ~wr[p]
        /\ valid' = [valid EXCEPT ![buf[p]] = TRUE]
        /\ UNCHANGED <<refcnt, lock, lru, pinned, use, cur, calls>>

\* Mutant of bpin: the log does not keep the buffer in the cache.
bpin_nothing(p) ==
  /\ pc[p] = "use" /\ use[p] = "dirty"
  /\ use' = [use EXCEPT ![p] = "logged"]
  /\ UNCHANGED <<dvars, refcnt, valid, lock, lru, pinned, cur, calls>>

\* log_write() in place of bwrite(): bpin(), once for a block.
bpin(p) ==
  /\ pc[p] = "use" /\ use[p] = "dirty"
  /\ \/ buf[p] \in pinned /\ UNCHANGED <<refcnt, pinned>>
     \/ /\ buf[p] \notin pinned
        /\ Cardinality(pinned) < MaxPins
        /\ refcnt' = [refcnt EXCEPT ![buf[p]] = @ + 1]
        /\ pinned' = pinned \cup {buf[p]}
  /\ use' = [use EXCEPT ![p] = "logged"]
  /\ UNCHANGED <<dvars, valid, lock, lru, cur, calls>>

\* bunpin() once the log has written the block home.
bunpin(p) ==
  /\ pc[p] = "use" /\ use[p] = "written" /\ buf[p] \in pinned
  /\ refcnt' = [refcnt EXCEPT ![buf[p]] = @ - 1]
  /\ pinned' = pinned \ {buf[p]}
  /\ UNCHANGED <<dvars, valid, lock, lru, use, cur, calls>>

\* wakeup(&b->lock)
WakeForLock(b) == Awakened("lock_sleep", "lock", b)

\* brelse(): the panic on a lock not held, and releasesleep().
brelse(p) ==
  /\ pc[p] = "use" /\ use[p] # "dirty" /\ (use[p] = "written" => buf[p] \notin pinned)
  /\ panic' = (panic \/ lock[buf[p]] # p)
  /\ lock' = [lock EXCEPT ![buf[p]] = None]
  /\ use' = [use EXCEPT ![p] = "clean"]
  /\ pc' = [WakeForLock(buf[p]) EXCEPT ![p] = "rel"]
  /\ UNCHANGED <<rings, driver, device, blockno, data, disk, buf, wr, head,
                 valid, refcnt, lru, pinned, cur, calls>>

\* Mutant of brelse_unref: the reference is kept.
brelse_unref_kept(p) ==
  /\ pc[p] = "rel"
  /\ lru' = <<buf[p]>> \o SelectSeq(lru, LAMBDA b : b # buf[p])
  /\ pc' = [pc EXCEPT ![p] = "idle"]
  /\ buf' = [buf EXCEPT ![p] = None]
  /\ UNCHANGED <<rings, driver, device, blockno, data, disk, wr, head, panic,
                 valid, refcnt, lock, pinned, use, cur, calls>>

\* brelse() under bcache.lock: an unreferenced buffer goes to the front.
brelse_unref(p) ==
  /\ pc[p] = "rel"
  /\ refcnt' = [refcnt EXCEPT ![buf[p]] = @ - 1]
  /\ lru' = IF refcnt[buf[p]] = 1
            THEN <<buf[p]>> \o SelectSeq(lru, LAMBDA b : b # buf[p])
            ELSE lru
  /\ pc' = [pc EXCEPT ![p] = "idle"]
  /\ buf' = [buf EXCEPT ![p] = None]
  /\ UNCHANGED <<rings, driver, device, blockno, data, disk, wr, head, panic,
                 valid, lock, pinned, use, cur, calls>>

-----------------------------------------------------------------------------
Step(p) ==
  \/ virtio_disk_rw(p) /\ UNCHANGED bvars
  \/ acquiresleep(p)
  \/ bwrite(p)
  \/ rw_return(p)
  \/ bpin(p)
  \/ bunpin(p)
  \/ brelse(p)
  \/ brelse_unref(p)

Device ==
  \/ (intr_enter \/ intr_entry \/ intr_exit) /\ UNCHANGED bvars
  \/ (\E i \in Desc : dev_done(i)) /\ UNCHANGED bvars

\* Every call has returned: what the bound on the calls leaves to do.
AllReturned == (\A p \in Procs : pc[p] = "idle") /\ UNCHANGED vars

Next ==
  \/ AllReturned
  \/ Device
  \/ \E p \in Procs :
       \/ Step(p)
       \/ kkill(p) /\ UNCHANGED bvars
       \/ \E k \in Blocks : bget(p, k)
       \/ \E v \in Vals : modify(p, v)

Spec == Init /\ [][Next]_vars

-----------------------------------------------------------------------------
Users(b) == {p \in Procs : buf[p] = b}

\* No panic of bio.c or virtio_disk.c is reached: bget() always finds a buffer,
\* no descriptor is freed twice, every completion has a good status and a
\* buffer, bwrite() and brelse() are called by the holder of the lock.
NoPanic == ~panic

\* bget() never lets two buffers stand for one block, even while the first is
\* still being read from the disk.
OneBufferPerBlock ==
  \A b, c \in Bufs : b # c /\ blockno[b] # None => blockno[b] # blockno[c]

\* A buffer the device may be reading or writing belongs to one waiting
\* process, which holds its sleep-lock and has not taken back the
\* descriptors: no completion, in whatever order, and no kill() lets the
\* buffer or the chain be used again under the device's feet.
DmaExclusive ==
  \A i \in InDevice : \E p \in Procs :
    /\ head[p] = i /\ pc[p] \in {"io_sleep", "io"}
    /\ desc[i].req # None /\ desc[i].req.b = buf[p] /\ info[i].b = buf[p]
    /\ lock[buf[p]] = p /\ disk[buf[p]]

\* Whoever holds a buffer sees the block as its last holder left it; and a
\* block whose content on disk is out of date is in a referenced buffer, which
\* bget() will not recycle.
Coherent ==
  /\ \A p \in Procs : pc[p] = "use" =>
       valid[buf[p]] /\ data[buf[p]] = cur[blockno[buf[p]]]
  /\ \A k \in Blocks : store[k] # cur[k] =>
       \E b \in Cached(k) : valid[b] /\ data[b] = cur[k] /\ refcnt[b] > 0

\* Nobody sleeps for something that has already happened: a process waiting
\* for a transfer has a request the device will complete or an interrupt will
\* report, one waiting for descriptors would not get three, one waiting for a
\* sleep-lock finds it held.
NotStranded ==
  /\ \A p \in Procs :
       /\ pc[p] = "io_sleep" => disk[buf[p]] /\ head[p] \in InDevice
       /\ pc[p] = "desc_sleep" => Cardinality(free) < 3 /\ Outstanding # {}
       /\ pc[p] = "lock_sleep" => lock[buf[p]] # None
  /\ used_idx # used_end => irq \/ vdisk_lock

\* Types; no panic of bio.c or virtio_disk.c; one buffer for a block; every
\* descriptor is free or in one request's chain; b->refcnt counts
\* the processes between bget() and brelse() and the log's pin; a process
\* that uses a buffer or waits for its transfer holds its sleep-lock.
BioInv ==
  /\ BioTypeOK /\ NoPanic /\ OneBufferPerBlock
  /\ Descriptors
  /\ \A b \in Bufs : refcnt[b] = Cardinality(Users(b)) + (IF b \in pinned THEN 1 ELSE 0)
  /\ \A p \in Procs : (pc[p] \in {"use", "rw", "desc_sleep", "io_sleep", "io"}
                       <=> buf[p] # None /\ lock[buf[p]] = p)
=============================================================================
