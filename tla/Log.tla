-------------------------------- MODULE Log ---------------------------------
(***************************************************************************)
(* The write-ahead redo log of kernel/log.c over the part of the buffer    *)
(* cache (kernel/bio.c) it depends on: cached contents, pinning and        *)
(* recycling.  One action per critical section of log.lock and one per     *)
(* disk write, so that a crash can fall between any two of them.           *)
(***************************************************************************)
EXTENDS Integers, Sequences, FiniteSets

CONSTANTS
  Blocks,       \* home blocks of the file system
  Vals,         \* contents of a block
  Procs,        \* processes making file-system calls
  LOGBLOCKS,    \* slots of the log
  MAXOPBLOCKS,  \* slots begin_op() reserves for an operation
  OpBlocks,     \* distinct blocks an operation really writes
  NotCached     \* the block is in no buffer

ASSUME LogAssumption ==
  /\ LOGBLOCKS \in Nat
  /\ MAXOPBLOCKS \in Nat \ {0} /\ MAXOPBLOCKS <= LOGBLOCKS
  /\ OpBlocks \in 0..MAXOPBLOCKS
  /\ IsFiniteSet(Procs)
  /\ NotCached \notin Vals

VARIABLES
  home,         \* disk: home location of each block
  hdr,          \* disk: block numbers in the log header
  ldata,        \* disk: log slots
  cache,        \* buffer cache: contents of the buffer of each block
  pin,          \* buffer cache: references taken by bpin()
  lh,           \* log.lh.block[0..log.lh.n-1]
  outstanding,  \* log.outstanding
  committing,   \* log.committing
  pc,           \* where each process is in begin_op()/end_op()/commit()
  tail,         \* loop index of write_log() and install_trans(0)
  wset,         \* blocks the process's current operation has log_write()n
  phase,        \* "up", or where initlog() is
  rtail,        \* loop index of install_trans(1)
  panic         \* the kernel stopped in panic()

disk == <<home, hdr, ldata>>
bcache == <<cache, pin>>
log == <<lh, outstanding, committing>>
procs == <<pc, tail, wset>>
boot == <<phase, rtail>>
vars == <<disk, bcache, log, procs, boot, panic>>

Slots == 1..LOGBLOCKS

Logged == {lh[i] : i \in 1..Len(lh)}

Active == {p \in Procs : pc[p] = "op"}

\* The data bread(b) returns: the buffer's if b is cached, else the disk's.
Content(b) == IF cache[b] = NotCached THEN home[b] ELSE cache[b]

Goto(p, l) == pc' = [pc EXCEPT ![p] = l]

Running == phase = "up" /\ ~panic

TypeOK ==
  /\ home \in [Blocks -> Vals]
  /\ hdr \in Seq(Blocks) /\ Len(hdr) \in 0..LOGBLOCKS
  /\ ldata \in [Slots -> Vals]
  /\ cache \in [Blocks -> Vals \cup {NotCached}]
  /\ pin \in [Blocks -> Int]
  /\ lh \in Seq(Blocks) /\ Len(lh) \in 0..LOGBLOCKS
  /\ outstanding \in Int
  /\ committing \in BOOLEAN
  /\ pc \in [Procs -> {"idle", "begin", "sleep", "op", "commit", "install", "end"}]
  /\ tail \in [Procs -> 0..LOGBLOCKS]
  /\ wset \in [Procs -> SUBSET Blocks]
  /\ phase \in {"read_head", "install", "up"}
  /\ rtail \in 0..LOGBLOCKS
  /\ panic \in BOOLEAN

-----------------------------------------------------------------------------
(* Memory right after a reset: initlog() is about to run.                  *)
Booted ==
  /\ cache' = [b \in Blocks |-> NotCached]
  /\ pin' = [b \in Blocks |-> 0]
  /\ lh' = <<>>
  /\ outstanding' = 0
  /\ committing' = FALSE
  /\ pc' = [p \in Procs |-> "idle"]
  /\ tail' = [p \in Procs |-> 0]
  /\ wset' = [p \in Procs |-> {}]
  /\ phase' = "read_head"
  /\ rtail' = 0
  /\ panic' = FALSE

(* A fresh image: mkfs writes zeroes over the log, its header included.    *)
Init ==
  /\ home \in [Blocks -> Vals]
  /\ hdr = <<>>
  /\ \E zero \in Vals : ldata = [i \in Slots |-> zero]
  /\ cache = [b \in Blocks |-> NotCached]
  /\ pin = [b \in Blocks |-> 0]
  /\ lh = <<>>
  /\ outstanding = 0
  /\ committing = FALSE
  /\ pc = [p \in Procs |-> "idle"]
  /\ tail = [p \in Procs |-> 0]
  /\ wset = [p \in Procs |-> {}]
  /\ phase = "read_head"
  /\ rtail = 0
  /\ panic = FALSE

-----------------------------------------------------------------------------
(* recover_from_log()                                                      *)

read_head ==
  /\ phase = "read_head" /\ ~panic
  /\ lh' = hdr
  /\ phase' = "install"
  /\ UNCHANGED <<disk, bcache, outstanding, committing, procs, rtail, panic>>

\* One iteration of install_trans(1): the destination buffer stays cached.
recover_install ==
  /\ phase = "install" /\ ~panic
  /\ rtail < Len(lh)
  /\ home' = [home EXCEPT ![lh[rtail + 1]] = ldata[rtail + 1]]
  /\ cache' = [cache EXCEPT ![lh[rtail + 1]] = ldata[rtail + 1]]
  /\ rtail' = rtail + 1
  /\ UNCHANGED <<hdr, ldata, pin, log, procs, phase, panic>>

\* log.lh.n = 0; write_head().
recover_clear ==
  /\ phase = "install" /\ ~panic
  /\ rtail = Len(lh)
  /\ lh' = <<>>
  /\ hdr' = <<>>
  /\ phase' = "up"
  /\ UNCHANGED <<home, ldata, bcache, outstanding, committing, procs, rtail, panic>>

-----------------------------------------------------------------------------
(* Operations                                                              *)

call_op(p) ==
  /\ Running
  /\ pc[p] = "idle"
  /\ Goto(p, "begin")
  /\ UNCHANGED <<disk, bcache, log, tail, wset, boot, panic>>

\* The two conditions under which begin_op() waits.
MustWait == committing \/ Len(lh) + (outstanding + 1) * MAXOPBLOCKS > LOGBLOCKS

begin_op(p) ==
  /\ Running
  /\ pc[p] = "begin"
  /\ \/ /\ MustWait
        /\ Goto(p, "sleep")
        /\ UNCHANGED <<outstanding, wset>>
     \/ /\ ~MustWait
        /\ Goto(p, "op")
        /\ outstanding' = outstanding + 1
        /\ wset' = [wset EXCEPT ![p] = {}]
  /\ UNCHANGED <<disk, bcache, lh, committing, tail, boot, panic>>

\* bread(b), a new value in b->data, log_write(b), brelse(b), under b's
\* sleep-lock.  The caller keeps to OpBlocks distinct blocks.
log_write(p, b, v) ==
  /\ Running
  /\ pc[p] = "op"
  /\ Cardinality(wset[p] \cup {b}) <= OpBlocks
  /\ cache' = [cache EXCEPT ![b] = v]
  /\ \/ /\ Len(lh) >= LOGBLOCKS \/ outstanding < 1
        /\ panic' = TRUE
        /\ UNCHANGED <<lh, pin, wset>>
     \/ /\ Len(lh) < LOGBLOCKS /\ outstanding >= 1
        /\ wset' = [wset EXCEPT ![p] = @ \cup {b}]
        /\ IF b \in Logged
           THEN UNCHANGED <<lh, pin>>
           ELSE /\ lh' = Append(lh, b)
                /\ pin' = [pin EXCEPT ![b] = @ + 1]
        /\ UNCHANGED panic
  /\ UNCHANGED <<disk, outstanding, committing, pc, tail, boot>>

\* Mutant of Woken: the wakeup is forgotten.
WokenNobody == pc

\* wakeup(&log): every sleeper will take log.lock and look again.
Woken == [q \in Procs |-> IF pc[q] = "sleep" THEN "begin" ELSE pc[q]]

\* end_op() up to its release(&log.lock).
end_op(p) ==
  /\ Running
  /\ pc[p] = "op"
  /\ outstanding' = outstanding - 1
  /\ \/ /\ committing
        /\ panic' = TRUE
        /\ UNCHANGED <<committing, pc, tail>>
     \/ /\ ~committing
        /\ outstanding' = 0
        /\ committing' = TRUE
        /\ Goto(p, "commit")
        /\ tail' = [tail EXCEPT ![p] = 0]
        /\ UNCHANGED panic
     \/ /\ ~committing
        /\ outstanding' # 0
        /\ pc' = [Woken EXCEPT ![p] = "idle"]
        /\ UNCHANGED <<committing, tail, panic>>
  /\ UNCHANGED <<disk, bcache, lh, wset, boot>>

-----------------------------------------------------------------------------
(* commit(), without log.lock: one action per disk write                   *)

\* One iteration of write_log(): cached block to log slot.
write_log(p) ==
  /\ Running
  /\ pc[p] = "commit"
  /\ tail[p] < Len(lh)
  /\ LET b == lh[tail[p] + 1] IN
       /\ ldata' = [ldata EXCEPT ![tail[p] + 1] = Content(b)]
       /\ cache' = [cache EXCEPT ![b] = Content(b)]
  /\ tail' = [tail EXCEPT ![p] = @ + 1]
  /\ UNCHANGED <<home, hdr, pin, log, pc, wset, boot, panic>>

\* Mutants of write_head: the header goes out before the log slots; nothing
\* is installed after it.
write_head_first(p) ==
  /\ Running
  /\ pc[p] = "commit"
  /\ lh # <<>>
  /\ hdr' = lh
  /\ Goto(p, "install")
  /\ tail' = [tail EXCEPT ![p] = 0]
  /\ UNCHANGED <<home, ldata, bcache, log, wset, boot, panic>>

write_head_only(p) ==
  /\ Running
  /\ pc[p] = "commit"
  /\ lh # <<>> /\ tail[p] = Len(lh)
  /\ hdr' = lh
  /\ Goto(p, "install")
  /\ UNCHANGED <<home, ldata, bcache, log, tail, wset, boot, panic>>

\* write_head(), the commit point.
write_head(p) ==
  /\ Running
  /\ pc[p] = "commit"
  /\ lh # <<>> /\ tail[p] = Len(lh)
  /\ hdr' = lh
  /\ Goto(p, "install")
  /\ tail' = [tail EXCEPT ![p] = 0]
  /\ UNCHANGED <<home, ldata, bcache, log, wset, boot, panic>>

\* One iteration of install_trans(0): log slot to home block, then bunpin().
install_trans(p) ==
  /\ Running
  /\ pc[p] = "install"
  /\ tail[p] < Len(lh)
  /\ LET b == lh[tail[p] + 1] IN
       /\ home' = [home EXCEPT ![b] = ldata[tail[p] + 1]]
       /\ cache' = [cache EXCEPT ![b] = ldata[tail[p] + 1]]
       /\ pin' = [pin EXCEPT ![b] = @ - 1]
  /\ tail' = [tail EXCEPT ![p] = @ + 1]
  /\ UNCHANGED <<hdr, ldata, log, pc, wset, boot, panic>>

\* Mutant of erase_log: the header on disk is not rewritten.
erase_log_memory(p) ==
  /\ Running
  /\ pc[p] = "install"
  /\ tail[p] = Len(lh)
  /\ lh' = <<>>
  /\ Goto(p, "end")
  /\ UNCHANGED <<disk, bcache, outstanding, committing, tail, wset, boot, panic>>

\* log.lh.n = 0; write_head(): the transaction is erased.
erase_log(p) ==
  /\ Running
  /\ pc[p] = "install"
  /\ tail[p] = Len(lh)
  /\ lh' = <<>>
  /\ hdr' = <<>>
  /\ Goto(p, "end")
  /\ UNCHANGED <<home, ldata, bcache, outstanding, committing, tail, wset, boot, panic>>

\* end_op() after commit(), which does nothing when log.lh.n is 0.
end_commit(p) ==
  /\ Running
  /\ pc[p] = "end" \/ (pc[p] = "commit" /\ lh = <<>>)
  /\ committing' = FALSE
  /\ pc' = [Woken EXCEPT ![p] = "idle"]
  /\ UNCHANGED <<disk, bcache, lh, outstanding, tail, wset, boot, panic>>

-----------------------------------------------------------------------------
(* The buffer cache                                                        *)

\* bread(b), brelse(b) by any reader, in or out of an operation.
bread(b) ==
  /\ Running
  /\ cache[b] = NotCached
  /\ cache' = [cache EXCEPT ![b] = home[b]]
  /\ UNCHANGED <<disk, pin, log, procs, boot, panic>>

\* bget() recycles an unreferenced buffer without writing it.
recycle(b) ==
  /\ ~panic
  /\ cache[b] # NotCached
  /\ pin[b] = 0
  /\ cache' = [cache EXCEPT ![b] = NotCached]
  /\ UNCHANGED <<disk, pin, log, procs, boot, panic>>

-----------------------------------------------------------------------------
(* Power loss.  A block being written may be left with any contents; the   *)
(* header fits in one sector, whose write is atomic.                       *)

TornHome ==
  {lh[tail[p] + 1] : p \in {q \in Procs : pc[q] = "install" /\ tail[q] < Len(lh)}}
    \cup {lh[rtail + 1] : i \in {j \in {rtail} : phase = "install" /\ j < Len(lh)}}

TornSlot == {tail[p] + 1 : p \in {q \in Procs : pc[q] = "commit" /\ tail[q] < Len(lh)}}

crash ==
  /\ Booted
  /\ \/ UNCHANGED <<home, ldata>>
     \/ \E b \in TornHome, v \in Vals :
          home' = [home EXCEPT ![b] = v] /\ UNCHANGED ldata
     \/ \E i \in TornSlot, v \in Vals :
          ldata' = [ldata EXCEPT ![i] = v] /\ UNCHANGED home
  /\ UNCHANGED hdr

-----------------------------------------------------------------------------

Step(p) ==
  \/ begin_op(p) \/ end_op(p)
  \/ write_log(p) \/ write_head(p) \/ install_trans(p) \/ erase_log(p) \/ end_commit(p)

Recover == read_head \/ recover_install \/ recover_clear

Next ==
  \/ Recover
  \/ \E p \in Procs : call_op(p) \/ Step(p)
  \/ \E p \in Procs, b \in Blocks, v \in Vals : log_write(p, b, v)
  \/ \E b \in Blocks : bread(b) \/ recycle(b)
  \/ crash

Spec == Init /\ [][Next]_vars

\* A process inside the log keeps running; the scheduler is round-robin and
\* the disk answers.  Whether a process starts an operation, or writes in
\* one, is up to it.
Fairness == WF_vars(Recover) /\ \A p \in Procs : WF_vars(Step(p))

FairSpec == Spec /\ Fairness

-----------------------------------------------------------------------------
(* Properties                                                              *)

\* begin_op() admits an operation only if the log has room for what every
\* admitted operation may still write, and log_write() and end_op() are only
\* called in between: none of the three panics of log.c is reached.
NoPanic == ~panic

\* The slots admitted operations may still fill, one pair for each.
Reserved == {r \in Procs \X (1..MAXOPBLOCKS) :
               pc[r[1]] = "op" /\ r[2] > Cardinality(wset[r[1]])}

\* log.outstanding counts the running operations, and the blocks already in
\* the log plus the ones they may still add fit in it.
LogSpace ==
  /\ outstanding = Cardinality(Active)
  /\ Len(lh) + Cardinality(Reserved) <= LOGBLOCKS

\* The blocks the committer has yet to install (all of log.lh before that).
Pending ==
  {lh[i] : i \in {j \in 1..Len(lh) :
                    \A p \in Procs : pc[p] = "install" => j > tail[p]}}

\* log_write() pins a block once per transaction and install_trans() unpins
\* it once, and a buffer bget() may recycle holds nothing the disk does not.
PinnedWhilePending ==
  phase = "up" =>
    \A b \in Blocks : /\ pin[b] = IF b \in Pending THEN 1 ELSE 0
                      /\ pin[b] = 0 => Content(b) = home[b]
                      /\ pin[b] > 0 => cache[b] # NotCached

\* At most one process commits, and only while no operation runs: the comment
\* that "the logging system only commits when there are no FS system calls
\* active".
Committers == {p \in Procs : pc[p] \in {"commit", "install", "end"}}
CommitAlone ==
  /\ committing <=> Committers # {}
  /\ \A p \in Committers : Active = {} /\ Committers = {p}

\* Nobody sleeps on &log in begin_op() unless a running operation or commit
\* is still going to call wakeup(&log).
NoLostWakeup ==
  (\E p \in Procs : pc[p] = "sleep") => outstanding > 0 \/ committing

\* What recovery would leave on the disk if the machine crashed now.
Durable ==
  [b \in Blocks |-> IF \E i \in 1..Len(hdr) : hdr[i] = b
                    THEN ldata[CHOOSE i \in 1..Len(hdr) : hdr[i] = b]
                    ELSE home[b]]

\* What readers see: the cache, once recovery is over.
Volatile ==
  [b \in Blocks |-> IF phase = "up" THEN Content(b) ELSE Durable[b]]

\* When the end_op() that committed is about to return, everything operations
\* have written is durable.
DurableOnReturn ==
  \A p \in Procs : pc[p] = "end" => Durable = Volatile

-----------------------------------------------------------------------------
(* The inductive invariant behind the properties above.                    *)

Injective(s) == \A i, j \in 1..Len(s) : s[i] = s[j] => i = j

\* The operations' write sets are in the log and within their budget.
WriteSets ==
  \A p \in Procs : /\ IsFiniteSet(wset[p])
                   /\ Cardinality(wset[p]) <= OpBlocks
                   /\ pc[p] = "op" => wset[p] \subseteq Logged

\* Blocks wait in the log only for a running operation or for a commit.
LogOwned ==
  phase = "up" /\ lh # <<>> => Active # {} \/ \E p \in Committers : pc[p] # "end"

\* Before recovery is over no process is in an operation,
BootIdle ==
  phase # "up" => outstanding = 0 /\ \A p \in Procs : pc[p] = "idle"

\* ... and no buffer is dirty.
BootClean ==
  phase # "up" => \A b \in Blocks : Content(b) = home[b]

\* The header on disk names the blocks of the log exactly between the commit
\* point and the erasure.
HeaderValid ==
  /\ Injective(lh) /\ Injective(hdr)
  /\ phase = "install" => /\ lh = hdr
                          /\ rtail <= Len(lh)
                          /\ \A i \in 1..rtail : home[lh[i]] = ldata[i]
  /\ phase = "read_head" => rtail = 0
  /\ phase = "up" => hdr = IF \E p \in Procs : pc[p] = "install" THEN lh ELSE <<>>

\* How far write_log() and install_trans() have come.
CopiedSoFar ==
  \A p \in Procs :
    /\ pc[p] = "commit" => /\ tail[p] <= Len(lh)
                           /\ \A i \in 1..tail[p] : ldata[i] = cache[lh[i]]
    /\ pc[p] = "install" => /\ tail[p] <= Len(lh)
                            /\ \A i \in 1..Len(lh) : ldata[i] = Content(lh[i])
                            /\ \A i \in 1..tail[p] : home[lh[i]] = ldata[i]

Control == CommitAlone /\ BootIdle /\ LogOwned /\ WriteSets /\ LogSpace /\ NoLostWakeup

Data == BootClean /\ HeaderValid /\ PinnedWhilePending /\ CopiedSoFar

\* Types; no panic of log.c; who commits, who is admitted, who sleeps; and what
\* is on disk at each step of commit() and of recovery.
LogInv == TypeOK /\ NoPanic /\ Control /\ Data

-----------------------------------------------------------------------------
(* Refinement                                                              *)

AD == INSTANCE AtomicDisk
        WITH durable <- Durable, volatile <- Volatile, active <- Active

\* log.c implements AtomicDisk: through commits, crashes at any disk write and
\* crashes during recovery, what recovery restores is always the state after
\* a whole group of finished operations.
ImplementsAtomicDisk == AD!Spec

\* A begin_op() that went to sleep is woken. (Under FairSpec; the README gives
\* the instance. NoLostWakeup is the safety part of it.)
SleeperWoken == \A p \in Procs : pc[p] = "sleep" ~> pc[p] # "sleep"
=============================================================================
