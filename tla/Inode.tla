------------------------------- MODULE Inode --------------------------------
(***************************************************************************)
(* The inodes of kernel/fs.c under the calls of kernel/sysfile.c that      *)
(* name, open and remove files: reference counts, link counts, sleep-locks *)
(* and directory entries, on a disk whose changes the log commits together.*)
(*                                                                         *)
(* A path starts at the root or at the current directory and is walked     *)
(* element by element.  Work done under one inode lock is one step; taking *)
(* a second lock, dropping a reference, and the end of the call are steps  *)
(* of their own.  iget() keeps at most one table entry per inode number,   *)
(* so the table is indexed by inode number; an entry with no reference is  *)
(* recycled, so it is no longer valid.  What is in an ordinary file, and   *)
(* blocks, are left out: dirlink() and file allocation may fail at will.   *)
(* T_DEVICE counts as T_FILE: mknod() is a creat whose open is refused.    *)
(***************************************************************************)
EXTENDS Integers, Sequences, FiniteSets

CONSTANTS
  Procs,
  Inums,       \* inode numbers
  ROOTINO,
  Names,       \* names of files; "." and ".." are not among them
  MaxCalls,    \* a bound: how many calls begin
  Null         \* no inode (inum 0, type 0), no holder of a lock

ASSUME InodeAssumption ==
  /\ ROOTINO \in Inums /\ Null \notin Inums /\ Null \notin Procs
  /\ IsFiniteSet(Procs) /\ IsFiniteSet(Inums) /\ IsFiniteSet(Names) /\ MaxCalls \in Nat

VARIABLES
  disk,          \* dinodes and directories as the file system's calls see them
  durable,       \* what a crash leaves of them
  ref, valid,    \* the inode table: ip->ref, and the inodes with ip->valid
  lock,          \* the holder of ip->lock
  cwd, file,     \* p->cwd, and the inode of the one file a process may open
  pc, op, name,  \* where each process is, in which call, at which path element
  dp, ip,        \* its variables of that name
  todo,          \* the iput()s it is about to do
  putting,       \* how far it is in the first of them
  begun,         \* how many calls began
  phase,         \* "reclaim" while fsinit() runs ireclaim(), then "up"
  strayed        \* history: a call has gone on in a directory that was removed

table == <<ref, valid, lock>>
call == <<pc, op, name, dp, ip, todo>>
vars == <<disk, durable, table, cwd, file, call, putting, begun, phase, strayed>>

NoEntries == [n \in Names |-> Null]
PathNames == Names \cup {".."}

Disks ==
  [type : [Inums -> {"FILE", "DIR", Null}], nlink : [Inums -> Int],
   dents : [Inums -> [Names -> Inums \cup {Null}]],
   dotdot : [Inums -> Inums \cup {Null}]]

\* The image mkfs makes: a root directory with the files of f, each under one
\* name of it.
mkfs(f) ==
  LET files == {f[n] : n \in Names} \ {Null} IN
  [type |-> [i \in Inums |-> IF i = ROOTINO THEN "DIR"
                             ELSE IF i \in files THEN "FILE" ELSE Null],
   nlink |-> [i \in Inums |-> IF i \in files \cup {ROOTINO} THEN 1 ELSE 0],
   dents |-> [i \in Inums |-> IF i = ROOTINO THEN f ELSE NoEntries],
   dotdot |-> [i \in Inums |-> IF i = ROOTINO THEN ROOTINO ELSE Null]]

\* What mkdir() makes of an empty image: b, named n, in a, named m.
nested(a, m, b, n) ==
  [type |-> [i \in Inums |-> IF i \in {ROOTINO, a, b} THEN "DIR" ELSE Null],
   nlink |-> [i \in Inums |-> IF i \in {ROOTINO, a} THEN 2 ELSE IF i = b THEN 1 ELSE 0],
   dents |-> [i \in Inums |-> IF i = ROOTINO THEN [NoEntries EXCEPT ![m] = a]
                              ELSE IF i = a THEN [NoEntries EXCEPT ![n] = b] ELSE NoEntries],
   dotdot |-> [i \in Inums |-> IF i \in {ROOTINO, a} THEN ROOTINO
                               ELSE IF i = b THEN a ELSE Null]]

Flat ==
  {f \in [Names -> (Inums \ {ROOTINO}) \cup {Null}] :
     \A m, n \in Names : m # n /\ f[m] # Null => f[m] # f[n]}
Chains ==
  {x \in (Inums \ {ROOTINO}) \X Names \X (Inums \ {ROOTINO}) \X Names : x[1] # x[3]}
Images == {mkfs(f) : f \in Flat} \cup {nested(x[1], x[2], x[3], x[4]) : x \in Chains}

\* The memory of a machine that has just booted; every process starts in "/".
Memory ==
  [ref |-> [i \in Inums |-> IF i = ROOTINO THEN Cardinality(Procs) ELSE 0],
   lock |-> [i \in Inums |-> Null],
   cwd |-> [p \in Procs |-> ROOTINO], none |-> [p \in Procs |-> Null],
   pc |-> [p \in Procs |-> "idle"], op |-> [p \in Procs |-> "close"],
   name |-> [p \in Procs |-> ".."], todo |-> [p \in Procs |-> <<>>],
   putting |-> [p \in Procs |-> "test"]]

Init ==
  /\ disk \in Images /\ durable = disk /\ phase = "reclaim" /\ begun = 0
  /\ ref = Memory.ref /\ valid = {} /\ lock = Memory.lock
  /\ cwd = Memory.cwd /\ file = Memory.none
  /\ pc = Memory.pc /\ op = Memory.op /\ name = Memory.name
  /\ dp = Memory.none /\ ip = Memory.none /\ todo = Memory.todo
  /\ putting = Memory.putting
  /\ strayed = FALSE

-----------------------------------------------------------------------------
(* Locks, references and places                                            *)

\* The call of p is at l and has done its iput()s.
At(p, l) == pc[p] = l /\ todo[p] = <<>>

\* p goes on at l, in call o with locals n, d and i, after the iput()s of s.
Go(p, l, o, n, d, i, s) ==
  /\ pc' = [pc EXCEPT ![p] = l] /\ op' = [op EXCEPT ![p] = o]
  /\ name' = [name EXCEPT ![p] = n]
  /\ dp' = [dp EXCEPT ![p] = d] /\ ip' = [ip EXCEPT ![p] = i]
  /\ todo' = [todo EXCEPT ![p] = s]

Then(p, l, d, i, s) == Go(p, l, op[p], name[p], d, i, s)

\* The call is done but for the iput()s of s and end_op().
Finish(p, s) == Go(p, "end", "close", "..", Null, Null, s)

\* iget() of the inode with number i; idup() is the case of a known one.
iget(i) == ref' = [ref EXCEPT ![i] = @ + 1]

\* ilock(): wait for the lock, read the dinode if the entry is not valid.
ilock(i) == lock[i] = Null /\ disk.type[i] # Null /\ valid' = valid \cup {i}

Holding(p, i) == lock' = [lock EXCEPT ![i] = p]
iunlock(i) == lock' = [lock EXCEPT ![i] = Null]

\* The inode p is about to ilock() at this place, if any.
Wants(p) ==
  IF todo[p] # <<>> THEN Null
  ELSE IF pc[p] = "walk" THEN dp[p]
  ELSE IF pc[p] \in {"found", "link_bad", "create_init", "unlink_ip"} THEN ip[p]
  ELSE Null

\* The number of entry n of directory d, or Null.
dirlookup(d, n) == IF n = ".." THEN disk.dotdot[d] ELSE disk.dents[d][n]

\* dirlink() into d can succeed: the name is new.
Absent(d, n) == n \in Names /\ disk.dents[d][n] = Null

Starts(p) == {ROOTINO, cwd[p]}  \* where namex() starts

isdirempty(d) == disk.dents[d] = NoEntries

\* The step stray()s if it follows ".." out of, or puts a name in, a directory
\* d that rmdir left without links; the code does not look.
stray(d) == strayed' = (strayed \/ disk.nlink[d] = 0)

-----------------------------------------------------------------------------
(* Calls begin: begin_op() and the first inode of the path                 *)

\* begin_op() may let a call wait for room in the log, but not for ever.
begin_op ==
  phase = "up" /\ begun < MaxCalls /\ begun' = begun + 1

start(p, o, base) ==
  /\ pc[p] = "idle" /\ begin_op
  /\ iget(base)
  /\ Go(p, "walk", o, "..", base, Null, <<>>)
  /\ UNCHANGED <<disk, durable, valid, lock, cwd, file, putting, phase, strayed>>

\* close(): the one reference of the file goes.
sys_close(p) ==
  /\ pc[p] = "idle" /\ file[p] # Null /\ begin_op
  /\ file' = [file EXCEPT ![p] = Null]
  /\ Finish(p, <<file[p]>>)
  /\ UNCHANGED <<disk, durable, table, cwd, putting, phase, strayed>>

-----------------------------------------------------------------------------
(* namex(): the path is arbitrary, so its elements n are chosen one by one *)

\* The second path of link() is walked while ip has its extra link.
Linking(p) == op[p] = "link" /\ ip[p] # Null

\* dp is locked, is no directory or does not hold the element, and is put.
walk_fail(p) ==
  /\ At(p, "walk") /\ ilock(dp[p])
  /\ disk.type[dp[p]] = "DIR" => \E n \in PathNames : dirlookup(dp[p], n) = Null
  /\ IF Linking(p) THEN Then(p, "link_bad", Null, ip[p], <<dp[p]>>)
                   ELSE Finish(p, <<dp[p]>>)
  /\ UNCHANGED <<disk, durable, ref, lock, cwd, file, begun, putting, phase, strayed>>

\* dp is locked, holds the element, and is put; the walk is at next.
Walk(p, n, next) ==
  /\ At(p, "walk") /\ ilock(dp[p]) /\ disk.type[dp[p]] = "DIR"
  /\ next = dirlookup(dp[p], n) /\ next # Null /\ iget(next)
  /\ IF n = ".." THEN stray(dp[p]) ELSE strayed' = strayed
  /\ UNCHANGED <<disk, durable, lock, cwd, file, begun, putting, phase>>

\* An element that is not the last of the path.
walk_next(p, n, next) ==
  Walk(p, n, next) /\ Then(p, "walk", next, ip[p], <<dp[p]>>)

\* The last element, for namei(), and for create() of a name that exists.
walk_last(p, n, next) ==
  /\ op[p] # "unlink" /\ ~Linking(p)
  /\ Walk(p, n, next) /\ Then(p, "found", Null, next, <<dp[p]>>)

\* The last element, for nameiparent(): the caller locks the parent again.
Parent(p, o) ==
  /\ At(p, "walk") /\ ilock(dp[p]) /\ disk.type[dp[p]] = "DIR"
  /\ op[p] \in o

-----------------------------------------------------------------------------
(* open() and chdir() with the inode they found                            *)

\* The rest of sys_open(): ip becomes an open file, if one can be had, or is put.
OpenOrPut(p, mayOpen) ==
  \/ /\ mayOpen /\ file[p] = Null
     /\ file' = [file EXCEPT ![p] = ip[p]]
     /\ Finish(p, <<>>)
  \/ /\ file' = file
     /\ Finish(p, <<ip[p]>>)

open_found(p) ==
  /\ At(p, "found") /\ op[p] \in {"open", "creat", "mkdir"} /\ ilock(ip[p])
  /\ OpenOrPut(p, op[p] = "open" \/ (op[p] = "creat" /\ disk.type[ip[p]] = "FILE"))
  /\ UNCHANGED <<disk, durable, ref, lock, cwd, begun, putting, phase, strayed>>

\* Mutant: the reference of the old directory stays.
chdir_found_kept(p) ==
  /\ At(p, "found") /\ op[p] = "chdir" /\ ilock(ip[p])
  /\ \/ /\ disk.type[ip[p]] = "DIR"
        /\ cwd' = [cwd EXCEPT ![p] = ip[p]]
        /\ Finish(p, <<>>)
     \/ /\ disk.type[ip[p]] # "DIR"
        /\ cwd' = cwd
        /\ Finish(p, <<ip[p]>>)
  /\ UNCHANGED <<disk, durable, ref, lock, file, begun, putting, phase, strayed>>

\* p->cwd, which only p reads, is set here rather than after end_op().
chdir_found(p) ==
  /\ At(p, "found") /\ op[p] = "chdir" /\ ilock(ip[p])
  /\ \/ /\ disk.type[ip[p]] = "DIR"
        /\ cwd' = [cwd EXCEPT ![p] = ip[p]]
        /\ Finish(p, <<cwd[p]>>)
     \/ /\ disk.type[ip[p]] # "DIR"
        /\ cwd' = cwd
        /\ Finish(p, <<ip[p]>>)
  /\ UNCHANGED <<disk, durable, ref, lock, file, begun, putting, phase, strayed>>

-----------------------------------------------------------------------------
(* link()                                                                  *)

\* ip gets its link before the new name is looked for.
link_found(p, base) ==
  /\ At(p, "found") /\ op[p] = "link" /\ ilock(ip[p])
  /\ disk.type[ip[p]] # "DIR"
  /\ disk' = [disk EXCEPT !.nlink[ip[p]] = @ + 1]
  /\ iget(base)
  /\ Then(p, "walk", base, ip[p], <<>>)
  /\ UNCHANGED <<durable, lock, cwd, file, begun, putting, phase, strayed>>

link_refused(p) ==
  /\ At(p, "found") /\ op[p] = "link" /\ ilock(ip[p])
  /\ disk.type[ip[p]] = "DIR"
  /\ Finish(p, <<ip[p]>>)
  /\ UNCHANGED <<disk, durable, ref, lock, cwd, file, begun, putting, phase, strayed>>

link_parent(p, n) ==
  /\ Parent(p, {"link"}) /\ Linking(p)
  /\ \/ /\ Absent(dp[p], n)
        /\ disk' = [disk EXCEPT !.dents[dp[p]][n] = ip[p]]
        /\ Finish(p, <<dp[p], ip[p]>>)
        /\ stray(dp[p])
     \/ /\ disk' = disk
        /\ Then(p, "link_bad", Null, ip[p], <<dp[p]>>)
        /\ strayed' = strayed
  /\ UNCHANGED <<durable, ref, lock, cwd, file, begun, putting, phase>>

\* No new name: the link is taken back.
link_bad(p) ==
  /\ At(p, "link_bad") /\ ilock(ip[p])
  /\ disk' = [disk EXCEPT !.nlink[ip[p]] = @ - 1]
  /\ Finish(p, <<ip[p]>>)
  /\ UNCHANGED <<durable, ref, lock, cwd, file, begun, putting, phase, strayed>>

-----------------------------------------------------------------------------
(* create()                                                                *)

\* ialloc(): a free dinode gets its type, and nothing else yet.
create_alloc(p, n, i) ==
  /\ Parent(p, {"creat", "mkdir"}) /\ Absent(dp[p], n)
  /\ disk.type[i] = Null /\ iget(i)
  /\ disk' = [disk EXCEPT !.type[i] = IF op[p] = "mkdir" THEN "DIR" ELSE "FILE",
                          !.nlink[i] = 0]
  /\ Holding(p, dp[p])
  /\ Go(p, "create_init", op[p], n, dp[p], i, <<>>)
  /\ UNCHANGED <<durable, cwd, file, begun, putting, phase, strayed>>

create_no_inodes(p, n) ==
  /\ Parent(p, {"creat", "mkdir"}) /\ Absent(dp[p], n)
  /\ \A i \in Inums : disk.type[i] # Null
  /\ Finish(p, <<dp[p]>>)
  /\ UNCHANGED <<disk, durable, ref, lock, cwd, file, begun, putting, phase, strayed>>

\* ip gets its link, its "..", and its name in dp, whose lock p holds; dp
\* gets a link for "..".  dp is unlocked, ip stays locked.
create_init(p) ==
  /\ At(p, "create_init") /\ ilock(ip[p])
  /\ LET i == ip[p]  d == dp[p]  dir == disk.type[i] = "DIR" IN
       disk' = [disk EXCEPT
         !.nlink = [disk.nlink EXCEPT ![i] = 1, ![d] = IF dir THEN @ + 1 ELSE @],
         !.dotdot[i] = IF dir THEN d ELSE Null,
         !.dents[d][name[p]] = i]
  /\ lock' = [lock EXCEPT ![ip[p]] = p, ![dp[p]] = Null]
  /\ Then(p, "created", Null, ip[p], <<dp[p]>>)
  /\ stray(dp[p])
  /\ UNCHANGED <<durable, ref, cwd, file, begun, putting, phase>>

\* A dirlink() failed: ip loses its link and is put while dp is still locked.
create_fail(p) ==
  /\ At(p, "create_init") /\ ilock(ip[p])
  /\ disk' = [disk EXCEPT !.nlink[ip[p]] = 0]
  /\ Then(p, "bail", dp[p], Null, <<ip[p]>>)
  /\ UNCHANGED <<durable, ref, lock, cwd, file, begun, putting, phase, strayed>>

\* create() returned ip locked: open it, or for mkdir() put it.
created(p) ==
  /\ At(p, "created")
  /\ OpenOrPut(p, op[p] = "creat")
  /\ iunlock(ip[p])
  /\ UNCHANGED <<disk, durable, ref, valid, cwd, begun, putting, phase, strayed>>

-----------------------------------------------------------------------------
(* unlink()                                                                *)

unlink_found(p, n) ==
  /\ Parent(p, {"unlink"}) /\ n # ".."
  /\ LET i == dirlookup(dp[p], n) IN
       /\ i # Null /\ iget(i)
       /\ Go(p, "unlink_ip", op[p], n, dp[p], i, <<>>)
  /\ Holding(p, dp[p])
  /\ UNCHANGED <<disk, durable, cwd, file, begun, putting, phase, strayed>>

unlink_refused(p, n) ==
  /\ Parent(p, {"unlink"})
  /\ n = ".." \/ dirlookup(dp[p], n) = Null
  /\ Finish(p, <<dp[p]>>)
  /\ UNCHANGED <<disk, durable, ref, lock, cwd, file, begun, putting, phase, strayed>>

\* The entry goes, and dp's link for ".."; dp is unlocked, ip stays locked.
unlink_ip(p) ==
  /\ At(p, "unlink_ip") /\ ilock(ip[p]) /\ disk.nlink[ip[p]] >= 1
  /\ disk.type[ip[p]] = "DIR" => isdirempty(ip[p])
  /\ disk' = [disk EXCEPT !.dents[dp[p]][name[p]] = Null,
       !.nlink[dp[p]] = IF disk.type[ip[p]] = "DIR" THEN @ - 1 ELSE @]
  /\ lock' = [lock EXCEPT ![ip[p]] = p, ![dp[p]] = Null]
  /\ Then(p, "unlink_drop", Null, ip[p], <<dp[p]>>)
  /\ UNCHANGED <<durable, ref, cwd, file, begun, putting, phase, strayed>>

unlink_nonempty(p) ==
  /\ At(p, "unlink_ip") /\ ilock(ip[p]) /\ disk.nlink[ip[p]] >= 1
  /\ disk.type[ip[p]] = "DIR" /\ ~isdirempty(ip[p])
  /\ Then(p, "bail", dp[p], Null, <<ip[p]>>)
  /\ UNCHANGED <<disk, durable, ref, lock, cwd, file, begun, putting, phase, strayed>>

unlink_drop(p) ==
  /\ At(p, "unlink_drop")
  /\ disk' = [disk EXCEPT !.nlink[ip[p]] = @ - 1]
  /\ iunlock(ip[p])
  /\ Finish(p, <<ip[p]>>)
  /\ UNCHANGED <<durable, ref, valid, cwd, file, begun, putting, phase, strayed>>

\* The way out of create() and unlink() that still holds the parent.
bail(p) ==
  /\ At(p, "bail")
  /\ iunlock(dp[p])
  /\ Finish(p, <<dp[p]>>)
  /\ UNCHANGED <<disk, durable, ref, valid, cwd, file, begun, putting, phase, strayed>>

-----------------------------------------------------------------------------
(* iput(), step by step                                                    *)

\* The last reference to an inode that is in no directory.
LastOfUnlinked(i) == ref[i] = 1 /\ i \in valid /\ disk.nlink[i] = 0

Step(p, s) == putting' = [putting EXCEPT ![p] = s]

\* The lock is taken under itable.lock: it must be free.
iput_lock(p) ==
  /\ todo[p] # <<>> /\ putting[p] = "test"
  /\ LET i == Head(todo[p]) IN
       LastOfUnlinked(i) /\ lock[i] = Null /\ Holding(p, i)
  /\ Step(p, "free")
  /\ UNCHANGED <<disk, durable, ref, valid, cwd, file, call, begun, phase, strayed>>

\* itrunc(), then type 0 goes to disk: from now on ialloc() may take the inode.
iput_free(p) ==
  /\ putting[p] = "free"
  /\ LET i == Head(todo[p]) IN
       disk' = [disk EXCEPT !.type[i] = Null, !.dents[i] = NoEntries,
                            !.dotdot[i] = Null]
  /\ Step(p, "unlock")
  /\ UNCHANGED <<durable, table, cwd, file, call, begun, phase, strayed>>

\* Mutant: the entry of the freed inode stays valid.
iput_unlock_valid(p) ==
  /\ putting[p] = "unlock"
  /\ valid' = valid
  /\ iunlock(Head(todo[p]))
  /\ Step(p, "drop")
  /\ UNCHANGED <<disk, durable, ref, cwd, file, call, begun, phase, strayed>>

iput_unlock(p) ==
  /\ putting[p] = "unlock"
  /\ valid' = valid \ {Head(todo[p])}
  /\ iunlock(Head(todo[p]))
  /\ Step(p, "drop")
  /\ UNCHANGED <<disk, durable, ref, cwd, file, call, begun, phase, strayed>>

\* After freeing the inode, the reference goes without another look at it.
iput_drop(p) ==
  /\ todo[p] # <<>>
  /\ LET i == Head(todo[p]) IN
       /\ putting[p] = "drop" \/ (putting[p] = "test" /\ ~LastOfUnlinked(i))
       /\ ref' = [ref EXCEPT ![i] = @ - 1]
       /\ valid' = IF ref[i] = 1 THEN valid \ {i} ELSE valid
  /\ todo' = [todo EXCEPT ![p] = Tail(@)]
  /\ Step(p, "test")
  /\ UNCHANGED <<disk, durable, lock, cwd, file, pc, op, name, dp, ip, begun, phase, strayed>>

-----------------------------------------------------------------------------
(* The end of a call, crashes and recovery                                 *)

\* Mutant: every call that ends commits.
end_op_early(p) ==
  /\ At(p, "end")
  /\ durable' = disk
  /\ Then(p, "idle", Null, Null, <<>>)
  /\ UNCHANGED <<disk, table, cwd, file, begun, putting, phase, strayed>>

\* The last call to end commits what all of them did.
end_op(p) ==
  /\ At(p, "end")
  /\ durable' = IF \E q \in Procs \ {p} : pc[q] # "idle" THEN durable ELSE disk
  /\ Then(p, "idle", Null, Null, <<>>)
  /\ UNCHANGED <<disk, table, cwd, file, begun, putting, phase, strayed>>

crash ==
  /\ disk' = durable /\ durable' = durable /\ phase' = "reclaim"
  /\ ref' = Memory.ref /\ valid' = {} /\ lock' = Memory.lock
  /\ cwd' = Memory.cwd /\ file' = Memory.none
  /\ pc' = Memory.pc /\ op' = Memory.op /\ name' = Memory.name
  /\ dp' = Memory.none /\ ip' = Memory.none /\ todo' = Memory.todo
  /\ putting' = Memory.putting /\ begun' = begun /\ strayed' = strayed

Orphan(i) == disk.type[i] # Null /\ disk.nlink[i] = 0

\* One transaction of ireclaim(): ilock() makes the entry valid, iput() frees it.
ireclaim(i) ==
  /\ phase = "reclaim" /\ Orphan(i)
  /\ disk' = [disk EXCEPT !.type[i] = Null, !.dents[i] = NoEntries, !.dotdot[i] = Null]
  /\ durable' = disk'
  /\ UNCHANGED <<table, cwd, file, call, begun, putting, phase, strayed>>

booted ==
  /\ phase = "reclaim" /\ \A i \in Inums : ~Orphan(i)
  /\ phase' = "up"
  /\ UNCHANGED <<disk, durable, table, cwd, file, call, begun, putting, strayed>>

Next ==
  \/ \E p \in Procs :
       \/ \E base \in Starts(p) :
            \/ \E o \in {"open", "creat", "mkdir", "link", "unlink", "chdir"} :
                 start(p, o, base)
            \/ link_found(p, base)
       \/ \E n \in PathNames :
            \/ \E i \in Inums :
                 walk_next(p, n, i) \/ walk_last(p, n, i) \/ create_alloc(p, n, i)
            \/ create_no_inodes(p, n) \/ link_parent(p, n)
            \/ unlink_found(p, n) \/ unlink_refused(p, n)
       \/ sys_close(p) \/ walk_fail(p) \/ open_found(p) \/ chdir_found(p)
       \/ link_refused(p) \/ link_bad(p)
       \/ create_init(p) \/ create_fail(p) \/ created(p)
       \/ unlink_ip(p) \/ unlink_nonempty(p) \/ unlink_drop(p) \/ bail(p)
       \/ iput_lock(p) \/ iput_free(p) \/ iput_unlock(p) \/ iput_drop(p)
       \/ end_op(p)
  \/ crash
  \/ \E i \in Inums : ireclaim(i)
  \/ booted

Spec == Init /\ [][Next]_vars

-----------------------------------------------------------------------------
(* Properties                                                              *)

Places ==
  {"idle", "walk", "found", "link_bad", "create_init", "created", "bail",
   "unlink_ip", "unlink_drop", "end"}

TypeOK ==
  /\ disk \in Disks /\ durable \in Disks
  /\ ref \in [Inums -> Nat] /\ valid \subseteq Inums
  /\ lock \in [Inums -> Procs \cup {Null}]
  /\ cwd \in [Procs -> Inums] /\ file \in [Procs -> Inums \cup {Null}]
  /\ pc \in [Procs -> Places] /\ name \in [Procs -> PathNames]
  /\ op \in [Procs -> {"open", "creat", "mkdir", "link", "unlink", "chdir", "close"}]
  /\ dp \in [Procs -> Inums \cup {Null}] /\ ip \in [Procs -> Inums \cup {Null}]
  /\ todo \in [Procs -> Seq(Inums)]
  /\ putting \in [Procs -> {"test", "free", "unlock", "drop"}]
  /\ phase \in {"reclaim", "up"} /\ begun \in 0..MaxCalls /\ strayed \in BOOLEAN

Count(f, i) == Cardinality({p \in Procs : f[p] = i})
InTodo(i) ==
  Cardinality({x \in Procs \X {1, 2} : x[2] <= Len(todo[x[1]]) /\ todo[x[1]][x[2]] = i})

\* ip->ref counts exactly the C pointers to the inode: current directories,
\* open files, the locals of the calls in progress and the puts they owe.  A
\* missing idup() or a second iput() on one of the error paths breaks it.
RefExact ==
  \A i \in Inums :
    ref[i] = Count(cwd, i) + Count(file, i) + Count(dp, i) + Count(ip, i) + InTodo(i)

\* Whatever a process holds a pointer to is allocated on disk, and so is
\* whatever has a name in a directory that is; a named inode has a link.  So
\* iput() and ialloc() never take an inode from under a process or a name.
\* The one exception is the put that has just freed the inode.
InUseAllocated ==
  /\ \A p \in Procs : \A i \in {cwd[p], file[p], dp[p], ip[p]} \ {Null} :
       disk.type[i] # Null
  /\ \A d \in Inums : \A n \in Names : LET i == disk.dents[d][n] IN
       disk.type[d] = "DIR" /\ i # Null => disk.type[i] # Null /\ disk.nlink[i] >= 1

\* The assertions of fs.c and sysfile.c: ilock() never finds a free inode
\* ("ilock: no type"), unlink() never finds a name without a link
\* ("unlink: nlink < 1"), and iput() never waits for an inode lock while it
\* holds itable.lock ("ref == 1 means no other process can have ip locked").
NoPanic ==
  \A p \in Procs :
    /\ LET i == Wants(p) IN
         i # Null => \/ lock[i] # Null
                     \/ disk.type[i] # Null /\ (pc[p] = "unlink_ip" => disk.nlink[i] >= 1)
    /\ todo[p] # <<>> /\ putting[p] = "test" /\ LastOfUnlinked(Head(todo[p]))
         => lock[Head(todo[p])] = Null

\* In no set of processes does everyone wait for an inode lock that someone in
\* the set holds: create() and unlink() lock a parent before its child, and
\* unlink() refuses "..", which is the other way round.
LockOrder ==
  \A S \in SUBSET Procs \ {{}} :
    \E p \in S : Wants(p) = Null \/ lock[Wants(p)] \notin S

Subdirs(d, i) ==
  {c \in Inums \ {ROOTINO} : d.type[c] = "DIR" /\ d.nlink[c] > 0 /\ d.dotdot[c] = i}
Entries(d, i) ==
  {e \in Inums \X Names : d.type[e[1]] = "DIR" /\ d.dents[e[1]][e[2]] = i}

\* As long as no call has gone on in a removed directory: whatever instant the
\* machine crashes at, the link count of every inode on disk is the number of
\* its names and of the ".." entries that lead to it (the root has one more),
\* and a directory that is not the root and has a link has one name, in its
\* "..".  create() and link() do put names in a directory that another process
\* removes meanwhile, and then it fails.
DurableConsistent ==
  ~strayed => \A i \in Inums : durable.type[i] # Null =>
    /\ durable.nlink[i] = Cardinality(Entries(durable, i))
         + Cardinality(Subdirs(durable, i)) + (IF i = ROOTINO THEN 1 ELSE 0)
    /\ durable.type[i] = "DIR" /\ i # ROOTINO =>
         /\ Cardinality(Entries(durable, i)) <= 1
         /\ \A e \in Entries(durable, i) : e[1] = durable.dotdot[i]

\* "If that was the last reference and the inode has no links to it, free the
\* inode (and its content) on disk" (iput()): while the system runs, no inode
\* without links and references stays allocated. The code does not ensure it
\* (README, "Disagreements").
NoLeak ==
  phase = "up" => \A i \in Inums : Orphan(i) => ref[i] > 0

\* An entry of the inode table that is valid and unlocked caches an inode that
\* is allocated, so ilock() may skip the read.  create() may get the number of
\* an inode, and its entry, while iput() is still freeing it.
ValidAllocated ==
  \A i \in valid : lock[i] = Null => disk.type[i] # Null /\ ref[i] > 0

\* Types; and as long as no call has gone on in a removed directory: nothing in
\* use is freed, ilock(), iput() and unlink() do not panic, no link count is
\* negative, locks go from parent to child, and ilock() may trust a valid entry.
\* Without that premise it fails: ".." of a removed directory leads to its
\* parent, which may be removed and freed too, and ilock() then panics.
InodeInv ==
  /\ TypeOK
  /\ ~strayed =>
       /\ InUseAllocated /\ NoPanic /\ LockOrder /\ ValidAllocated
       /\ \A i \in Inums : disk.nlink[i] >= 0
=============================================================================
