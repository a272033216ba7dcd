------------------------------ MODULE FileData ------------------------------
(***************************************************************************)
(* The content of files: fileread() and filewrite() of kernel/file.c, and  *)
(* balloc(), bfree(), bmap(), itrunc(), readi() and writei() of            *)
(* kernel/fs.c.  The inode lock is held for a transaction of filewrite();  *)
(* the bitmap's buffer lock makes balloc() and bfree() atomic.  Sizes and  *)
(* offsets count units of which BSIZE make a block.  data is the content a *)
(* user believes each file has; nothing in the code reads it.              *)
(***************************************************************************)
EXTENDS Integers, FiniteSets, FiniteSetsExt

CONSTANTS
  Procs, Inodes,
  Files,        \* open struct files; their inodes:
  IpOf,
  Blocks,       \* data blocks, numbered from 1
  BSIZE, NDIRECT, NINDIRECT, MAXOPBLOCKS,
  ReadNs, WriteNs,  \* bound: sizes of reads and writes
  MaxCalls,     \* bound: calls in all
  None

MAXFILE == NDIRECT + NINDIRECT

\* Log blocks of the bitmap and of the inodes: one each.
BITMAP == -1
INODES == -2

ASSUME FileDataAssumption ==
  /\ Blocks \subseteq Nat \ {0}
  /\ BSIZE \in Nat \ {0} /\ NDIRECT \in Nat \ {0} /\ NINDIRECT \in Nat \ {0}
  /\ MAXOPBLOCKS \in Nat /\ MAXOPBLOCKS >= 6

VARIABLES
  bitmap,       \* blocks marked in use
  blk,          \* content of a data block; 0 is a zeroed unit
  ptr,          \* content of an indirect block
  inode,        \* itable: addrs and size of each inode
  dinode,       \* the same on disk, as iupdate() wrote it
  lock,         \* holder of the inode's sleep lock
  off,          \* f->off
  call,         \* the call in progress
  op,           \* blocks log_write()n by the process's open transaction
  data,
  torn,         \* blocks with bytes of a write that failed, never logged
  calls, panic

fs == <<bitmap, blk, ptr, inode, dinode, torn>>
vars == <<fs, lock, off, call, op, data, calls, panic>>

Free == Blocks \ bitmap
ZeroBlk == [i \in 0..(BSIZE - 1) |-> 0]
ZeroPtr == [i \in 0..(NINDIRECT - 1) |-> 0]
NoInode == [addrs |-> [i \in 0..NDIRECT |-> 0], size |-> 0]
Idle == [pc |-> "idle"]

Init ==
  /\ bitmap = {}
  /\ blk = [b \in Blocks |-> ZeroBlk] /\ ptr = [b \in Blocks |-> ZeroPtr]
  /\ inode = [ip \in Inodes |-> NoInode] /\ dinode = inode
  /\ lock = [ip \in Inodes |-> None]
  /\ off = [f \in Files |-> 0]
  /\ call = [p \in Procs |-> Idle]
  /\ op = [p \in Procs |-> {}]
  /\ data = [ip \in Inodes |-> [u \in 0..(MAXFILE * BSIZE - 1) |-> 0]]
  /\ torn = {}
  /\ calls = 0 /\ panic = FALSE

\* The block that bmap() finds for bn without allocating, or 0.
Mapped(ino, bn) ==
  IF bn < NDIRECT THEN ino.addrs[bn]
  ELSE IF ino.addrs[NDIRECT] = 0 THEN 0
  ELSE ptr[ino.addrs[NDIRECT]][bn - NDIRECT]

Enter(p) ==
  /\ call[p] = Idle
  /\ calls < MaxCalls /\ calls' = calls + 1

\* ilock() by p, whose call becomes c.
ilock(p, ip, c) ==
  /\ lock[ip] = None /\ lock' = [lock EXCEPT ![ip] = p]
  /\ call' = [call EXCEPT ![p] = c]

-----------------------------------------------------------------------------
(* read()                                                                  *)

\* How much readi() returns of n units at o.
readi(ip, o, n) == IF o > inode[ip].size THEN 0 ELSE Min({n, inode[ip].size - o})

\* fileread(): readi() under the inode lock, outside a transaction, so that
\* bmap() must not have to allocate.  The second disjunct is a failing copy.
fileread(p, f, n) ==
  /\ Enter(p)
  /\ LET ip == IpOf[f]
         m == readi(ip, off[f], n)
         bns == {u \div BSIZE : u \in off[f]..(off[f] + m - 1)}
     IN
     /\ lock[ip] = None
     /\ panic' = (panic \/ \E bn \in bns : Mapped(inode[ip], bn) = 0)
     /\ \/ off' = [off EXCEPT ![f] = @ + m]
        \/ UNCHANGED off
  /\ UNCHANGED <<fs, lock, call, op, data>>

-----------------------------------------------------------------------------
(* write(): one transaction for every chunk                                *)

\* Mutant of Chunk: the whole write is one transaction.
ChunkAll(n) == n

\* filewrite()'s n1.
Chunk(n) == Min({n, ((MAXOPBLOCKS - 1 - 1 - 2) \div 2) * BSIZE})

\* write(f, n); the number of the call stands for the bytes.
filewrite(p, f, n) ==
  /\ Enter(p)
  /\ call' = [call EXCEPT ![p] = [pc |-> "chunk", f |-> f, left |-> n, v |-> calls + 1]]
  /\ UNCHANGED <<fs, lock, off, op, data, panic>>

\* Mutant of Writable: an offset beyond the end is allowed.
Writable_past(size, o, n) == o + n <= MAXFILE * BSIZE

\* writei()'s checks pass.
Writable(size, o, n) == o <= size /\ o + n <= MAXFILE * BSIZE

\* begin_op(), ilock() and writei()'s checks, which may fail the write.
write_begin(p) ==
  /\ call[p].pc = "chunk"
  /\ LET c == call[p]
         ip == IpOf[c.f]
         o == off[c.f]
         n == Chunk(c.left)
     IN
     \/ /\ ~Writable(inode[ip].size, o, n)
        /\ lock[ip] = None
        /\ call' = [call EXCEPT ![p] = Idle]
        /\ UNCHANGED lock
     \/ /\ Writable(inode[ip].size, o, n)
        /\ ilock(p, ip, [pc |-> "blk", f |-> c.f, left |-> c.left, v |-> c.v,
                         o |-> o, n |-> n, tot |-> 0])
  /\ UNCHANGED <<fs, off, op, data, calls, panic>>

\* balloc(): the first free block, zeroed; both blocks go to the log.
Ballocs(p, also) == op' = [op EXCEPT ![p] = @ \cup {BITMAP, Min(Free)} \cup also]

\* bmap() needs the indirect block first.
NeedsIndirect(ip, bn) == bn >= NDIRECT /\ inode[ip].addrs[NDIRECT] = 0

bmap_indirect(p) ==
  /\ call[p].pc = "blk" /\ call[p].tot < call[p].n
  /\ LET ip == IpOf[call[p].f] IN
     /\ NeedsIndirect(ip, call[p].o \div BSIZE)
     /\ \/ /\ Free # {}
           /\ bitmap' = bitmap \cup {Min(Free)}
           /\ ptr' = [ptr EXCEPT ![Min(Free)] = ZeroPtr]
           /\ inode' = [inode EXCEPT ![ip].addrs[NDIRECT] = Min(Free)]
           /\ Ballocs(p, {})
           /\ UNCHANGED call
        \/ /\ Free = {}
           /\ call' = [call EXCEPT ![p].pc = "end"]
           /\ UNCHANGED <<bitmap, ptr, inode, op>>
  /\ UNCHANGED <<blk, dinode, torn, lock, off, data, calls, panic>>

\* b becomes block bn of ip, in the inode or in the indirect block.
Link(ip, bn, b) ==
  IF bn < NDIRECT
  THEN inode' = [inode EXCEPT ![ip].addrs[bn] = b] /\ UNCHANGED ptr
  ELSE ptr' = [ptr EXCEPT ![inode[ip].addrs[NDIRECT]][bn - NDIRECT] = b] /\ UNCHANGED inode

\* Units of the write that fall in the block at o.
InBlock(c) == Min({c.n - c.tot, BSIZE - (c.o % BSIZE)})

\* Mutant of Copied: the units land at the start of the block.
CopiedStart(old, c, k) == [i \in 0..(BSIZE - 1) |-> IF i < k THEN c.v ELSE old[i]]

\* Content old of a block after the first k units of c's share are copied.
Copied(old, c, k) ==
  [i \in 0..(BSIZE - 1) |->
     IF c.o % BSIZE <= i /\ i < (c.o % BSIZE) + k THEN c.v ELSE old[i]]

\* One block of writei(): bmap(), the copy, log_write().  The copy may fail
\* after some units, which leaves them in the buffer and ends the loop.
write_block(p) ==
  /\ call[p].pc = "blk" /\ call[p].tot < call[p].n
  /\ LET c == call[p]
         ip == IpOf[c.f]
         bn == c.o \div BSIZE
         fresh == Mapped(inode[ip], bn) = 0
         b == IF fresh THEN Min(Free) ELSE Mapped(inode[ip], bn)
         old == IF fresh THEN ZeroBlk ELSE blk[b]
         meta == IF fresh /\ bn >= NDIRECT THEN {inode[ip].addrs[NDIRECT]} ELSE {}
         m == InBlock(c)
     IN
     /\ ~NeedsIndirect(ip, bn)
     /\ \/ /\ fresh /\ Free = {}
           /\ call' = [call EXCEPT ![p].pc = "end"]
           /\ UNCHANGED <<bitmap, blk, ptr, inode, torn, op>>
        \/ /\ fresh => Free # {}
           /\ IF fresh THEN Link(ip, bn, b) /\ Ballocs(p, meta)
              ELSE UNCHANGED <<inode, ptr>> /\ op' = [op EXCEPT ![p] = @ \cup {b}]
           /\ bitmap' = bitmap \cup {b}
           /\ blk' = [blk EXCEPT ![b] = Copied(old, c, m)]
           /\ call' = [call EXCEPT ![p].o = @ + m, ![p].tot = @ + m]
           /\ torn' = IF fresh THEN torn \ {b} ELSE torn
        \/ /\ fresh => Free # {}
           /\ IF fresh THEN Link(ip, bn, b) /\ Ballocs(p, meta)
              ELSE UNCHANGED <<inode, ptr, op>>
           /\ bitmap' = bitmap \cup {b}
           /\ \E k \in 0..(m - 1) :
                /\ blk' = [blk EXCEPT ![b] = Copied(old, c, k)]
                /\ torn' = IF k > 0 THEN torn \cup {b} ELSE IF fresh THEN torn \ {b} ELSE torn
           /\ call' = [call EXCEPT ![p].pc = "end"]
  /\ UNCHANGED <<dinode, lock, off, data, calls, panic>>

iupdate(ip, ino) ==
  /\ inode' = [inode EXCEPT ![ip] = ino]
  /\ dinode' = [dinode EXCEPT ![ip] = ino]

\* ip->size after writei().
SizeAfter(ino, c) == Max({ino.size, c.o})

\* The rest of writei(), and filewrite()'s update of f->off.
write_iupdate(p) ==
  /\ \/ call[p].pc = "end"
     \/ call[p].pc = "blk" /\ call[p].tot = call[p].n
  /\ LET c == call[p]
         ip == IpOf[c.f]
     IN  /\ iupdate(ip, [inode[ip] EXCEPT !.size = SizeAfter(inode[ip], c)])
         /\ op' = [op EXCEPT ![p] = @ \cup {INODES}]
         /\ off' = [off EXCEPT ![c.f] = @ + c.tot]
         /\ data' = [data EXCEPT ![ip] = [u \in DOMAIN @ |->
                       IF c.o - c.tot <= u /\ u < c.o THEN c.v ELSE @[u]]]
         /\ call' = [call EXCEPT ![p] =
              [pc |-> "end_op", ip |-> ip, next |->
                 IF c.tot = c.n /\ c.left > c.n
                 THEN [pc |-> "chunk", f |-> c.f, left |-> c.left - c.n, v |-> c.v]
                 ELSE Idle]]
  /\ UNCHANGED <<bitmap, blk, ptr, torn, lock, calls, panic>>

\* iunlock() and end_op().
end_op(p) ==
  /\ call[p].pc = "end_op"
  /\ lock' = [lock EXCEPT ![call[p].ip] = None]
  /\ op' = [op EXCEPT ![p] = {}]
  /\ call' = [call EXCEPT ![p] = call[p].next]
  /\ UNCHANGED <<fs, off, data, calls, panic>>

-----------------------------------------------------------------------------
(* open(O_TRUNC)                                                           *)

open_trunc(p, ip) ==
  /\ Enter(p)
  /\ ilock(p, ip, [pc |-> "trunc", ip |-> ip, k |-> 0])
  /\ UNCHANGED <<fs, off, op, data, panic>>

\* Mutant of TruncBlock: the indirect block is forgotten.
TruncBlock_data(ip, k) == IF k = MAXFILE THEN 0 ELSE Mapped(inode[ip], k)

\* The block itrunc() frees k-th, or 0: direct, indirect, the indirect block.
TruncBlock(ip, k) == IF k = MAXFILE THEN inode[ip].addrs[NDIRECT] ELSE Mapped(inode[ip], k)

Remaining(c) == {k \in c.k..MAXFILE : TruncBlock(c.ip, k) # 0}

bfree(p, b) ==
  /\ panic' = (panic \/ b \notin bitmap)
  /\ bitmap' = bitmap \ {b}
  /\ op' = [op EXCEPT ![p] = @ \cup {BITMAP}]

\* One bfree() of itrunc().
itrunc_bfree(p) ==
  /\ call[p].pc = "trunc" /\ Remaining(call[p]) # {}
  /\ LET c == call[p]
         k == Min(Remaining(c))
         b == TruncBlock(c.ip, k)
     IN  /\ bfree(p, b)
         /\ inode' = [inode EXCEPT ![c.ip].addrs = [i \in 0..NDIRECT |->
                        IF (i = k /\ k < NDIRECT) \/ (i = NDIRECT /\ k = MAXFILE) THEN 0 ELSE @[i]]]
         /\ call' = [call EXCEPT ![p].k = k + 1]
  /\ UNCHANGED <<blk, ptr, dinode, torn, lock, off, data, calls>>

itrunc_end(p) ==
  /\ call[p].pc = "trunc" /\ Remaining(call[p]) = {}
  /\ LET ip == call[p].ip IN
       /\ iupdate(ip, [inode[ip] EXCEPT !.size = 0])
       /\ call' = [call EXCEPT ![p] = [pc |-> "end_op", ip |-> ip, next |-> Idle]]
  /\ op' = [op EXCEPT ![p] = @ \cup {INODES}]
  /\ UNCHANGED <<bitmap, blk, ptr, torn, lock, off, data, calls, panic>>

-----------------------------------------------------------------------------
AllReturned == (\A p \in Procs : call[p] = Idle) /\ UNCHANGED vars

Next ==
  \/ \E p \in Procs :
       \/ \E f \in Files, n \in ReadNs : fileread(p, f, n)
       \/ \E f \in Files, n \in WriteNs : filewrite(p, f, n)
       \/ \E ip \in Inodes : open_trunc(p, ip)
       \/ write_begin(p) \/ bmap_indirect(p) \/ write_block(p)
       \/ write_iupdate(p) \/ itrunc_bfree(p) \/ itrunc_end(p) \/ end_op(p)
  \/ AllReturned

Spec == Init /\ [][Next]_vars

-----------------------------------------------------------------------------
Truncating(ip) == lock[ip] # None /\ call[lock[ip]].pc = "trunc"

\* The places that refer to a block: slot k of a file, as itrunc() counts.
SlotsOf(ip) ==
  {k \in (IF Truncating(ip) THEN call[lock[ip]].k ELSE 0)..MAXFILE :
     (IF k = MAXFILE THEN inode[ip].addrs[NDIRECT] ELSE Mapped(inode[ip], k)) # 0}
Slots == UNION {{<<ip, k>> : k \in SlotsOf(ip)} : ip \in Inodes}
BlockAt(s) == IF s[2] = MAXFILE THEN inode[s[1]].addrs[NDIRECT] ELSE Mapped(inode[s[1]], s[2])

\* A block is marked in use in the bitmap exactly if one file refers to it,
\* in one place: running out of blocks in the middle of a write or writing
\* while another file is truncated leaks no block and shares none.
BlocksExact ==
  /\ {BlockAt(s) : s \in Slots} = bitmap
  /\ Cardinality(Slots) = Cardinality(bitmap)

\* Whenever the inode is unlocked, and so in every transaction that commits,
\* the inode on disk is the one in memory: a write that fails after bmap()
\* has added a block writes the inode back too.
InodeWritten == \A ip \in Inodes : lock[ip] = None => dinode[ip] = inode[ip]

\* A file reads as what was written to it, at the offset of the struct file
\* at the time, except in blocks where a copy from user memory failed.
ContentRight ==
  \A ip \in Inodes : lock[ip] = None => \A u \in 0..(inode[ip].size - 1) :
    LET b == Mapped(inode[ip], u \div BSIZE) IN
    b \notin torn => blk[b][u % BSIZE] = data[ip][u]

\* No transaction of filewrite() or itrunc() writes more than MAXOPBLOCKS
\* blocks, which is what begin_op() reserves for it, also if it is not
\* aligned and needs the indirect block.
OpFitsLog == \A p \in Procs : Cardinality(op[p]) <= MAXOPBLOCKS

\* Types; the inode on disk is the one in memory; and no file has a
\* hole below its size, whatever failed in a write: fileread() runs bmap()
\* outside a transaction and must never allocate.  No panic of bfree() is
\* reached.
FileDataInv ==
  /\ InodeWritten
  /\ bitmap \subseteq Blocks /\ torn \subseteq Blocks
  /\ \A ip \in Inodes : inode[ip].size \in 0..(MAXFILE * BSIZE)
  /\ ~panic
  /\ \A ip \in Inodes : ~Truncating(ip) => \A bn \in 0..(MAXFILE - 1) :
       bn * BSIZE < inode[ip].size => Mapped(inode[ip], bn) # 0
=============================================================================
