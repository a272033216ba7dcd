-------------------------------- MODULE File --------------------------------
(***************************************************************************)
(* Open files: the table of kernel/file.c, the descriptors of              *)
(* kernel/sysfile.c, pipealloc() and pipeclose() of kernel/pipe.c, and     *)
(* what kfork() and kexit() of kernel/proc.c do to descriptors.            *)
(* ftable.lock makes every change of a reference count atomic; the object  *)
(* of the last reference is closed after the lock is released, from a copy *)
(* of the struct file.                                                     *)
(***************************************************************************)
EXTENDS Integers, FiniteSets, FiniteSetsExt

CONSTANTS
  Procs,   \* slots of the process table, numbered
  NFILE, NOFILE,
  NPIPE,   \* pages there are for pipes
  MAX_INODE_PAIRS,
  None

Files == 1..NFILE
Fds == 0..(NOFILE - 1)
Pipes == 1..NPIPE

VARIABLES
  ftable,   \* struct file: ref, type, the object with its end, and ip
  ofile,    \* p->ofile
  pipe,     \* pipe[i]: its ends that are open, "r" and "w"
  iref,     \* references to inodes by name
  closing,  \* the object p's fileclose() has yet to close
  pairs     \* p's call of inodepairs()

fvars == <<ftable, ofile, pipe, iref, closing>>

\* ip outlives the file: nothing clears it.
NoFile == [ref |-> 0, type |-> "none", obj |-> None, end |-> None, ip |-> None]
Freed(f) == [NoFile EXCEPT !.ip = ftable[f].ip]

FileInit(names) ==
  /\ ftable = [f \in Files |-> NoFile]
  /\ ofile = [p \in Procs |-> [fd \in Fds |-> None]]
  /\ pipe = [i \in Pipes |-> {}]
  /\ iref = [n \in names |-> 0]
  /\ closing = [p \in Procs |-> None]
  /\ pairs = [p \in Procs |-> None]

OpenFds(p) == {fd \in Fds : ofile[p][fd] # None}
FreeFds(p) == Fds \ OpenFds(p)
FreeFiles == {f \in Files : ftable[f].ref = 0}
FreePipes == {i \in Pipes : pipe[i] = {}}

Second(S) == Min(S \ {Min(S)})

\* sys_open() finds an inode; filealloc() and fdalloc() may fail, and then
\* what was taken is given back.
OpenOk(p) == FreeFiles # {} /\ FreeFds(p) # {}
sys_open(p, name) ==
  /\ OpenOk(p)
  /\ ftable' = [ftable EXCEPT ![Min(FreeFiles)] =
       [ref |-> 1, type |-> "inode", obj |-> name, end |-> None, ip |-> name]]
  /\ ofile' = [ofile EXCEPT ![p][Min(FreeFds(p))] = Min(FreeFiles)]
  /\ iref' = [iref EXCEPT ![name] = @ + 1]
  /\ UNCHANGED <<pipe, closing>>

sys_dup(p, fd) ==
  /\ IF fd \in OpenFds(p) /\ FreeFds(p) # {}
     THEN /\ ftable' = [ftable EXCEPT ![ofile[p][fd]].ref = @ + 1]
          /\ ofile' = [ofile EXCEPT ![p][Min(FreeFds(p))] = ofile[p][fd]]
     ELSE UNCHANGED <<ftable, ofile>>
  /\ UNCHANGED <<pipe, iref, closing>>

\* sys_pipe() and pipealloc().
PipeOk(p) == Cardinality(FreeFiles) >= 2 /\ Cardinality(FreeFds(p)) >= 2 /\ FreePipes # {}
sys_pipe(p) ==
  LET pi == Min(FreePipes)
      end(f, e) == [Freed(f) EXCEPT !.ref = 1, !.type = "pipe", !.obj = pi, !.end = e]
  IN
  /\ PipeOk(p)
  /\ ftable' = [ftable EXCEPT ![Min(FreeFiles)] = end(Min(FreeFiles), "r"),
                              ![Second(FreeFiles)] = end(Second(FreeFiles), "w")]
  /\ ofile' = [ofile EXCEPT ![p][Min(FreeFds(p))] = Min(FreeFiles),
                            ![p][Second(FreeFds(p))] = Second(FreeFiles)]
  /\ pipe' = [pipe EXCEPT ![pi] = {"r", "w"}]
  /\ UNCHANGED <<iref, closing>>

\* Mutant of fileclose_last: the struct file keeps its type, and the object
\* is not closed.
fileclose_last_kept(p, f) ==
  ftable' = [ftable EXCEPT ![f].ref = 0] /\ UNCHANGED closing

\* fileclose() drops the last reference: the copy ff is what is closed.
fileclose_last(p, f) ==
  /\ ftable' = [ftable EXCEPT ![f] = Freed(f)]
  /\ closing' = [closing EXCEPT ![p] = ftable[f]]

fileclose(p, f) ==
  IF ftable[f].ref > 1
  THEN ftable' = [ftable EXCEPT ![f].ref = @ - 1] /\ UNCHANGED closing
  ELSE fileclose_last(p, f)

\* sys_close(), or one descriptor of kexit(), up to the lock's release.
sys_close(p, fd) ==
  /\ IF fd \in OpenFds(p)
     THEN /\ ofile' = [ofile EXCEPT ![p][fd] = None]
          /\ fileclose(p, ofile[p][fd])
     ELSE UNCHANGED <<ftable, ofile, closing>>
  /\ UNCHANGED <<pipe, iref>>

\* pipeclose(): the page is free once both ends are closed.
PipeLeft(ends, e) == ends \ {e}

\* The rest of fileclose(): pipeclose() or iput().
fileclose_obj(p) ==
  /\ closing[p] # None
  /\ LET ff == closing[p] IN
     \/ /\ ff.type = "pipe"
        /\ pipe' = [pipe EXCEPT ![ff.obj] = PipeLeft(@, ff.end)]
        /\ UNCHANGED iref
     \/ /\ ff.type = "inode"
        /\ iref' = [iref EXCEPT ![ff.obj] = @ - 1]
        /\ UNCHANGED pipe
  /\ closing' = [closing EXCEPT ![p] = None]
  /\ UNCHANGED <<ftable, ofile>>

\* How often kfork() calls filedup(f).
Dups(p, f) == Cardinality({fd \in Fds : ofile[p][fd] = f})

\* kfork()'s loop over ofile.
fork_files(p, c) ==
  /\ ftable' = [f \in Files |-> [ftable[f] EXCEPT !.ref = @ + Dups(p, f)]]
  /\ ofile' = [ofile EXCEPT ![c] = ofile[p]]
  /\ UNCHANGED <<pipe, iref, closing>>

-----------------------------------------------------------------------------
(* sys_inodepairs(): two loops over the table, which give up ftable.lock   *)
(* at every pair they find, to look for the holders' descriptors. The pids  *)
(* and descriptors found are left out.                                      *)

InUse(f) == ftable[f].ref > 0
SameIp(i, j) == ftable[i].ip # None /\ ftable[i].ip = ftable[j].ip
InodePairs == {x \in Files \X Files : x[1] < x[2] /\ InUse(x[1]) /\ InUse(x[2]) /\ SameIp(x[1], x[2])}

\* Mutant of Ahead: the inner loop starts one file late.
AheadLate(at) ==
  {x \in Files \X Files : x[1] + 1 < x[2] /\ InUse(x[2]) /\ SameIp(x[1], x[2]) /\
     ((x[1] = at[1] /\ x[2] > at[2]) \/ (x[1] > at[1] /\ InUse(x[1])))}

\* The pairs the loops meet after the pair at; the count of its first file is
\* not looked at again.
Ahead(at) ==
  {x \in Files \X Files : x[1] < x[2] /\ InUse(x[2]) /\ SameIp(x[1], x[2]) /\
     ((x[1] = at[1] /\ x[2] > at[2]) \/ (x[1] > at[1] /\ InUse(x[1])))}

\* The loops go on after at with out reported, up to the next release of the
\* lock. all holds the pairs there were whenever the call had the lock.
pairs_loop(p, at, out, all) ==
  LET S == Ahead(at)
      next == CHOOSE x \in S : \A y \in S : x[1] < y[1] \/ (x[1] = y[1] /\ x[2] <= y[2])
      more == S # {} /\ Cardinality(out) < MAX_INODE_PAIRS
  IN pairs' = [pairs EXCEPT ![p] = [at |-> IF more THEN next ELSE <<0, 0>>,
                                    out |-> out, all |-> all]]

inodepairs(p) ==
  /\ pairs[p] = None
  /\ pairs_loop(p, <<0, 0>>, {}, InodePairs)

\* The lock is taken again: the pair may be gone.
inodepairs_next(p) ==
  /\ pairs[p] # None /\ pairs[p].at # <<0, 0>>
  /\ LET at == pairs[p].at
         still == InUse(at[1]) /\ InUse(at[2]) /\ SameIp(at[1], at[2])
     IN pairs_loop(p, at, IF still THEN pairs[p].out \cup {at} ELSE pairs[p].out,
                   pairs[p].all \cap InodePairs)

\* copyout() of the report.
inodepairs_return(p) ==
  /\ pairs[p] # None /\ pairs[p].at = <<0, 0>>
  /\ pairs' = [pairs EXCEPT ![p] = None]

-----------------------------------------------------------------------------
\* Although inodepairs() gives up ftable.lock in the middle of its loops, two
\* open files on one inode that stay open during the call are reported,
\* unless the report is full.
PairsComplete ==
  \A p \in Procs :
    pairs[p] # None /\ pairs[p].at = <<0, 0>> =>
      pairs[p].all \subseteq pairs[p].out \/ Cardinality(pairs[p].out) = MAX_INODE_PAIRS

\* Every reference count is exact: of a struct file, the descriptors of all
\* processes that are it; of an inode, the struct files that are open on it
\* and the ones a fileclose() is about to put.
RefExact ==
  /\ \A f \in Files :
       ftable[f].ref = Cardinality({pf \in Procs \X Fds : ofile[pf[1]][pf[2]] = f})
  /\ \A n \in DOMAIN iref :
       iref[n] = Cardinality({f \in Files : ftable[f].type = "inode" /\ ftable[f].obj = n}) +
                 Cardinality({p \in Procs : closing[p] # None /\ closing[p].type = "inode"
                                            /\ closing[p].obj = n})

\* An end of a pipe is open exactly as long as some struct file is that end,
\* or a fileclose() is about to close it: readers see the end of file neither
\* early nor never, and the page is freed once.
PipeEnds ==
  \A i \in Pipes, e \in {"r", "w"} :
    e \in pipe[i] <=>
      \E ff \in {ftable[f] : f \in Files} \cup {closing[p] : p \in Procs} :
        ff # None /\ ff.type = "pipe" /\ ff.obj = i /\ ff.end = e
=============================================================================
