-------------------------------- MODULE Exec --------------------------------
(***************************************************************************)
(* exec(): sys_exec() and kexec() build a second page table beside the one *)
(* in use and switch to it at the end, or free it and leave the process as *)
(* it was.  The inode it reads from is outside this module.                *)
(***************************************************************************)
EXTENDS Vm

CONSTANT MAXARG  \* entries of argv, the null at its end included

Text(seg) == {i \in Pages : seg.va <= i * PGSIZE /\ i * PGSIZE < seg.va + seg.filesz}

\* The user image a successful exec() of g promises: file content where the
\* segments have it, the arguments in the last stack page, zeroes elsewhere.
Image(g, newsz) ==
  [i \in Pages |-> IF \E k \in DOMAIN g : i \in Text(g[k]) THEN "text"
                   ELSE IF (i + 1) * PGSIZE = newsz THEN "args" ELSE "zero"]

exec(p, g) ==
  /\ Enter(p)
  /\ call' = [call EXCEPT ![p] = [pc |-> "x_argv", g |-> g, argv |-> {}]]
  /\ UNCHANGED <<freelist, content, state, pt, sz, trapframe, mem, panic>>

\* sys_exec()'s bad: the pages of the arguments so far.
FreeArgv(p) ==
  /\ freelist' = freelist \cup call[p].argv
  /\ call' = [call EXCEPT ![p] = Idle]

\* sys_exec() takes a page for one more argument, meets the end of the list,
\* or gives up: too many of them, a bad address or no page.
exec_argv(p) ==
  /\ Running(p, "x_argv")
  /\ \/ /\ Cardinality(call[p].argv) < MAXARG /\ freelist # {}
        /\ freelist' = freelist \ {Min(freelist)}
        /\ call' = [call EXCEPT ![p].argv = @ \cup {Min(freelist)}]
     \/ /\ Cardinality(call[p].argv) < MAXARG
        /\ call' = [call EXCEPT ![p].pc = "x_pagetable"]
        /\ UNCHANGED freelist
     \/ FreeArgv(p)
  /\ UNCHANGED <<content, state, pt, sz, trapframe, mem, panic>>

\* The uvmalloc() in progress: for segment k, or for guard page and stack.
Target(c) ==
  IF c.k <= Len(c.g) THEN c.g[c.k].va + c.g[c.k].memsz
  ELSE (PageUp(c.sz) + USERSTACK + 1) * PGSIZE
Perm(c) == [u |-> TRUE, w |-> IF c.k <= Len(c.g) THEN c.g[c.k].w ELSE TRUE]

\* kexec() up to proc_pagetable(); the file may be missing or not an ELF file.
exec_pagetable(p) ==
  /\ Running(p, "x_pagetable")
  /\ LET c == call[p]
         m == proc_pagetable(freelist)
     IN
     \/ /\ m.ok
        /\ freelist' = m.fr
        /\ call' = [call EXCEPT ![p] = [pc |-> "x_alloc", g |-> c.g, argv |-> c.argv,
                                        new |-> m.t, sz |-> 0, k |-> 1, a |-> 0]]
     \/ FreeArgv(p)
  /\ UNCHANGED <<content, state, pt, sz, trapframe, mem, panic>>

\* kexec()'s error exit with page table t of size newsz, and sys_exec()'s.
bad(p, t, newsz, fr) ==
  LET d == proc_freepagetable(t, newsz, fr \cup call[p].argv) IN
  /\ freelist' = d.fr
  /\ content' = Filled(d.fr, None, "zero")
  /\ panic' = (panic \/ d.leaf)
  /\ call' = [call EXCEPT ![p] = Idle]
  /\ UNCHANGED <<pt, sz, mem>>

\* One page of kexec()'s uvmalloc(), or its return.
exec_alloc(p) ==
  /\ Running(p, "x_alloc")
  /\ LET c == call[p]
         m == kalloc_map(c.new, c.a, Perm(c), freelist)
         u == GrowUndone(m.t, c.sz, c.a, m.fr)
     IN
     \/ /\ c.a * PGSIZE < Target(c) /\ m.ok
        /\ freelist' = m.fr
        /\ content' = Filled(m.fr, Min(freelist), "zero")
        /\ panic' = (panic \/ m.remap)
        /\ call' = [call EXCEPT ![p].new = m.t, ![p].a = @ + 1]
        /\ UNCHANGED <<pt, sz, mem>>
     \/ /\ c.a * PGSIZE < Target(c) /\ ~m.ok
        /\ bad(p, u.t, c.sz, u.fr)
     \/ /\ c.a * PGSIZE >= Target(c)
        /\ call' = [call EXCEPT ![p].pc = IF c.k <= Len(c.g) THEN "x_load" ELSE "x_args",
                                ![p].sz = Max({c.sz, Target(c)})]
        /\ UNCHANGED <<freelist, content, panic, pt, sz, mem>>
  /\ UNCHANGED <<state, trapframe>>

\* loadseg(), which panics on a page that is not there; the file may be short.
exec_load(p) ==
  /\ Running(p, "x_load")
  /\ LET c == call[p]
         pages == Text(c.g[c.k])
         there == {i \in pages \cap Mapped(c.new) : c.new.pte[i].u}
         frames == {c.new.pte[i].f : i \in there}
     IN
     \/ bad(p, c.new, c.sz, freelist)
     \/ /\ panic' = (panic \/ there # pages)
        /\ content' = [f \in Frames |-> IF f \in frames THEN "text" ELSE content[f]]
        /\ call' = [call EXCEPT ![p].pc = "x_alloc", ![p].k = @ + 1, ![p].a = PageUp(c.sz)]
        /\ UNCHANGED <<freelist, pt, sz, mem>>
  /\ UNCHANGED <<state, trapframe>>

\* uvmclear() of the guard page, the arguments, and the switch to the new
\* image; or too many arguments.
exec_commit(p) ==
  /\ Running(p, "x_args")
  /\ LET c == call[p]
         guard == c.sz \div PGSIZE - USERSTACK - 1
         last == c.sz \div PGSIZE - 1
         new == [c.new EXCEPT !.pte[guard].u = FALSE]
         d == proc_freepagetable(pt[p], sz[p], freelist \cup c.argv)
     IN
     \/ bad(p, new, c.sz, freelist)
     \/ /\ pt' = [pt EXCEPT ![p] = new]
        /\ sz' = [sz EXCEPT ![p] = c.sz]
        /\ freelist' = d.fr
        /\ content' = Filled(d.fr, new.pte[last].f, "args")
        /\ panic' = (panic \/ d.leaf \/ c.new.pte[guard] = None)
        /\ mem' = [mem EXCEPT ![p] = Image(c.g, c.sz)]
        /\ call' = [call EXCEPT ![p] = Idle]
  /\ UNCHANGED <<state, trapframe>>

-----------------------------------------------------------------------------
\* Every call has returned: what the bound on the calls leaves to do.
AllReturned ==
  /\ \A p \in Procs : call[p].pc = "idle" /\ state[p] # "zombie"
  /\ UNCHANGED vars

Next ==
  \/ \E p \in Procs :
       \/ \E n \in SbrkArgs : sbrk_lazy(p, n) \/ sbrk_eager(p, n) \/ sbrk_shrink(p, n)
       \/ \E i \in Pages, v \in Data : store(p, i, v)
       \/ \E va \in 0..(TRAPFRAME - 1) : vmfault(p, va)
       \/ \E c \in Procs : fork(p, c)
       \/ \E g \in Progs : exec(p, g)
       \/ grow(p) \/ fork_pagetable(p) \/ fork_copy(p)
       \/ exec_argv(p) \/ exec_pagetable(p) \/ exec_alloc(p) \/ exec_load(p) \/ exec_commit(p)
       \/ kexit(p) \/ kwait(p)
  \/ kalloc_held \/ kfree_held
  \/ AllReturned

Spec == Init /\ [][Next]_vars

-----------------------------------------------------------------------------
\* The page tables in existence with their owners, and every reference to a
\* frame: what kind, of which process, its index, the frame.
PageTables ==
  {<<"own", p, pt[p]>> : p \in {q \in Procs : pt[q] # None}} \cup
  {<<"new", p, call[p].new>> : p \in {q \in Procs : "new" \in DOMAIN call[q]}}
Refs ==
  {<<"free", None, 0, f>> : f \in freelist} \cup
  {<<"held", None, 0, f>> : f \in held} \cup
  {<<"trapframe", p, 0, trapframe[p]>> : p \in {q \in Procs : trapframe[q] # None}} \cup
  UNION {{<<"argv", p, 0, f>> : f \in call[p].argv} :
           p \in {q \in Procs : "argv" \in DOMAIN call[q]}} \cup
  UNION {{<<t[1], t[2], -1, f>> : f \in FramesOf(t[3])} : t \in PageTables} \cup
  UNION {{<<t[1], t[2], i, t[3].pte[i].f>> : i \in Mapped(t[3])} : t \in PageTables}

\* Every physical page is in exactly one place: on the free list, with the
\* rest of the kernel, or one process's trapframe, page-table page, user page
\* or argument page.  No path through sbrk(), fork(), exec(), a page fault or
\* exit(), successful or out of memory anywhere, leaks a page, frees one twice
\* or shares one.
FramesConserved == \A f \in Frames : Cardinality({r \in Refs : r[4] = f}) = 1

\* No panic of vm.c or exec.c is reached: mappages() never meets a mapping,
\* freewalk() no leftover leaf, loadseg() and uvmclear() no missing page.
NoPanic == ~panic

\* Every process sees private memory that is zero until it writes to it, that
\* fork() copies and exec() replaces, and that a call that fails leaves alone;
\* lazy allocation, rounding to pages and reuse of pages do not show.
PrivateMemory ==
  \A p \in Procs : state[p] \in {"live", "zombie"} => \A i \in Pages :
    mem[p][i] = IF i \in Mapped(pt[p]) THEN content[pt[p].pte[i].f] ELSE "zero"

\* Types; no panic of vm.c or kalloc.c; and no page at or above the size is
\* mapped, except by the growth in progress: what freeing by size rests on.
VmInv ==
  /\ NoPanic
  /\ freelist \subseteq Frames /\ content \in [Frames -> Values]
  /\ sz \in [Procs -> 0..TRAPFRAME]
  /\ state \in [Procs -> {"unused", "used", "live", "zombie"}]
  /\ trapframe \in [Procs -> Frames \cup {None}]
  /\ \A p \in Procs :
       /\ state[p] \in {"live", "zombie"} =>
            /\ pt[p].top = {"trampoline", "trapframe"}
            /\ \A i \in Mapped(pt[p]) :
                 i < IF call[p].pc = "grow" THEN call[p].a ELSE PageUp(sz[p])
       /\ state[p] = "unused" => pt[p] = None /\ sz[p] = 0 /\ trapframe[p] = None
=============================================================================
