--------------------------------- MODULE Vm ---------------------------------
(***************************************************************************)
(* User memory: kernel/kalloc.c, kernel/vm.c, kernel/exec.c and the parts  *)
(* of proc.c, sysproc.c and sysfile.c that make, grow, copy and free a     *)
(* page table.  A page table belongs to one process, and the free list is  *)
(* the only thing the processes share, so one action runs from one page    *)
(* allocated to the next.  Addresses and sizes count units of which PGSIZE *)
(* make a page.  mem is the memory a user program believes it has; nothing *)
(* in the code reads it.                                                   *)
(***************************************************************************)
EXTENDS Integers, FiniteSets, SequencesExt

CONSTANTS
  Procs,      \* slots of the process table
  Frames,     \* physical pages, numbered
  PGSIZE,     \* units in a page
  NPAGES,     \* user pages below TRAPFRAME
  PerTable,   \* pages one lowest-level page-table page maps
  Depth,      \* page-table pages below the root on the way to a PTE
  Progs,      \* executables: sequences of segments
  USERSTACK,  \* pages of user stack
  SbrkArgs,   \* what sbrk() is called with, up to its sign
  Data,       \* what user programs store
  MaxCalls,   \* bound: system calls and stores in all
  MaxHeld,    \* bound: pages the rest of the kernel starts with
  None

ASSUME VmAssumption ==
  /\ Frames \subseteq Nat /\ PGSIZE \in Nat \ {0} /\ NPAGES \in Nat \ {0}
  /\ PerTable \in Nat \ {0} /\ Depth \in Nat \ {0}
  /\ \A g \in Progs : \A i \in DOMAIN g :
       g[i].va % PGSIZE = 0 /\ g[i].filesz <= g[i].memsz

VARIABLES
  freelist,   \* kmem.freelist, as a set
  content,    \* what a frame holds
  state, pt, sz, trapframe,  \* struct proc: state, pagetable, sz, trapframe
  held,       \* pages the rest of the kernel has, such as pipes
  call,       \* the system call in progress
  mem,
  calls,
  panic

vars == <<freelist, content, state, pt, sz, trapframe, held, call, mem, calls, panic>>

Pages == 0..(NPAGES - 1)
TRAPFRAME == NPAGES * PGSIZE
PageUp(x) == (x + PGSIZE - 1) \div PGSIZE  \* PGROUNDUP(x) / PGSIZE

\* The page-table page a user page needs; trampoline and trapframe share one.
Top == -1
TableOf(i) == i \div PerTable
Tables == {Top} \cup {TableOf(i) : i \in Pages}

Values == Data \cup {"junk", "zero", "text", "args"}
Zeroed == [i \in Pages |-> "zero"]
Idle == [pc |-> "idle"]

\* struct pagetable: the root, the page-table pages under it by path, the
\* PTEs of user pages, and the PTEs of the trampoline and the trapframe.
Empty(f) == [root |-> f, tab |-> [t \in Tables |-> <<>>], pte |-> [i \in Pages |-> None],
             top |-> {}]

FramesOf(t) == {t.root} \cup UNION {ToSet(t.tab[k]) : k \in Tables}
Mapped(t) == {i \in Pages : t.pte[i] # None}

-----------------------------------------------------------------------------
(* kalloc.c and vm.c as functions of a page table t and a free list fr.    *)
(* Which free page kalloc() returns does not matter: it is the lowest.     *)

Lowest(fr, n) ==
  LET low[k \in 0..n] == IF k = 0 THEN <<>>
                         ELSE Append(low[k-1], Min(fr \ ToSet(low[k-1])))
  IN  low[n]

\* walk(t, va, 1): page-table pages are added until there is no free page.
walk(t, k, fr) ==
  LET need == Depth - Len(t.tab[k])
      got == Lowest(fr, Min({need, Cardinality(fr)}))
  IN  [ok |-> Len(got) = need,
       t |-> [t EXCEPT !.tab[k] = @ \o got],
       fr |-> fr \ ToSet(got),
       remap |-> FALSE]

\* mappages() of one user page; it panics on a PTE in use.
mappages(t, i, pte, fr) ==
  LET w == walk(t, TableOf(i), fr) IN
  IF w.ok THEN [w EXCEPT !.t.pte[i] = pte, !.remap = t.pte[i] # None] ELSE w

\* Mutant of kalloc_map: the page that could not be mapped is not freed.
kalloc_map_leak(t, i, perm, fr) ==
  IF fr = {} THEN [ok |-> FALSE, t |-> t, fr |-> fr, remap |-> FALSE]
  ELSE mappages(t, i, [f |-> Min(fr), u |-> perm.u, w |-> perm.w], fr \ {Min(fr)})

\* What uvmalloc(), uvmcopy() and vmfault() do for a page: kalloc(), then
\* mappages(), and kfree() if that fails.
kalloc_map(t, i, perm, fr) ==
  IF fr = {} THEN [ok |-> FALSE, t |-> t, fr |-> fr, remap |-> FALSE]
  ELSE LET m == mappages(t, i, [f |-> Min(fr), u |-> perm.u, w |-> perm.w], fr \ {Min(fr)})
       IN  IF m.ok THEN m ELSE [m EXCEPT !.fr = @ \cup {Min(fr)}]

\* uvmunmap(t, lo, hi - lo, 1)
uvmunmap(t, lo, hi, fr) ==
  LET gone == {i \in Mapped(t) : lo <= i /\ i < hi} IN
  [t |-> [t EXCEPT !.pte = [i \in Pages |-> IF i \in gone THEN None ELSE t.pte[i]]],
   fr |-> fr \cup {t.pte[i].f : i \in gone}]

\* proc_freepagetable(t, size): the pages below size, then freewalk(), which
\* panics on a PTE that is left.
proc_freepagetable(t, size, fr) ==
  LET u == uvmunmap(t, 0, PageUp(size), fr) IN
  [fr |-> u.fr \cup FramesOf(t), leaf |-> Mapped(u.t) # {}]

\* proc_pagetable(): root, trampoline, trapframe; all of it undone on failure.
proc_pagetable(fr) ==
  IF fr = {} THEN [ok |-> FALSE, t |-> None, fr |-> fr]
  ELSE LET w == walk(Empty(Min(fr)), Top, fr \ {Min(fr)}) IN
       IF w.ok THEN [ok |-> TRUE, fr |-> w.fr,
                     t |-> [w.t EXCEPT !.top = {"trampoline", "trapframe"}]]
       ELSE [ok |-> FALSE, t |-> None, fr |-> proc_freepagetable(w.t, 0, w.fr).fr]

\* kalloc() and kfree() fill a page with junk; v is what is then put in f.
Filled(fr, f, v) ==
  [g \in Frames |-> IF g \in fr THEN "junk" ELSE IF g = f THEN v ELSE content[g]]

-----------------------------------------------------------------------------
\* One process of one page, and whatever the rest of the kernel has taken.
Init ==
  LET first == CHOOSE p \in Procs : TRUE
      w == proc_pagetable(Frames \ {Min(Frames)})
      m == kalloc_map(w.t, 0, [u |-> TRUE, w |-> TRUE], w.fr)
  IN
  /\ \E n \in 0..MaxHeld :
       /\ held = {f \in m.fr : Cardinality({g \in m.fr : g > f}) < n}
       /\ freelist = m.fr \ held
  /\ content = [f \in Frames |-> IF f = m.t.pte[0].f THEN "zero" ELSE "junk"]
  /\ state = [p \in Procs |-> IF p = first THEN "live" ELSE "unused"]
  /\ pt = [p \in Procs |-> IF p = first THEN m.t ELSE None]
  /\ sz = [p \in Procs |-> IF p = first THEN PGSIZE ELSE 0]
  /\ trapframe = [p \in Procs |-> IF p = first THEN Min(Frames) ELSE None]
  /\ call = [p \in Procs |-> Idle]
  /\ mem = [p \in Procs |-> Zeroed]
  /\ calls = 0
  /\ panic = FALSE

Enter(p) ==
  /\ state[p] = "live" /\ call[p].pc = "idle"
  /\ calls < MaxCalls /\ calls' = calls + 1
  /\ UNCHANGED held

Running(p, pc) == call[p].pc = pc /\ UNCHANGED <<calls, held>>

\* pipealloc() or pipeclose(): a page comes or goes under the processes' feet.
kalloc_held ==
  /\ calls < MaxCalls /\ calls' = calls + 1
  /\ freelist # {}
  /\ held' = held \cup {Min(freelist)}
  /\ freelist' = freelist \ {Min(freelist)}
  /\ UNCHANGED <<content, state, pt, sz, trapframe, call, mem, panic>>

kfree_held ==
  /\ calls < MaxCalls /\ calls' = calls + 1
  /\ held # {}
  /\ freelist' = freelist \cup {Max(held)}
  /\ held' = held \ {Max(held)}
  /\ UNCHANGED <<content, state, pt, sz, trapframe, call, mem, panic>>

-----------------------------------------------------------------------------
(* sbrk()                                                                  *)

\* sys_sbrk(n, SBRK_LAZY), 0 <= n: only p->sz grows.
sbrk_lazy(p, n) ==
  /\ Enter(p)
  /\ sz' = [sz EXCEPT ![p] = IF @ + n > TRAPFRAME THEN @ ELSE @ + n]
  /\ UNCHANGED <<freelist, content, state, pt, trapframe, call, mem, panic>>

\* growproc(n), 0 < n, up to uvmalloc()'s loop.
sbrk_eager(p, n) ==
  /\ Enter(p)
  /\ sz[p] + n <= TRAPFRAME
  /\ call' = [call EXCEPT ![p] = [pc |-> "grow", a |-> PageUp(sz[p]), newsz |-> sz[p] + n]]
  /\ UNCHANGED <<freelist, content, state, pt, sz, trapframe, mem, panic>>

\* Mutant of GrowUndone: uvmalloc() leaves the pages it got.
GrowUndoneNot(t, size, a, fr) == [t |-> t, fr |-> fr]

\* uvmalloc()'s error exit at page a: uvmdealloc() back to the old size.
GrowUndone(t, size, a, fr) == uvmunmap(t, PageUp(size), a, fr)

\* One page of growproc()'s uvmalloc(), or its return.
grow(p) ==
  /\ Running(p, "grow")
  /\ LET c == call[p]
         m == kalloc_map(pt[p], c.a, [u |-> TRUE, w |-> TRUE], freelist)
         u == GrowUndone(m.t, sz[p], c.a, m.fr)
     IN
     \/ /\ c.a * PGSIZE >= c.newsz
        /\ sz' = [sz EXCEPT ![p] = c.newsz]
        /\ call' = [call EXCEPT ![p] = Idle]
        /\ UNCHANGED <<freelist, content, pt, panic>>
     \/ /\ c.a * PGSIZE < c.newsz /\ m.ok
        /\ freelist' = m.fr /\ pt' = [pt EXCEPT ![p] = m.t]
        /\ content' = Filled(m.fr, Min(freelist), "zero")
        /\ call' = [call EXCEPT ![p].a = @ + 1]
        /\ panic' = (panic \/ m.remap)
        /\ UNCHANGED sz
     \/ /\ c.a * PGSIZE < c.newsz /\ ~m.ok
        /\ freelist' = u.fr /\ pt' = [pt EXCEPT ![p] = u.t]
        /\ content' = Filled(u.fr, None, "zero")
        /\ call' = [call EXCEPT ![p] = Idle]
        /\ UNCHANGED <<sz, panic>>
  /\ UNCHANGED <<state, trapframe, mem>>

\* Mutant of PageKept: the page the new size ends in is unmapped too.
PageKeptDown(size) == size \div PGSIZE

\* The first page uvmdealloc() takes away.
PageKept(size) == PageUp(size)

\* growproc(-n): uvmdealloc().  A size below zero wraps to a huge one, which
\* uvmdealloc() takes for no change.
sbrk_shrink(p, n) ==
  /\ Enter(p)
  /\ LET newsz == IF n > sz[p] THEN sz[p] ELSE sz[p] - n
         u == uvmunmap(pt[p], PageKept(newsz), PageUp(sz[p]), freelist)
     IN  /\ sz' = [sz EXCEPT ![p] = newsz]
         /\ freelist' = u.fr /\ pt' = [pt EXCEPT ![p] = u.t]
         /\ content' = Filled(u.fr, None, "zero")
         /\ mem' = [mem EXCEPT ![p] = [i \in Pages |->
                      IF i >= PageUp(newsz) THEN "zero" ELSE mem[p][i]]]
  /\ UNCHANGED <<state, trapframe, call, panic>>

-----------------------------------------------------------------------------
(* Access to memory, by the user program or by copyin() and copyout()      *)

\* A store, or copyout(), to a page mapped for the user and writable.
store(p, i, v) ==
  /\ Enter(p)
  /\ i \in Mapped(pt[p]) /\ pt[p].pte[i].u /\ pt[p].pte[i].w
  /\ content' = [content EXCEPT ![pt[p].pte[i].f] = v]
  /\ mem' = [mem EXCEPT ![p][i] = v]
  /\ UNCHANGED <<freelist, state, pt, sz, trapframe, call, panic>>

\* vmfault(va) for an access to a page that is not mapped.  If it returns 0
\* the copy fails, or usertrap() kills the process: kexit() below.
vmfault(p, va) ==
  /\ Enter(p)
  /\ va < sz[p]
  /\ va \div PGSIZE \notin Mapped(pt[p])
  /\ LET m == kalloc_map(pt[p], va \div PGSIZE, [u |-> TRUE, w |-> TRUE], freelist) IN
       /\ freelist' = m.fr /\ pt' = [pt EXCEPT ![p] = m.t]
       /\ content' = Filled(m.fr, IF m.ok THEN Min(freelist) ELSE None, "zero")
       /\ panic' = (panic \/ m.remap)
  /\ UNCHANGED <<state, sz, trapframe, call, mem>>

-----------------------------------------------------------------------------
(* fork(), exit() and wait()                                               *)

\* allocproc() up to the trapframe.
fork(p, c) ==
  /\ Enter(p)
  /\ state[c] = "unused"
  /\ freelist # {}
  /\ state' = [state EXCEPT ![c] = "used"]
  /\ trapframe' = [trapframe EXCEPT ![c] = Min(freelist)]
  /\ freelist' = freelist \ {Min(freelist)}
  /\ call' = [call EXCEPT ![p] = [pc |-> "fork", child |-> c]]
  /\ UNCHANGED <<content, pt, sz, mem, panic>>

\* freeproc(c), with c's page table and size as they are.
freeproc(c, t, fr) ==
  LET d == proc_freepagetable(t, sz[c], fr \cup {trapframe[c]}) IN
  /\ freelist' = d.fr
  /\ content' = Filled(d.fr, None, "zero")
  /\ panic' = (panic \/ d.leaf)
  /\ trapframe' = [trapframe EXCEPT ![c] = None]
  /\ pt' = [pt EXCEPT ![c] = None]
  /\ sz' = [sz EXCEPT ![c] = 0]
  /\ state' = [state EXCEPT ![c] = "unused"]

\* allocproc()'s proc_pagetable(); without one, freeproc() frees the trapframe.
fork_pagetable(p) ==
  /\ Running(p, "fork")
  /\ LET c == call[p].child
         m == proc_pagetable(freelist)
     IN
     \/ /\ m.ok
        /\ freelist' = m.fr /\ pt' = [pt EXCEPT ![c] = m.t]
        /\ call' = [call EXCEPT ![p] = [pc |-> "copy", child |-> c, a |-> 0]]
        /\ UNCHANGED <<content, state, sz, trapframe, panic>>
     \/ /\ ~m.ok
        /\ freelist' = freelist \cup {trapframe[c]}
        /\ trapframe' = [trapframe EXCEPT ![c] = None]
        /\ state' = [state EXCEPT ![c] = "unused"]
        /\ call' = [call EXCEPT ![p] = Idle]
        /\ UNCHANGED <<content, pt, sz, panic>>
  /\ UNCHANGED mem

\* uvmcopy()'s error exit: uvmunmap(new, 0, i / PGSIZE, 1).
CopyUndone(t, a, fr) == uvmunmap(t, 0, a, fr)

\* One page of uvmcopy(), or fork()'s return.  Pages the parent has not
\* touched are skipped; the child's size is set only after the copy.
fork_copy(p) ==
  /\ Running(p, "copy")
  /\ LET c == call[p].child
         a == call[p].a
         e == pt[p].pte[a]
         m == kalloc_map(pt[c], a, e, freelist)
         u == CopyUndone(m.t, a, m.fr)
     IN
     \/ /\ a * PGSIZE >= sz[p]
        /\ sz' = [sz EXCEPT ![c] = sz[p]]
        /\ mem' = [mem EXCEPT ![c] = mem[p]]
        /\ state' = [state EXCEPT ![c] = "live"]
        /\ call' = [call EXCEPT ![p] = Idle]
        /\ UNCHANGED <<freelist, content, pt, trapframe, panic>>
     \/ /\ a * PGSIZE < sz[p] /\ e = None
        /\ call' = [call EXCEPT ![p].a = @ + 1]
        /\ UNCHANGED <<freelist, content, state, pt, sz, trapframe, mem, panic>>
     \/ /\ a * PGSIZE < sz[p] /\ e # None /\ m.ok
        /\ freelist' = m.fr /\ pt' = [pt EXCEPT ![c] = m.t]
        /\ content' = Filled(m.fr, Min(freelist), content[e.f])
        /\ panic' = (panic \/ m.remap)
        /\ call' = [call EXCEPT ![p].a = @ + 1]
        /\ UNCHANGED <<state, sz, trapframe, mem>>
     \/ /\ a * PGSIZE < sz[p] /\ e # None /\ ~m.ok
        /\ freeproc(c, u.t, u.fr)
        /\ call' = [call EXCEPT ![p] = Idle]
        /\ UNCHANGED mem

\* kexit(): the memory stays until the parent waits.
kexit(p) ==
  /\ Enter(p)
  /\ Cardinality({q \in Procs : state[q] = "live"}) > 1
  /\ state' = [state EXCEPT ![p] = "zombie"]
  /\ UNCHANGED <<freelist, content, pt, sz, trapframe, call, mem, panic>>

\* kwait() finds the zombie c.
kwait(c) ==
  /\ state[c] = "zombie"
  /\ freeproc(c, pt[c], freelist)
  /\ mem' = [mem EXCEPT ![c] = Zeroed]
  /\ UNCHANGED <<call, calls, held>>
=============================================================================
