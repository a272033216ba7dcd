------------------------------- MODULE Shell -------------------------------
(***************************************************************************)
(* The shell of user/sh.c and the first process of user/init.c, over the   *)
(* open files of the kernel. A process is the list of system calls it has  *)
(* yet to make: runcmd() never returns, so a command is run by putting its *)
(* calls in front. Calls of different processes interleave.                *)
(***************************************************************************)
EXTENDS File, ShellParse

CONSTANTS
  Inputs,    \* lines that are parsed
  Lines,     \* the ones of them that are also run
  Programs,  \* words exec() finds
  Readers,   \* of them, the ones that read their input to its end
  FileNames  \* words used as file names

ASSUME LinesAreInputs == Lines \subseteq Inputs

VARIABLES
  line,     \* what the user types, then the end of the input
  console,  \* the device file is there
  typed,    \* how many lines getcmd() has read: the line, then the end
  state, parent,  \* of struct proc
  todo,     \* the calls a process has yet to make
  sh,       \* the shell init started
  io        \* where the command of p reads and writes, by its meaning

svars == <<line, console, typed, state, parent, todo, sh, io>>
vars == <<fvars, pairs, svars>>

initproc == 1
Console == <<"inode", "console">>

op(name) == [op |-> name]
close(fd) == [op |-> "close", fd |-> fd]
dup(fd) == [op |-> "dup", fd |-> fd]
open(c) == [op |-> "open", cmd |-> c]
fork1(calls, in, out) == [op |-> "fork", calls |-> calls, io |-> <<in, out>>]
run(c) == [op |-> "run", cmd |-> c]
exit == <<op("exit")>>

\* main() of init.c, of sh.c.
StartSh == <<fork1(<<op("sh")>>, Console, Console), op("initwait")>>
InitMain == <<op("console"), dup(0), dup(0)>> \o StartSh
ShMain == <<op("console3"), op("getcmd")>>

Init ==
  /\ FileInit(FileNames \cup {"console"})
  /\ line \in Inputs
  /\ console \in BOOLEAN /\ (line \notin Lines => console)
  /\ typed = 0
  /\ state = [p \in Procs |-> IF p = initproc THEN "live" ELSE "unused"]
  /\ parent = [p \in Procs |-> None]
  /\ todo = [p \in Procs |-> IF p = initproc THEN InitMain ELSE <<>>]
  /\ sh = None
  /\ io = [p \in Procs |-> <<Console, Console>>]

\* p's next call is name, and its last one is over.
Calls(p, name) ==
  /\ line \in Lines
  /\ state[p] = "live" /\ closing[p] = None
  /\ Head(todo[p]).op = name

Becomes(p, calls) == todo' = [todo EXCEPT ![p] = calls]
Continue(p) == Becomes(p, Tail(todo[p]))
OnlyTodo == UNCHANGED <<line, console, typed, state, parent, sh, io>>

\* Mutant of PipeCalls: the parent keeps the write end while it waits.
PipeCallsKept(c, p0, p1, in, pi, out) ==
  << fork1(<<close(1), dup(p1), close(p0), close(p1), run(c.left)>>, in, pi),
     fork1(<<close(0), dup(p0), close(p0), close(p1), run(c.right)>>, pi, out),
     close(p0), op("wait"), op("wait") >> \o exit

\* Mutant of PipeCalls: the pipe becomes the output of the right command.
PipeCallsOut(c, p0, p1, in, pi, out) ==
  << fork1(<<close(1), dup(p1), close(p0), close(p1), run(c.left)>>, in, pi),
     fork1(<<close(1), dup(p0), close(p0), close(p1), run(c.right)>>, pi, out),
     close(p0), close(p1), op("wait"), op("wait") >> \o exit

\* runcmd(PIPE) once pipe() has returned p0 and p1.
PipeCalls(c, p0, p1, in, pi, out) ==
  << fork1(<<close(1), dup(p1), close(p0), close(p1), run(c.left)>>, in, pi),
     fork1(<<close(0), dup(p0), close(p0), close(p1), run(c.right)>>, pi, out),
     close(p0), close(p1), op("wait"), op("wait") >> \o exit

runcmd(p) ==
  /\ Calls(p, "run")
  /\ LET c == Head(todo[p]).cmd
         same(d) == fork1(<<run(d)>>, io[p][1], io[p][2])
     IN Becomes(p,
          CASE c.type = "EXEC" /\ c.argv # <<>> -> <<[op |-> "exec", name |-> c.argv[1]]>> \o exit
            [] c.type = "REDIR" -> <<close(c.fd), open(c), run(c.cmd)>>
            [] c.type = "LIST" -> <<same(c.left), op("wait"), run(c.right)>>
            [] c.type = "PIPE" -> <<[op |-> "pipe", cmd |-> c]>>
            [] c.type = "BACK" -> <<same(c.cmd)>> \o exit
            [] OTHER -> exit)
  /\ UNCHANGED fvars /\ OnlyTodo

do_pipe(p) ==
  /\ Calls(p, "pipe")
  /\ \/ /\ sys_pipe(p)
        /\ Becomes(p, PipeCalls(Head(todo[p]).cmd, Min(FreeFds(p)), Second(FreeFds(p)),
                                io[p][1], <<"pipe", Min(FreePipes)>>, io[p][2]))
     \/ ~ PipeOk(p) /\ UNCHANGED fvars /\ Becomes(p, exit)
  /\ OnlyTodo

do_close(p) ==
  /\ Calls(p, "close")
  /\ sys_close(p, Head(todo[p]).fd)
  /\ Continue(p) /\ OnlyTodo

do_dup(p) ==
  /\ Calls(p, "dup")
  /\ sys_dup(p, Head(todo[p]).fd)
  /\ Continue(p) /\ OnlyTodo

\* open() of a redirection; the file may not be there.
do_open(p) ==
  /\ Calls(p, "open")
  /\ LET c == Head(todo[p]).cmd IN
     \/ /\ sys_open(p, c.file)
        /\ io' = [io EXCEPT ![p][c.fd + 1] = <<"inode", c.file>>]
        /\ Continue(p)
     \/ UNCHANGED <<fvars, io>> /\ Becomes(p, exit)
  /\ UNCHANGED <<line, console, typed, state, parent, sh>>

\* init opens the console, which a new disk does not have yet.
do_console(p) ==
  /\ Calls(p, "console")
  /\ IF console
     THEN sys_open(p, "console") /\ Continue(p)
     ELSE UNCHANGED fvars /\ Becomes(p, <<op("mknod")>> \o todo[p])
  /\ OnlyTodo

do_mknod(p) ==
  /\ Calls(p, "mknod")
  /\ console' = TRUE
  /\ Continue(p)
  /\ UNCHANGED <<fvars, line, typed, state, parent, sh, io>>

\* sh opens it until it has three descriptors.
do_console3(p) ==
  /\ Calls(p, "console3")
  /\ IF OpenOk(p)
     THEN LET fd == Min(FreeFds(p)) IN
          /\ sys_open(p, "console")
          /\ Becomes(p, IF fd >= 3 THEN <<close(fd)>> \o Tail(todo[p]) ELSE todo[p])
     ELSE UNCHANGED fvars /\ Continue(p)
  /\ OnlyTodo

\* fork1(): kfork(), or panic().
do_fork(p) ==
  /\ Calls(p, "fork")
  /\ LET free == {c \in Procs : state[c] = "unused"}
         c == Min(free)
     IN \/ /\ free # {}
           /\ fork_files(p, c)
           /\ state' = [state EXCEPT ![c] = "live"]
           /\ parent' = [parent EXCEPT ![c] = p]
           /\ io' = [io EXCEPT ![c] = Head(todo[p]).io]
           /\ todo' = [todo EXCEPT ![p] = Tail(@), ![c] = Head(todo[p]).calls]
           /\ sh' = IF p = initproc THEN c ELSE sh
        \/ /\ free = {}
           /\ Becomes(p, exit)
           /\ UNCHANGED <<fvars, state, parent, sh, io>>
  /\ UNCHANGED <<line, console, typed>>

\* The loop of main() in sh.c: a line is parsed by the child that runs it.
RunLine == <<fork1(<<run(parsecmd(line))>>, Console, Console), op("wait")>>

\* At the end of the input the shell exits. The next shell waits for input.
getcmd(p) ==
  /\ Calls(p, "getcmd")
  /\ typed < 2
  /\ typed' = typed + 1
  /\ Becomes(p, IF typed = 0 THEN RunLine \o todo[p] ELSE exit)
  /\ UNCHANGED <<fvars, line, console, state, parent, sh, io>>

\* exec() of a program, and the program: it ends when it likes, or at the
\* end of its input.
do_exec(p) ==
  /\ Calls(p, "exec")
  /\ LET name == Head(todo[p]).name IN
     IF name \in Programs THEN Becomes(p, <<[op |-> "prog", name |-> name]>>) ELSE Continue(p)
  /\ UNCHANGED fvars /\ OnlyTodo

do_sh(p) ==
  /\ Calls(p, "sh")
  /\ Becomes(p, ShMain)
  /\ UNCHANGED fvars /\ OnlyTodo

Eof(p) ==
  LET f == ofile[p][0] IN
  f # None /\ ftable[f].type = "pipe" => "w" \notin pipe[ftable[f].obj]

prog(p) ==
  /\ Calls(p, "prog") /\ Head(todo[p]).name # "testip"
  /\ Head(todo[p]).name \in Readers => Eof(p)
  /\ Becomes(p, exit)
  /\ UNCHANGED fvars /\ OnlyTodo

\* The program testip calls inodepairs() and ends.
testip(p) ==
  /\ Calls(p, "prog") /\ Head(todo[p]).name = "testip"
  /\ \/ (inodepairs(p) \/ inodepairs_next(p)) /\ UNCHANGED todo
     \/ inodepairs_return(p) /\ Becomes(p, exit)
  /\ UNCHANGED fvars /\ OnlyTodo

\* kexit(): the loop over ofile, then reparent() and ZOMBIE.
kexit_close(p) ==
  /\ Calls(p, "exit") /\ p # initproc
  /\ OpenFds(p) # {}
  /\ sys_close(p, Min(OpenFds(p)))
  /\ UNCHANGED svars

\* Mutant of reparent: children stay with the process that exits.
reparent_not(p) == UNCHANGED parent

reparent(p) == parent' = [c \in Procs |-> IF parent[c] = p THEN initproc ELSE parent[c]]

kexit(p) ==
  /\ Calls(p, "exit")
  /\ OpenFds(p) = {}
  /\ reparent(p)
  /\ state' = [state EXCEPT ![p] = "zombie"]
  /\ UNCHANGED <<fvars, line, console, typed, todo, sh, io>>

\* kwait(): the first zombie child in the table. (Waiting without a child
\* fails at once in the kernel; here it would stop the process, and LineEnds
\* would show it. The shell never does.)
Children(p) == {c \in Procs : parent[c] = p}
Zombies(p) == {c \in Children(p) : state[c] = "zombie"}
Reap(p, c, calls) ==
  /\ state' = [state EXCEPT ![c] = "unused"]
  /\ parent' = [parent EXCEPT ![c] = None]
  /\ todo' = [todo EXCEPT ![c] = <<>>, ![p] = calls]
  /\ io' = [io EXCEPT ![c] = <<Console, Console>>]

kwait(p) ==
  /\ Calls(p, "wait")
  /\ Zombies(p) # {}
  /\ Reap(p, Min(Zombies(p)), Tail(todo[p]))
  /\ UNCHANGED <<fvars, line, console, typed, sh>>

\* init's loop: when the shell has ended, it starts the next one.
init_wait(p) ==
  /\ Calls(p, "initwait")
  /\ Zombies(p) # {}
  /\ LET c == Min(Zombies(p)) IN Reap(p, c, IF c = sh THEN StartSh ELSE todo[p])
  /\ UNCHANGED <<fvars, line, console, typed, sh>>

do_fileclose(p) == fileclose_obj(p) /\ UNCHANGED svars

\* p cannot go on: it waits for input, for a child, or is no more.
Blocked(p) ==
  \/ state[p] # "live"
  \/ Calls(p, "prog") /\ Head(todo[p]).name \in Readers /\ ~ Eof(p)
  \/ Calls(p, "wait") /\ Zombies(p) = {}
  \/ Calls(p, "initwait") /\ Zombies(p) = {}
  \/ Calls(p, "getcmd") /\ typed = 2

\* Nothing is left to do: a shell waits for a line.
Idle ==
  /\ line \in Lines =>
       /\ typed = 2
       /\ \A p \in Procs : Blocked(p)
  /\ UNCHANGED vars

Next ==
  \/ \E p \in Procs : testip(p)
  \/ \E p \in Procs :
     /\ UNCHANGED pairs
     /\ \/ runcmd(p) \/ do_pipe(p) \/ do_close(p) \/ do_dup(p) \/ do_open(p)
        \/ do_console(p) \/ do_mknod(p) \/ do_console3(p) \/ do_fork(p) \/ getcmd(p)
        \/ do_exec(p) \/ do_sh(p) \/ prog(p) \/ kexit_close(p) \/ kexit(p)
        \/ kwait(p) \/ init_wait(p) \/ do_fileclose(p)
  \/ Idle

Spec == Init /\ [][Next]_vars

-----------------------------------------------------------------------------
\* Types; exact counts and pipe ends; a struct file is free exactly when its
\* count is zero, and then has no type, so that the error paths of pipealloc()
\* and sys_open() close no object; a process that has exited has no open file.
ShellInv ==
  /\ RefExact /\ PipeEnds
  /\ \A f \in Files : ftable[f].ref = 0 <=> ftable[f] = Freed(f)
  /\ \A p \in Procs :
       state[p] # "live" => OpenFds(p) = {} /\ closing[p] = None
  /\ typed \in 0..2 /\ console \in BOOLEAN

\* parsecmd() accepts exactly the lines of the language, with the command
\* that splitting at the outermost operators gives: ";" binds weakest, then
\* "&", then "|"; a command has fewer than MAXARGS words.
ParseRight == typed = 0 => parsecmd(line) = Line(line)

Obj(p, fd) ==
  IF ofile[p][fd] = None THEN None ELSE <<ftable[ofile[p][fd]].type, ftable[ofile[p][fd]].obj>>

\* The close() before an open() or dup() of runcmd() frees the descriptor it
\* then gets: a program runs with its input and output connected to what
\* the line says, on the right descriptor.
StdioRight ==
  \A p \in Procs :
    state[p] = "live" /\ todo[p] # <<>> /\ Head(todo[p]).op = "prog" =>
      Obj(p, 0) = io[p][1] /\ Obj(p, 1) = io[p][2] /\ Obj(p, 2) = Console

\* No process starts a command, runs a program or waits for a child with a
\* descriptor of a pipe beyond its standard ones: such a write end would
\* keep the reader of the pipe from its end of file for ever.
NoStrayEnds ==
  \A p \in Procs :
    state[p] = "live" /\ todo[p] # <<>> /\ Head(todo[p]).op \in {"run", "prog", "wait", "getcmd"} =>
      OpenFds(p) = {0, 1, 2}

\* Every line ends. Each step uses up a call of a finite list, and when no
\* process can go on, no program is left without the end of its input, every
\* process has been reaped, by init if its parent went first, and the shell
\* init started again waits for a line with only the console open.
LineEnds ==
  line \in Lines /\ (\A p \in Procs : Blocked(p)) =>
    /\ typed = 2 /\ Calls(sh, "getcmd")
    /\ \A p \in Procs \ {initproc, sh} : state[p] = "unused"
    /\ Cardinality(FreeFiles) = NFILE - 1 /\ FreePipes = Pipes
=============================================================================
