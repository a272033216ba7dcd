----------------------------- MODULE ShellParse -----------------------------
(***************************************************************************)
(* The parser of user/sh.c: recursive descent over the tokens that         *)
(* gettoken() cuts from the line. A token is a word or one of the symbols; *)
(* a command is a tree of records; a panic of the parser ends the process, *)
(* and is the result Failed. Below it, the language as the shell's user    *)
(* knows it, defined by splitting a line at its outermost operator.        *)
(***************************************************************************)
EXTENDS Integers, Sequences, FiniteSets, FiniteSetsExt

CONSTANT MAXARGS

Redirections == {"<", ">", ">>"}
Symbols == Redirections \cup {"|", "&", ";", "(", ")"}

\* The constructors.
execcmd == [type |-> "EXEC", argv |-> <<>>]
redircmd(c, tok, file) ==
  [type |-> "REDIR", cmd |-> c, file |-> file, mode |-> tok,
   fd |-> IF tok = "<" THEN 0 ELSE 1]
pipecmd(l, r) == [type |-> "PIPE", left |-> l, right |-> r]
listcmd(l, r) == [type |-> "LIST", left |-> l, right |-> r]
backcmd(c) == [type |-> "BACK", cmd |-> c]

Panic == [type |-> "PANIC"]

\* What a parsing function returns: the command, and *ps.
At(c, s) == [cmd |-> c, s |-> s]
Failed == At(Panic, <<>>)
IsFailed(r) == r.cmd = Panic

peek(s, toks) == s # <<>> /\ Head(s) \in toks
\* gettoken() returns 'a'.
IsWord(s) == s # <<>> /\ Head(s) \notin Symbols

RECURSIVE parseline(_), parsepipe(_), parseexec(_), parseargs(_, _), parseredirs(_), parseback(_)
RECURSIVE AddArg(_, _)

\* cmd->argv[argc++] = q, in the execcmd below the redirections of ret.
AddArg(c, w) ==
  IF c.type = "REDIR" THEN [c EXCEPT !.cmd = AddArg(c.cmd, w)]
                      ELSE [c EXCEPT !.argv = Append(@, w)]

parseredirs(r) ==
  IF IsFailed(r) \/ ~ peek(r.s, Redirections) THEN r
  ELSE IF ~ IsWord(Tail(r.s)) THEN Failed
  ELSE parseredirs(At(redircmd(r.cmd, Head(r.s), r.s[2]), Tail(Tail(r.s))))

parseblock(s) ==
  LET r == parseline(Tail(s)) IN
  IF IsFailed(r) \/ ~ peek(r.s, {")"}) THEN Failed
  ELSE parseredirs(At(r.cmd, Tail(r.s)))

\* Mutant of TooMany: the last element of argv is given to a word.
TooManyFull(argc) == argc > MAXARGS

TooMany(argc) == argc >= MAXARGS

\* The loop of parseexec(), argc words already seen.
parseargs(r, argc) ==
  IF IsFailed(r) \/ peek(r.s, {"|", ")", "&", ";"}) \/ r.s = <<>> THEN r
  ELSE IF ~ IsWord(r.s) \/ TooMany(argc + 1) THEN Failed
  ELSE parseargs(parseredirs(At(AddArg(r.cmd, Head(r.s)), Tail(r.s))), argc + 1)

parseexec(s) ==
  IF peek(s, {"("}) THEN parseblock(s)
  ELSE parseargs(parseredirs(At(execcmd, s)), 0)

parsepipe(s) ==
  LET l == parseexec(s) IN
  IF IsFailed(l) \/ ~ peek(l.s, {"|"}) THEN l
  ELSE LET r == parsepipe(Tail(l.s)) IN
       IF IsFailed(r) THEN Failed ELSE At(pipecmd(l.cmd, r.cmd), r.s)

\* The loop of parseline() over '&'.
parseback(r) ==
  IF peek(r.s, {"&"}) THEN parseback(At(backcmd(r.cmd), Tail(r.s))) ELSE r

parseline(s) ==
  LET l == parseback(parsepipe(s)) IN
  IF IsFailed(l) \/ ~ peek(l.s, {";"}) THEN l
  ELSE LET r == parseline(Tail(l.s)) IN
       IF IsFailed(r) THEN Failed ELSE At(listcmd(l.cmd, r.cmd), r.s)

\* parsecmd(): leftovers are an error.
parsecmd(s) == LET r == parseline(s) IN IF r.s # <<>> THEN Panic ELSE r.cmd

-----------------------------------------------------------------------------
(* The reference. *)

Count(s, tok) == Cardinality({i \in DOMAIN s : s[i] = tok})
Depth(s, i) == LET t == SubSeq(s, 1, i) IN Count(t, "(") - Count(t, ")")
\* The places of tok outside all parentheses.
Outer(s, tok) == {i \in DOMAIN s : s[i] = tok /\ Depth(s, i) = 0}
Before(s, i) == SubSeq(s, 1, i - 1)
After(s, i) == SubSeq(s, i + 1, Len(s))

RECURSIVE Line(_), Back(_), Pipeline(_), Redirected(_, _)

\* c with a sequence of redirections around it, the last one outermost.
Redirected(c, s) ==
  IF s = <<>> THEN c
  ELSE IF Len(s) >= 2 /\ s[Len(s) - 1] \in Redirections /\ s[Len(s)] \notin Symbols
       THEN LET inner == Redirected(c, SubSeq(s, 1, Len(s) - 2)) IN
            IF inner = Panic THEN Panic ELSE redircmd(inner, s[Len(s) - 1], s[Len(s)])
       ELSE Panic

\* Words and redirections in any order.
Simple(s) ==
  LET redir(i) == s[i] \in Redirections \/ (i > 1 /\ s[i - 1] \in Redirections)
      words == {i \in DOMAIN s : ~ redir(i)}
      pick(keep) == LET f[i \in 0..Len(s)] ==
                          IF i = 0 THEN <<>>
                          ELSE f[i - 1] \o (IF i \in keep THEN <<s[i]>> ELSE <<>>)
                    IN f[Len(s)]
  IN IF (\E i \in words : s[i] \in Symbols) \/ Cardinality(words) >= MAXARGS THEN Panic
     ELSE Redirected([execcmd EXCEPT !.argv = pick(words)], pick(DOMAIN s \ words))

\* A block in parentheses, then redirections; or a simple command.
Element(s) ==
  IF s # <<>> /\ s[1] = "("
  THEN LET close == {i \in DOMAIN s : Depth(s, i) = 0} IN
       IF close = {} THEN Panic
       ELSE LET c == Line(SubSeq(s, 2, Min(close) - 1)) IN
            IF c = Panic THEN Panic ELSE Redirected(c, After(s, Min(close)))
  ELSE Simple(s)

Two(l, r, both) == IF l = Panic \/ r = Panic THEN Panic ELSE both

Pipeline(s) ==
  IF Outer(s, "|") = {} THEN Element(s)
  ELSE LET i == Min(Outer(s, "|"))
           l == Element(Before(s, i))
           r == Pipeline(After(s, i))
       IN Two(l, r, pipecmd(l, r))

Back(s) ==
  IF s # <<>> /\ s[Len(s)] = "&"
  THEN LET c == Back(Before(s, Len(s))) IN IF c = Panic THEN Panic ELSE backcmd(c)
  ELSE Pipeline(s)

Line(s) ==
  IF Outer(s, ";") = {} THEN Back(s)
  ELSE LET i == Min(Outer(s, ";"))
           l == Back(Before(s, i))
           r == Line(After(s, i))
       IN Two(l, r, listcmd(l, r))
=============================================================================
