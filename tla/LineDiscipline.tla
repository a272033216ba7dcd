--------------------------- MODULE LineDiscipline ---------------------------
(***************************************************************************)
(* What the console promises its readers: typed characters are edited in a *)
(* line of their own, a finished line joins the input that is ready, and   *)
(* every ready character goes to one read(), in the order it was typed.  A *)
(* read() stops at a newline, and before an end of file unless it has      *)
(* nothing yet, in which case it takes the end of file and returns 0.      *)
(***************************************************************************)
EXTENDS Naturals, Sequences

CONSTANTS Readers, Chars, SIZE, None

VARIABLES ready, line, got, cbuf  \* got[p]: characters of p's read() so far; cbuf[p]: the latest

lvars == <<ready, line, got, cbuf>>

\* Input may have been typed before anyone reads.
LInit ==
  /\ Len(ready) + Len(line) < SIZE
  /\ got = [p \in Readers |-> 0]
  /\ cbuf = [p \in Readers |-> None]

Key(c) == IF c = "cr" THEN "nl" ELSE c

Type(c) ==
  /\ Len(ready) + Len(line) < SIZE
  /\ LET full == Len(ready) + Len(line) + 1 = SIZE
         new == Append(line, Key(c))
     IN  IF Key(c) \in {"nl", "eof"} \/ full
         THEN ready' = ready \o new /\ line' = <<>>
         ELSE line' = new /\ UNCHANGED ready
  /\ UNCHANGED <<got, cbuf>>

Erase ==
  /\ line # <<>>
  /\ line' = SubSeq(line, 1, Len(line) - 1)
  /\ UNCHANGED <<ready, got, cbuf>>

KillLine == line' = <<>> /\ UNCHANGED <<ready, got, cbuf>>

\* p's read() has met what ends it.
Ended(p) == cbuf[p] \in {"nl", "eof", "fault"}

Get(p) ==
  /\ ready # <<>> /\ Head(ready) # "eof" /\ ~Ended(p)
  /\ ready' = Tail(ready)
  /\ got' = [got EXCEPT ![p] = @ + 1]
  /\ cbuf' = [cbuf EXCEPT ![p] = Head(ready)]
  /\ UNCHANGED line

\* An end of file with nothing before it in this read().
GetEof(p) ==
  /\ ready # <<>> /\ Head(ready) = "eof" /\ got[p] = 0 /\ ~Ended(p)
  /\ ready' = Tail(ready)
  /\ cbuf' = [cbuf EXCEPT ![p] = "eof"]
  /\ UNCHANGED <<line, got>>

\* p's buffer is not there: the character is lost and the read() ends.
Fault(p) ==
  /\ ready # <<>> /\ Head(ready) # "eof" /\ ~Ended(p)
  /\ ready' = Tail(ready)
  /\ cbuf' = [cbuf EXCEPT ![p] = "fault"]
  /\ UNCHANGED <<line, got>>

Return(p) ==
  /\ got' = [got EXCEPT ![p] = 0]
  /\ cbuf' = [cbuf EXCEPT ![p] = None]
  /\ UNCHANGED <<ready, line>>

LNext ==
  \/ \E c \in Chars : Type(c)
  \/ Erase \/ KillLine
  \/ \E p \in Readers : Get(p) \/ GetEof(p) \/ Fault(p) \/ Return(p)

LSpec == LInit /\ [][LNext]_lvars
=============================================================================
