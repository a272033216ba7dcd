----------------------------- MODULE PipeProofs -----------------------------
(* Proofs about Pipe, for any numbers of readers and writers and any size of  *)
(* the buffer: nobody sleeps on a pipe without cause, its page is freed after *)
(* everybody has done with it, and the pipe is a bounded queue of bytes.      *)
(* Only the last depends on how the counters wrap.                            *)
EXTENDS Pipe, TLAPS

USE SMTT(30)

-----------------------------------------------------------------------------
(* Remainders and sequences                                                *)

\* A remainder is below the modulus.
LEMMA ModRange == ASSUME NEW m \in Nat \ {0}, NEW n \in Int PROVE n % m \in 0..(m - 1)
OBVIOUS

\* Quotient and remainder make up the number.
LEMMA ModDiv ==
  ASSUME NEW m \in Nat \ {0}, NEW n \in Int
  PROVE  n \div m \in Int /\ n = (n \div m) * m + (n % m)
OBVIOUS

\* The remainder of a multiple plus less than the modulus is what was added.
LEMMA ModUnique ==
  ASSUME NEW m \in Nat \ {0}, NEW q \in Int, NEW z \in 0..(m - 1)
  PROVE  (q * m + z) % m = z
OBVIOUS

\* A number below the modulus is its own remainder.
LEMMA ModBelow == ASSUME NEW m \in Nat \ {0}, NEW n \in 0..(m - 1) PROVE n % m = n
OBVIOUS

\* From one modulus up to two, the remainder is one modulus less.
LEMMA ModOnce == ASSUME NEW m \in Nat \ {0}, NEW n \in m..(2 * m - 1) PROVE n % m = n - m
OBVIOUS

\* One modulus more does not change the remainder.
LEMMA ModPlus == ASSUME NEW m \in Nat \ {0}, NEW n \in 0..(m - 1) PROVE (n + m) % m = n
OBVIOUS

\* Less than a modulus below zero, the remainder is one modulus more.
LEMMA ModNegative ==
  ASSUME NEW m \in Nat \ {0}, NEW n \in Int, -m <= n, n < 0 PROVE n % m = n + m
OBVIOUS

\* Any number of moduli less does not change the remainder.
LEMMA ModShift ==
  ASSUME NEW m \in Nat \ {0}, NEW n \in Int, NEW c \in Int PROVE (n - c * m) % m = n % m
<1> DEFINE q == n \div m
           z == n % m
<1>1. q \in Int /\ z \in 0..(m - 1) /\ n = q * m + z
  BY ModRange, ModDiv
<1> HIDE DEF q, z
<1>2. n - c * m = (q - c) * m + z
  BY <1>1
<1>3. ((q - c) * m + z) % m = z
  BY <1>1, ModUnique
<1> QED
  BY <1>2, <1>3 DEF z

\* Less than m apart, two numbers have different remainders.
LEMMA ModDistinct ==
  ASSUME NEW m \in Nat \ {0}, NEW a \in Int, NEW b \in Int, a < b, b < a + m
  PROVE  a % m # b % m
<1> SUFFICES ASSUME a % m = b % m PROVE FALSE
  OBVIOUS
<1> DEFINE q == a \div m
           s == b \div m
           z == a % m
<1>1. /\ q \in Int /\ s \in Int /\ z \in 0..(m - 1)
      /\ a = q * m + z /\ b = s * m + z
  BY ModRange, ModDiv
<1> HIDE DEF q, s, z
<1>2. b - a = (s - q) * m
  BY <1>1
<1>3. s - q >= 1
  <2>1. ASSUME s - q <= 0 PROVE FALSE
    <3>1. (s - q) * m <= 0
      BY <1>1, <2>1
    <3> QED
      BY <1>2, <3>1
  <2> QED
    BY <2>1, <1>1
<1>4. (s - q) * m >= m
  BY <1>1, <1>3
<1> QED
  BY <1>2, <1>4

\* Sequences of one length that agree at every index are equal.
LEMMA SameSequence ==
  ASSUME NEW S, NEW q \in Seq(S), NEW z \in Seq(S), Len(q) = Len(z),
         \A k \in 1..Len(q) : q[k] = z[k]
  PROVE  q = z
OBVIOUS

\* What one more element at the end gives, and what makes a sequence that.
LEMMA AppendValue ==
  ASSUME NEW S, NEW q \in Seq(S), NEW x \in S, NEW z \in Seq(S), Len(z) = Len(q) + 1,
         \A k \in 1..Len(q) : z[k] = q[k], z[Len(q) + 1] = x
  PROVE  z = Append(q, x)
<1>1. /\ Append(q, x) \in Seq(S) /\ Len(Append(q, x)) = Len(q) + 1
      /\ \A k \in 1..Len(q) : Append(q, x)[k] = q[k]
      /\ Append(q, x)[Len(q) + 1] = x
  OBVIOUS
<1>2. \A k \in 1..Len(z) : k \in 1..Len(q) \/ k = Len(q) + 1
  OBVIOUS
<1>3. \A k \in 1..Len(z) : z[k] = Append(q, x)[k]
  BY <1>1, <1>2
<1> QED
  BY <1>1, <1>3, SameSequence

\* The same for a sequence without its first element.
LEMMA TailValue ==
  ASSUME NEW S, NEW q \in Seq(S), q # <<>>, NEW z \in Seq(S), Len(z) = Len(q) - 1,
         \A k \in 1..Len(z) : z[k] = q[k + 1]
  PROVE  z = Tail(q)
<1>1. /\ Tail(q) \in Seq(S) /\ Len(Tail(q)) = Len(q) - 1
      /\ \A k \in 1..Len(Tail(q)) : Tail(q)[k] = q[k + 1]
  OBVIOUS
<1> QED
  BY <1>1, SameSequence

-----------------------------------------------------------------------------
(* Counters of range W that index a buffer of S slots                      *)

\* How far apart two counters are, whichever has wrapped.
LEMMA WrapApart ==
  ASSUME NEW W \in Nat \ {0}, NEW a \in 0..(W - 1), NEW b \in 0..(W - 1)
  PROVE  /\ (b - a) % W \in 0..(W - 1)
         /\ a <= b => a + ((b - a) % W) = b
         /\ a > b => a + ((b - a) % W) = b + W
<1>1. CASE a <= b
  <2>1. b - a \in 0..(W - 1)
    BY <1>1
  <2> QED
    BY <1>1, <2>1, ModBelow
<1>2. CASE a > b
  <2>1. b - a \in Int /\ -W <= b - a /\ b - a < 0
    BY <1>2
  <2>2. (b - a) % W = b - a + W
    BY <2>1, ModNegative
  <2> QED
    BY <1>2, <2>2
<1> QED
  BY <1>1, <1>2

\* A counter of range W goes up by one, or from its last value to zero.
LEMMA WrapNext ==
  ASSUME NEW W \in Nat \ {0}, NEW n \in 0..(W - 1)
  PROVE  /\ (n + 1) % W \in 0..(W - 1)
         /\ (n + 1) % W = IF n + 1 = W THEN 0 ELSE n + 1
<1>1. CASE n + 1 = W
  BY <1>1, ModOnce
<1>2. CASE n + 1 # W
  BY <1>2, ModBelow
<1> QED
  BY <1>1, <1>2

\* An index survives a wrap of its counter if S divides W.
LEMMA WrapSlot ==
  ASSUME NEW W \in Nat \ {0}, NEW S \in Nat \ {0}, W % S = 0, NEW i \in 0..(2 * W - 1)
  PROVE  (i % W) % S = i % S
<1> DEFINE c == W \div S
<1>1. c \in Int /\ W = c * S
  BY ModDiv
<1> HIDE DEF c
<1>2. CASE i < W
  BY <1>2, ModBelow
<1>3. CASE i >= W
  <2>1. i % W = i - c * S
    BY <1>1, <1>3, ModOnce
  <2>2. (i - c * S) % S = i % S
    <3>1. i \in Int /\ c \in Int
      BY <1>1
    <3> QED
      BY Zenon, <3>1, ModShift
  <2> QED
    BY <2>1, <2>2
<1> QED
  BY <1>2, <1>3

\* A counter that advances moves away from the one behind it, and towards the
\* one ahead.
LEMMA WrapAway ==
  ASSUME NEW W \in Nat \ {0}, NEW a \in 0..(W - 1), NEW b \in 0..(W - 1),
         (b - a) % W < W - 1
  PROVE  (((b + 1) % W) - a) % W = ((b - a) % W) + 1
<1> DEFINE v == (b + 1) % W
           d == (b - a) % W
           y == (v - a) % W
<1>1. v \in 0..(W - 1) /\ (b + 1 = W => v = 0) /\ (b + 1 # W => v = b + 1)
  BY Zenon, WrapNext
<1> HIDE DEF v
<1>2. d \in 0..(W - 1) /\ (a <= b => a + d = b) /\ (a > b => a + d = b + W)
  BY Zenon, WrapApart
<1>3. y \in 0..(W - 1) /\ (a <= v => a + y = v) /\ (a > v => a + y = v + W)
  BY Zenon, <1>1, WrapApart
<1>4. d < W - 1
  OBVIOUS
<1> HIDE DEF d, y
<1>5. y = d + 1
  <2>1. CASE b + 1 = W
    BY <2>1, <1>1, <1>2, <1>3, <1>4
  <2>2. CASE b + 1 # W
    BY <2>2, <1>1, <1>2, <1>3, <1>4
  <2> QED
    BY <2>1, <2>2
<1> QED
  BY <1>5 DEF v, d, y

\* The distance to another counter is one less when the counter behind goes
\* up.
LEMMA WrapTowards ==
  ASSUME NEW W \in Nat \ {0}, NEW a \in 0..(W - 1), NEW b \in 0..(W - 1),
         (b - a) % W >= 1
  PROVE  (b - ((a + 1) % W)) % W = ((b - a) % W) - 1
<1> DEFINE v == (a + 1) % W
           d == (b - a) % W
           y == (b - v) % W
<1>1. v \in 0..(W - 1) /\ (a + 1 = W => v = 0) /\ (a + 1 # W => v = a + 1)
  BY Zenon, WrapNext
<1> HIDE DEF v
<1>2. d \in 0..(W - 1) /\ (a <= b => a + d = b) /\ (a > b => a + d = b + W)
  BY Zenon, WrapApart
<1>3. y \in 0..(W - 1) /\ (v <= b => v + y = b) /\ (v > b => v + y = b + W)
  BY Zenon, <1>1, WrapApart
<1>4. d >= 1
  OBVIOUS
<1> HIDE DEF d, y
<1>5. y = d - 1
  <2>1. CASE a + 1 = W
    BY <2>1, <1>1, <1>2, <1>3, <1>4
  <2>2. CASE a + 1 # W
    BY <2>2, <1>1, <1>2, <1>3, <1>4
  <2> QED
    BY <2>1, <2>2
<1> QED
  BY <1>5 DEF v, d, y

-----------------------------------------------------------------------------
(* Nobody sleeps without cause                                             *)

Types ==
  /\ lock \in Procs \cup {NoProc}
  /\ holds \subseteq Procs
  /\ killed \in [Procs -> BOOLEAN]
  /\ freed \in BOOLEAN
  /\ pc \in [Procs -> {"idle", "enter", "loop", "copy", "asleep", "close", "free"}]
  /\ readopen \in BOOLEAN /\ writeopen \in BOOLEAN

\* pi->lock is held exactly inside the loops, and only readers copy out.
LockHeld ==
  /\ \A p \in Procs : pc[p] \in {"loop", "copy"} <=> lock = p
  /\ \A p \in Writers : pc[p] # "copy"

\* WriterNotStranded is not inductive: a reader that holds the lock may return
\* without a wakeup(), but only from the first loop of piperead(), when it has
\* taken nothing.
WriterWaits ==
  \A p \in Writers :
    pc[p] = "asleep" => (Full /\ readopen) \/ \E r \in Readers : pc[r] = "copy"

\* Of an end one process at most is about to close it, and then nobody holds
\* it; the page is free, or one process is about to free it, exactly when both
\* ends are closed.
Closing ==
  /\ \A p \in Procs : pc[p] = "close" =>
       holds \cap End(p) = {} /\ \A q \in End(p) \ {p} : pc[q] # "close"
  /\ \A p \in Procs : pc[p] = "free" =>
       ~readopen /\ ~writeopen /\ ~freed /\ \A q \in Procs \ {p} : pc[q] # "free"
  /\ freed => ~readopen /\ ~writeopen
  /\ ~readopen /\ ~writeopen => freed \/ \E p \in Procs : pc[p] = "free"

SleepInv ==
  Types /\ LockHeld /\ OpenWhileHeld /\ Closing /\ WriterWaits /\ ReaderNotStranded

\* pipealloc() establishes the invariant if both ends are held.
LEMMA SleepInvInit ==
  ASSUME Readers # {}, Writers # {}
  PROVE  Init => SleepInv
<1> SUFFICES ASSUME Init PROVE SleepInv
  OBVIOUS
<1>1. \A p \in Procs : pc[p] = "idle"
  BY Zenon DEF Init
<1>2. Types /\ LockHeld
  <2>1. Types
    BY Zenon DEF Init, Types
  <2>2. LockHeld
    BY <1>1, PipeAssumption DEF Init, LockHeld, Procs
  <2> QED
    BY <2>1, <2>2
<1>3. OpenWhileHeld /\ Closing
  BY <1>1 DEF Init, OpenWhileHeld, Closing, Procs
<1>4. WriterWaits /\ ReaderNotStranded
  BY <1>1 DEF WriterWaits, ReaderNotStranded, Procs
<1> QED
  BY <1>2, <1>3, <1>4 DEF SleepInv

\* p goes to l and wakes the sleepers of S.
Moves(p, S, l) ==
  /\ pc' \in [Procs -> {"idle", "enter", "loop", "copy", "asleep", "close", "free"}]
  /\ \A q \in Procs : pc'[q] = IF q = p THEN l
                               ELSE IF q \in S /\ pc[q] = "asleep" THEN "enter" ELSE pc[q]

\* wakeup() and a change of place together.
LEMMA WakeMoves ==
  ASSUME Types, NEW p \in Procs, NEW S, NEW l \in {"idle", "enter", "loop", "copy", "asleep"},
         pc' = [Woken(S) EXCEPT ![p] = l]
  PROVE  Moves(p, S, l)
BY DEF Types, Moves, Woken

\* A change of place alone.
LEMMA GotoMoves ==
  ASSUME Types, NEW p \in Procs, NEW l \in {"idle", "enter", "loop", "copy", "asleep"}, Goto(p, l)
  PROVE  Moves(p, {}, l)
BY DEF Types, Moves, Goto

\* A step of a process in a call opens and closes nothing.
LEMMA CallKeepsEnds ==
  ASSUME Types, OpenWhileHeld, Closing, UNCHANGED <<readopen, writeopen, holds, freed>>,
         NEW p \in holds, pc[p] \notin {"close", "free"}, NEW S,
         NEW l \in {"idle", "enter", "loop", "copy", "asleep"}, Moves(p, S, l)
  PROVE  OpenWhileHeld' /\ Closing'
<1>1. p \in Procs
  BY DEF Types
<1>2. \A q \in Procs : /\ pc'[q] = "close" <=> pc[q] = "close"
                       /\ pc'[q] = "free" <=> pc[q] = "free"
  BY <1>1 DEF Moves
<1>3. OpenWhileHeld'
  BY <1>1, <1>2 DEF OpenWhileHeld, Moves, Procs
<1>4. Closing'
  <2>1. \A q \in Procs : End(q) \subseteq Procs
    BY DEF End, Procs
  <2> QED
    BY <1>2, <2>1 DEF Closing
<1> QED
  BY <1>3, <1>4

\* A step of pipewrite() keeps it.
LEMMA SleepInvWrite ==
  ASSUME SleepInv, NEW p \in Writers, Write(p)
  PROVE  SleepInv'
<1> USE PipeAssumption DEF Procs
<1>0. /\ Types /\ LockHeld /\ OpenWhileHeld /\ Closing /\ WriterWaits /\ ReaderNotStranded
      /\ pc[p] \in {"loop", "copy"} /\ p \in Procs /\ p \in holds /\ lock = p
  BY DEF SleepInv, LockHeld, OpenWhileHeld, Write, write_fails, write_full, write_byte, write_done
<1>1. CASE write_fails(p)
  <2>1. Moves(p, {}, "idle")
    BY Zenon, <1>0, <1>1, WakeMoves DEF write_fails, Return
  <2>2. OpenWhileHeld' /\ Closing'
    BY <1>0, <1>1, <2>1, CallKeepsEnds DEF write_fails, pipe
  <2>3. Types' /\ LockHeld'
    BY <1>0, <1>1, <2>1 DEF write_fails, pipe, Return, Moves, Types, LockHeld
  <2>4. WriterWaits' /\ ReaderNotStranded'
    BY <1>0, <1>1, <2>1 DEF write_fails, pipe, Return, Moves, LockHeld, OpenWhileHeld, WriterWaits,
       ReaderNotStranded, Empty, Full
  <2> QED
    BY <2>2, <2>3, <2>4 DEF SleepInv
<1>2. CASE write_full(p)
  <2>1. Moves(p, Readers, "asleep")
    BY Zenon, <1>0, <1>2, WakeMoves DEF write_full, Sleep
  <2>2. OpenWhileHeld' /\ Closing'
    BY <1>0, <1>2, <2>1, CallKeepsEnds DEF write_full, pipe
  <2>3. Types' /\ LockHeld'
    BY <1>0, <1>2, <2>1 DEF write_full, pipe, Sleep, Moves, Types, LockHeld
  <2>4. WriterWaits' /\ ReaderNotStranded'
    BY <1>0, <1>2, <2>1 DEF write_full, pipe, Sleep, Moves, LockHeld, WriterWaits, ReaderNotStranded, Empty, Full
  <2> QED
    BY <2>2, <2>3, <2>4 DEF SleepInv
<1>3. CASE write_byte(p)
  <2>1. UNCHANGED <<readopen, writeopen, holds, freed, killed, lock, pc>>
    BY <1>3 DEF write_byte
  <2>2. Types' /\ LockHeld' /\ OpenWhileHeld' /\ Closing'
    BY Zenon, <1>0, <2>1 DEF Types, LockHeld, OpenWhileHeld, Closing
  <2>3. WriterWaits' /\ ReaderNotStranded'
    BY <1>0, <1>3, <2>1 DEF write_byte, LockHeld, WriterWaits, ReaderNotStranded
  <2> QED
    BY <2>2, <2>3 DEF SleepInv
<1>4. CASE write_done(p)
  <2>1. Moves(p, Readers, "idle")
    BY Zenon, <1>0, <1>4, WakeMoves DEF write_done, Return
  <2>2. OpenWhileHeld' /\ Closing'
    BY <1>0, <1>4, <2>1, CallKeepsEnds DEF write_done, pipe
  <2>3. Types' /\ LockHeld'
    BY <1>0, <1>4, <2>1 DEF write_done, pipe, Return, Moves, Types, LockHeld
  <2>4. WriterWaits' /\ ReaderNotStranded'
    BY <1>0, <1>4, <2>1 DEF write_done, pipe, Return, Moves, LockHeld, WriterWaits, ReaderNotStranded, Empty, Full
  <2> QED
    BY <2>2, <2>3, <2>4 DEF SleepInv
<1> QED
  BY <1>1, <1>2, <1>3, <1>4 DEF Write

\* A step of piperead() keeps it.
LEMMA SleepInvRead ==
  ASSUME SleepInv, NEW p \in Readers, Read(p)
  PROVE  SleepInv'
<1> USE PipeAssumption DEF Procs
<1>0. /\ Types /\ LockHeld /\ OpenWhileHeld /\ Closing /\ WriterWaits /\ ReaderNotStranded
      /\ pc[p] \in {"loop", "copy"} /\ p \in Procs /\ p \in holds /\ lock = p
  BY DEF SleepInv, LockHeld, OpenWhileHeld, Read, read_killed, read_empty, read_ready, read_byte,
     read_done
<1>1. CASE read_killed(p)
  <2>1. Moves(p, {}, "idle")
    BY Zenon, <1>0, <1>1, WakeMoves DEF read_killed, Return
  <2>2. OpenWhileHeld' /\ Closing'
    BY <1>0, <1>1, <2>1, CallKeepsEnds DEF read_killed, pipe
  <2>3. Types' /\ LockHeld'
    BY <1>0, <1>1, <2>1 DEF read_killed, pipe, Return, Moves, Types, LockHeld
  <2>4. WriterWaits' /\ ReaderNotStranded'
    BY <1>0, <1>1, <2>1 DEF read_killed, pipe, Return, Moves, LockHeld, WriterWaits, ReaderNotStranded, Empty, Full
  <2> QED
    BY <2>2, <2>3, <2>4 DEF SleepInv
<1>2. CASE read_empty(p)
  <2>1. Moves(p, {}, "asleep")
    BY Zenon, <1>0, <1>2, WakeMoves DEF read_empty, Sleep
  <2>2. OpenWhileHeld' /\ Closing'
    BY <1>0, <1>2, <2>1, CallKeepsEnds DEF read_empty, pipe
  <2>3. Types' /\ LockHeld'
    BY <1>0, <1>2, <2>1 DEF read_empty, pipe, Sleep, Moves, Types, LockHeld
  <2>4. WriterWaits' /\ ReaderNotStranded'
    BY <1>0, <1>2, <2>1 DEF read_empty, pipe, Sleep, Moves, LockHeld, WriterWaits, ReaderNotStranded, Empty, Full
  <2> QED
    BY <2>2, <2>3, <2>4 DEF SleepInv
<1>3. CASE read_ready(p)
  <2>1. Moves(p, {}, "copy")
    BY <1>0, <1>3, GotoMoves DEF read_ready
  <2>2. OpenWhileHeld' /\ Closing'
    BY <1>0, <1>3, <2>1, CallKeepsEnds DEF read_ready, pipe
  <2>3. Types' /\ LockHeld'
    BY <1>0, <1>3, <2>1 DEF read_ready, pipe, Moves, Types, LockHeld
  <2>4. WriterWaits' /\ ReaderNotStranded'
    BY <1>0, <1>3, <2>1 DEF read_ready, pipe, Moves, LockHeld, WriterWaits, ReaderNotStranded, Empty, Full
  <2> QED
    BY <2>2, <2>3, <2>4 DEF SleepInv
<1>4. CASE read_byte(p)
  <2>1. UNCHANGED <<readopen, writeopen, holds, freed, killed, lock, pc>>
    BY <1>4 DEF read_byte
  <2>2. Types' /\ LockHeld' /\ OpenWhileHeld' /\ Closing'
    BY Zenon, <1>0, <2>1 DEF Types, LockHeld, OpenWhileHeld, Closing
  <2>3. WriterWaits' /\ ReaderNotStranded'
    BY <1>0, <1>4, <2>1 DEF read_byte, LockHeld, WriterWaits, ReaderNotStranded
  <2> QED
    BY <2>2, <2>3 DEF SleepInv
<1>5. CASE read_done(p)
  <2>1. Moves(p, Writers, "idle")
    BY Zenon, <1>0, <1>5, WakeMoves DEF read_done, Return
  <2>2. OpenWhileHeld' /\ Closing'
    BY <1>0, <1>5, <2>1, CallKeepsEnds DEF read_done, pipe
  <2>3. Types' /\ LockHeld'
    BY <1>0, <1>5, <2>1 DEF read_done, pipe, Return, Moves, Types, LockHeld
  <2>4. WriterWaits' /\ ReaderNotStranded'
    BY <1>0, <1>5, <2>1 DEF read_done, pipe, Return, Moves, LockHeld, WriterWaits, ReaderNotStranded, Empty, Full
  <2> QED
    BY <2>2, <2>3, <2>4 DEF SleepInv
<1> QED
  BY <1>1, <1>2, <1>3, <1>4, <1>5 DEF Read

\* The last descriptor of an end goes: its pipeclose() is to come.
LEMMA SleepInvFileclose ==
  ASSUME SleepInv, NEW p \in Procs, fileclose(p)
  PROVE  SleepInv'
<1> USE PipeAssumption DEF SleepInv, Types, Procs
<1>1. /\ p \in holds /\ pc[p] = "idle" /\ holds' = holds \ {p}
      /\ UNCHANGED <<nread, nwrite, readopen, writeopen, lock, freed, killed>>
  BY DEF fileclose, pipe
<1>2. CASE holds' \cap End(p) = {}
  <2>1. pc' = [pc EXCEPT ![p] = "close"]
    BY Zenon, <1>2 DEF fileclose
  <2> QED
    BY <1>1, <1>2, <2>1
       DEF LockHeld, OpenWhileHeld, Closing, End, WriterWaits, ReaderNotStranded, Empty, Full
<1>3. CASE holds' \cap End(p) # {}
  <2>1. pc' = pc
    BY <1>3 DEF fileclose
  <2> QED
    BY <1>1, <1>3, <2>1
       DEF LockHeld, OpenWhileHeld, Closing, End, WriterWaits, ReaderNotStranded, Empty, Full
<1> QED
  BY <1>2, <1>3

\* pipeclose() wakes those asleep at the other end.
LEMMA SleepInvPipeclose ==
  ASSUME SleepInv, NEW p \in Procs, pipeclose(p)
  PROVE  SleepInv'
<1> USE PipeAssumption DEF SleepInv, Types, Procs
<1> DEFINE l == IF BothClosed THEN "free" ELSE "idle"
<1>1. /\ pc[p] = "close" /\ lock = NoProc
      /\ UNCHANGED <<nread, nwrite, lock, holds, freed, killed>>
      /\ l \in {"free", "idle"} /\ (l = "free" <=> ~readopen' /\ ~writeopen')
  BY DEF pipeclose, BothClosed
<1> HIDE DEF l
<1>2. CASE p \in Writers
  <2>1. writeopen' = FALSE /\ readopen' = readopen /\ pc' = [Woken(Readers) EXCEPT ![p] = l]
    BY Zenon, <1>2 DEF pipeclose, l
  <2>2. p \in Writers
    BY <1>2
  <2>3. \A q \in Procs : pc'[q] = IF q = p THEN l
                                ELSE IF q \in Readers /\ pc[q] = "asleep" THEN "enter" ELSE pc[q]
    BY <2>1 DEF Woken
  <2>4. pc' \in [Procs -> {"idle", "enter", "loop", "copy", "asleep", "close", "free"}]
    BY <1>1, <2>1 DEF Woken
  <2>5. Types' /\ LockHeld'
    <3>1. Types'
      BY Zenon, <1>1, <2>1, <2>4
    <3>2. LockHeld'
      BY <1>1, <2>2, <2>3 DEF LockHeld
    <3> QED BY <3>1, <3>2
  <2>6. WriterWaits' /\ ReaderNotStranded'
    BY <1>1, <2>1, <2>2, <2>3 DEF WriterWaits, ReaderNotStranded, Empty, Full
  <2>7. OpenWhileHeld'
    BY <1>1, <2>1, <2>2, <2>3 DEF OpenWhileHeld, Closing, End
  <2>8. Closing'
    BY <1>1, <2>1, <2>2, <2>3 DEF OpenWhileHeld, Closing, End
  <2> QED
    BY <2>5, <2>6, <2>7, <2>8
<1>3. CASE p \notin Writers
  <2>1. readopen' = FALSE /\ writeopen' = writeopen /\ pc' = [Woken(Writers) EXCEPT ![p] = l]
    BY Zenon, <1>3 DEF pipeclose, l
  <2>2. p \in Readers
    BY <1>3
  <2>3. \A q \in Procs : pc'[q] = IF q = p THEN l
                                ELSE IF q \in Writers /\ pc[q] = "asleep" THEN "enter" ELSE pc[q]
    BY <2>1 DEF Woken
  <2>4. pc' \in [Procs -> {"idle", "enter", "loop", "copy", "asleep", "close", "free"}]
    BY <1>1, <2>1 DEF Woken
  <2>5. Types' /\ LockHeld'
    <3>1. Types'
      BY Zenon, <1>1, <2>1, <2>4
    <3>2. LockHeld'
      BY <1>1, <2>2, <2>3 DEF LockHeld
    <3> QED BY <3>1, <3>2
  <2>6. WriterWaits' /\ ReaderNotStranded'
    BY <1>1, <2>1, <2>2, <2>3 DEF WriterWaits, ReaderNotStranded, Empty, Full
  <2>7. OpenWhileHeld'
    BY <1>1, <2>1, <2>2, <2>3 DEF OpenWhileHeld, Closing, End
  <2>8. Closing'
    BY <1>1, <2>1, <2>2, <2>3 DEF OpenWhileHeld, Closing, End
  <2> QED
    BY <2>5, <2>6, <2>7, <2>8
<1> QED
  BY <1>2, <1>3

\* The page goes after both ends.
LEMMA SleepInvKfree ==
  ASSUME SleepInv, NEW p \in Procs, kfree(p)
  PROVE  SleepInv'
BY PipeAssumption DEF kfree, SleepInv, Types, LockHeld, OpenWhileHeld, Closing, End,
   WriterWaits, ReaderNotStranded, Procs, pipe, Goto, Empty, Full

\* Every step of the pipe keeps it.
LEMMA SleepInvNext == SleepInv /\ [Next]_vars => SleepInv'
<1> SUFFICES ASSUME SleepInv, [Next]_vars PROVE SleepInv'
  OBVIOUS
<1>1. ASSUME NEW p \in Procs, acquire(p) PROVE SleepInv'
  BY <1>1, PipeAssumption DEF acquire, SleepInv, Types, LockHeld, OpenWhileHeld, Closing, End,
     WriterWaits, ReaderNotStranded, Procs, pipe, Goto, Empty, Full
<1>2. ASSUME NEW p \in Procs, fileclose(p) \/ pipeclose(p) \/ kfree(p) PROVE SleepInv'
  BY <1>2, SleepInvFileclose, SleepInvPipeclose, SleepInvKfree
<1>3. ASSUME NEW p \in Procs, kkill(p) PROVE SleepInv'
  BY <1>3, PipeAssumption DEF kkill, SleepInv, Types, LockHeld, OpenWhileHeld, Closing, End,
     WriterWaits, ReaderNotStranded, Procs, pipe, Empty, Full
<1>4. ASSUME NEW p \in Procs, NEW n \in 0..MaxN, call(p, n) PROVE SleepInv'
  BY <1>4, PipeAssumption DEF call, SleepInv, Types, LockHeld, OpenWhileHeld, Closing, End,
     WriterWaits, ReaderNotStranded, Procs, pipe, Goto, Empty, Full
<1>5. CASE UNCHANGED vars
  BY <1>5 DEF vars, pipe, SleepInv, Types, LockHeld, OpenWhileHeld, Closing, End, WriterWaits,
     ReaderNotStranded, Empty, Full
<1> QED
  BY <1>1, <1>2, <1>3, <1>4, <1>5, SleepInvWrite, SleepInvRead DEF Next, InCall, Done, Procs

\* The invariant holds of every pipe whose two ends are held at the start.
LEMMA SleepInvAlways ==
  ASSUME Readers # {}, Writers # {}
  PROVE  Spec => []SleepInv
BY SleepInvInit, SleepInvNext, PTL DEF Spec

\* A reader asleep in piperead() has nothing to read and a writer to wait for,
\* or a writer is about to wake it, or a writer was killed.
THEOREM NoReaderStranded ==
  ASSUME Readers # {}, Writers # {}
  PROVE  Spec => []ReaderNotStranded
<1>1. SleepInv => ReaderNotStranded
  BY DEF SleepInv
<1> QED
  BY <1>1, SleepInvAlways, PTL

\* A writer asleep in pipewrite() finds the pipe full and open for reading, or
\* a reader is about to wake it.
THEOREM NoWriterStranded ==
  ASSUME Readers # {}, Writers # {}
  PROVE  Spec => []WriterNotStranded
<1>1. SleepInv => WriterNotStranded
  BY DEF SleepInv, WriterWaits, WriterNotStranded, LockHeld, Procs
<1> QED
  BY <1>1, SleepInvAlways, PTL

\* Both ends are closed only when nobody holds one or has one to close.
LEMMA FreedAfterAll == SleepInv => FreedLast
<1> SUFFICES ASSUME SleepInv PROVE FreedLast
  OBVIOUS
<1>1. ASSUME ~readopen, ~writeopen
      PROVE  holds = {} /\ \A p \in Procs : pc[p] \in {"idle", "free"}
  BY <1>1 DEF SleepInv, Types, OpenWhileHeld, Procs
<1>2. ASSUME holds = {}, \A p \in Procs : pc[p] = "idle" PROVE freed
  BY <1>2 DEF SleepInv, OpenWhileHeld, Closing, Procs
<1> QED
  BY <1>1, <1>2 DEF SleepInv, Types, Closing, FreedLast

\* The page of a pipe is freed once, by one process, when no process holds an
\* end, is in a call or has an end to close; and once there is no such process,
\* it has been freed.
THEOREM PipeFreedLast ==
  ASSUME Readers # {}, Writers # {}
  PROVE  Spec => []FreedLast
BY FreedAfterAll, SleepInvAlways, PTL

-----------------------------------------------------------------------------
(* Arithmetic of the wrapping counters                                     *)

\* The buffer is not empty, and smaller than the range of its counters.
LEMMA Sizes == PIPESIZE \in Nat \ {0} /\ WORD \in Nat \ {0} /\ PIPESIZE < WORD
BY PipeAssumption

\* PIPESIZE divides 2^32, so an index survives a wrap of the counter.
LEMMA SlotWrap ==
  ASSUME NEW i \in 0..(2 * WORD - 1)
  PROVE  (i % WORD) % PIPESIZE = i % PIPESIZE
BY Zenon, WrapSlot, PipeAssumption

Counters == nread \in 0..(WORD - 1) /\ nwrite \in 0..(WORD - 1)

\* How far apart the counters are, whichever has wrapped.
LEMMA Apart ==
  ASSUME NEW r \in 0..(WORD - 1), NEW w \in 0..(WORD - 1)
  PROVE  /\ (w - r) % WORD \in 0..(WORD - 1)
         /\ r <= w => r + ((w - r) % WORD) = w
         /\ r > w => r + ((w - r) % WORD) = w + WORD
BY Zenon, WrapApart, Sizes

\* The number of bytes held, from the two counters.
LEMMA HeldValue ==
  ASSUME Counters
  PROVE  /\ Held \in 0..(WORD - 1)
         /\ nread <= nwrite => nread + Held = nwrite
         /\ nread > nwrite => nread + Held = nwrite + WORD
BY Apart DEF Counters, Held

\* piperead()'s test for an empty pipe is that it holds no byte.
LEMMA EmptyHeld == ASSUME Counters PROVE Empty <=> Held = 0
BY HeldValue, Sizes DEF Counters, Empty

\* pipewrite()'s test for a full pipe is that it holds PIPESIZE bytes.
LEMMA FullHeld == ASSUME Counters PROVE Full <=> Held = PIPESIZE
<1> USE Sizes DEF Counters
<1>1. CASE nread + PIPESIZE < WORD
  <2>1. (nread + PIPESIZE) % WORD = nread + PIPESIZE
    BY <1>1, ModBelow
  <2> QED
    BY <1>1, <2>1, HeldValue DEF Full
<1>2. CASE nread + PIPESIZE >= WORD
  <2>1. (nread + PIPESIZE) % WORD = nread + PIPESIZE - WORD
    BY <1>2, ModOnce
  <2> QED
    BY <1>2, <2>1, HeldValue DEF Full
<1> QED
  BY <1>1, <1>2

\* A counter goes up by one, or from the last value of a uint to zero.
LEMMA IncValue ==
  ASSUME NEW n \in 0..(WORD - 1)
  PROVE  /\ Inc(n) \in 0..(WORD - 1)
         /\ Inc(n) = IF n + 1 = WORD THEN 0 ELSE n + 1
BY WrapNext, Sizes DEF Inc

\* Storing a byte moves the counters one further apart, taking one brings them
\* closer.
LEMMA ApartStore ==
  ASSUME NEW r \in 0..(WORD - 1), NEW w \in 0..(WORD - 1), (w - r) % WORD < PIPESIZE
  PROVE  (Inc(w) - r) % WORD = ((w - r) % WORD) + 1
<1>1. (w - r) % WORD < WORD - 1
  BY Apart, Sizes
<1> QED
  BY Zenon, <1>1, WrapAway, Sizes DEF Inc

\* A byte read makes the distance between the counters one less.
LEMMA ApartTake ==
  ASSUME NEW r \in 0..(WORD - 1), NEW w \in 0..(WORD - 1), (w - r) % WORD >= 1
  PROVE  (w - Inc(r)) % WORD = ((w - r) % WORD) - 1
BY Zenon, WrapTowards, Sizes DEF Inc

-----------------------------------------------------------------------------
(* The pipe is a bounded queue                                             *)

Bounded == Counters /\ Held <= PIPESIZE

\* The slots the counters select are in the buffer.
LEMMA QueueSeq ==
  ASSUME NEW d \in [0..(PIPESIZE - 1) -> Bytes], NEW r \in Nat, NEW h \in Nat
  PROVE  LET q == [k \in 1..h |-> d[((r + k - 1) % WORD) % PIPESIZE]]
         IN  q \in Seq(Bytes) /\ Len(q) = h
<1>1. \A k \in 1..h : ((r + k - 1) % WORD) % PIPESIZE \in 0..(PIPESIZE - 1)
  <2> SUFFICES ASSUME NEW k \in 1..h
               PROVE  ((r + k - 1) % WORD) % PIPESIZE \in 0..(PIPESIZE - 1)
    OBVIOUS
  <2>1. r + k - 1 \in Int /\ WORD \in Nat \ {0} /\ PIPESIZE \in Nat \ {0}
    BY Sizes
  <2>2. (r + k - 1) % WORD \in Int
    BY <2>1, ModRange
  <2> QED
    BY <2>1, <2>2, ModRange
<1>2. \A k \in 1..h : d[((r + k - 1) % WORD) % PIPESIZE] \in Bytes
  BY <1>1
<1> QED
  BY <1>2

\* The byte k places from the oldest.
LEMMA QueueAt ==
  ASSUME Bounded, NEW k \in 1..Held
  PROVE  Queue[k] = data[(nread + k - 1) % PIPESIZE]
<1>1. nread + k - 1 \in 0..(2 * WORD - 1)
  BY HeldValue, Sizes DEF Bounded, Counters
<1>2. ((nread + k - 1) % WORD) % PIPESIZE = (nread + k - 1) % PIPESIZE
  BY <1>1, SlotWrap
<1> QED
  BY <1>2 DEF Queue

\* The slot pipewrite() fills is the one after the newest byte.
LEMMA WriteSlot ==
  ASSUME Counters
  PROVE  nwrite % PIPESIZE = (nread + Held) % PIPESIZE
<1> USE Sizes DEF Counters
<1>1. CASE nread <= nwrite
  BY <1>1, HeldValue
<1>2. CASE nread > nwrite
  <2>1. nread + Held = nwrite + WORD /\ nwrite + WORD \in WORD..(2 * WORD - 1)
    BY <1>2, HeldValue
  <2>2. (nwrite + WORD) % WORD = nwrite
    BY <2>1, ModOnce
  <2>3. ((nwrite + WORD) % WORD) % PIPESIZE = (nwrite + WORD) % PIPESIZE
    <3>1. nwrite + WORD \in 0..(2 * WORD - 1)
      BY <2>1
    <3> QED
      BY Zenon, <3>1, SlotWrap
  <2> QED
    BY <2>1, <2>2, <2>3
<1> QED
  BY <1>1, <1>2

\* Storing a byte and advancing nwrite appends it: no byte that is still to be
\* read is overwritten.
LEMMA StoreAppends ==
  ASSUME Bounded, ~Full, NEW ch \in Bytes,
         data \in [0..(PIPESIZE - 1) -> Bytes],
         data' = [data EXCEPT ![nwrite % PIPESIZE] = ch],
         nwrite' = Inc(nwrite), nread' = nread
  PROVE  Held' = Held + 1 /\ Bounded' /\ Queue' = Append(Queue, ch)
<1> USE Sizes
<1>1. Held \in Nat /\ Held < PIPESIZE
  BY FullHeld, HeldValue DEF Bounded
<1>2. nwrite' \in 0..(WORD - 1) /\ nread' \in 0..(WORD - 1) /\ Counters'
  BY IncValue DEF Bounded, Counters
<1>3. Held' = Held + 1
  <2>1. (Inc(nwrite) - nread) % WORD = ((nwrite - nread) % WORD) + 1
    BY <1>1, ApartStore DEF Bounded, Counters, Held
  <2> QED
    BY <2>1 DEF Held
<1>4. Bounded'
  BY <1>1, <1>2, <1>3 DEF Bounded
<1>5. ASSUME NEW k \in 1..(Held + 1)
      PROVE  Queue'[k] = IF k <= Held THEN Queue[k] ELSE ch
  <2> DEFINE s == (nread + k - 1) % PIPESIZE
  <2>1. nread + k - 1 \in 0..(2 * WORD - 1)
    BY <1>1 DEF Bounded, Counters
  <2>2. s \in 0..(PIPESIZE - 1)
    <3>1. nread + k - 1 \in Int /\ PIPESIZE \in Nat \ {0}
      BY <2>1
    <3> QED
      BY Zenon, <3>1, ModRange
  <2>3. Queue'[k] = data'[s]
    <3>1. Queue'[k] = data'[((nread + k - 1) % WORD) % PIPESIZE]
      BY <1>3 DEF Queue
    <3> QED
      BY Zenon, <3>1, <2>1, SlotWrap
  <2>4. CASE k <= Held
    <3>1. s # (nread + Held) % PIPESIZE
      <4>1. /\ nread + k - 1 \in Int /\ nread + Held \in Int
            /\ nread + k - 1 < nread + Held /\ nread + Held < nread + k - 1 + PIPESIZE
        BY <1>1, <2>4 DEF Bounded, Counters
      <4> QED
        BY <4>1, ModDistinct
    <3>2. s # nwrite % PIPESIZE
      BY <3>1, WriteSlot DEF Bounded
    <3>3. data'[s] = data[s]
      BY <2>2, <3>2
    <3>4. Queue[k] = data[s]
      BY <1>1, <2>4, QueueAt
    <3> QED
      BY <2>3, <2>4, <3>3, <3>4
  <2>5. CASE k = Held + 1
    <3>1. s = nwrite % PIPESIZE
      <4>1. nread + k - 1 = nread + Held
        BY <1>1, <2>5 DEF Bounded, Counters
      <4> QED
        BY <4>1, WriteSlot DEF Bounded
    <3>2. data'[s] = ch
      BY <2>2, <3>1
    <3> QED
      BY <1>1, <2>3, <2>5, <3>2
  <2> QED
    BY <1>1, <2>4, <2>5
<1>6. Queue \in Seq(Bytes) /\ Len(Queue) = Held
  BY <1>1, QueueSeq DEF Queue, Bounded, Counters
<1>7. Queue' \in Seq(Bytes) /\ Len(Queue') = Held + 1
  <2>1. /\ data' \in [0..(PIPESIZE - 1) -> Bytes] /\ nread' \in Nat
        /\ Held' \in Nat /\ Held' = Held + 1
    <3>1. nread' \in Nat /\ Held' \in Nat /\ Held' = Held + 1
      BY <1>1, <1>2, <1>3
    <3>2. data' \in [0..(PIPESIZE - 1) -> Bytes]
      BY Zenon
    <3> QED
      BY <3>1, <3>2
  <2>2. Queue' = [k \in 1..Held' |-> data'[((nread' + k - 1) % WORD) % PIPESIZE]]
    BY DEF Queue
  <2> QED
    BY <2>1, <2>2, QueueSeq
<1>8. /\ \A k \in 1..Len(Queue) : Queue'[k] = Queue[k]
      /\ Queue'[Len(Queue) + 1] = ch
  BY <1>1, <1>5, <1>6
<1>9. Queue' = Append(Queue, ch)
  BY <1>6, <1>7, <1>8, AppendValue
<1> QED
  BY <1>3, <1>4, <1>9

\* Advancing nread removes the oldest byte.
LEMMA TakeTails ==
  ASSUME Bounded, ~Empty, data \in [0..(PIPESIZE - 1) -> Bytes],
         nread' = Inc(nread), nwrite' = nwrite, data' = data
  PROVE  Held' = Held - 1 /\ Bounded' /\ Queue # <<>> /\ Queue' = Tail(Queue)
<1> USE Sizes
<1>1. Held \in Nat /\ Held >= 1 /\ Held <= PIPESIZE
  BY EmptyHeld, HeldValue DEF Bounded
<1>2. nwrite' \in 0..(WORD - 1) /\ nread' \in 0..(WORD - 1) /\ Counters'
  BY IncValue DEF Bounded, Counters
<1>3. nread' = IF nread + 1 = WORD THEN 0 ELSE nread + 1
  BY IncValue DEF Bounded, Counters
<1>4. Held' = Held - 1
  <2>1. (nwrite - Inc(nread)) % WORD = ((nwrite - nread) % WORD) - 1
    BY <1>1, ApartTake DEF Bounded, Counters, Held
  <2> QED
    BY <2>1 DEF Held
<1>5. Bounded'
  BY <1>1, <1>2, <1>4 DEF Bounded
<1>6. ASSUME NEW k \in 1..(Held - 1) PROVE Queue'[k] = Queue[k + 1]
  <2>1. nread' + k - 1 \in 0..(2 * WORD - 1) /\ nread + k \in 0..(2 * WORD - 1)
    BY <1>1, <1>2 DEF Bounded, Counters
  <2>2. (nread' + k - 1) % WORD = (nread + k) % WORD
    <3>1. CASE nread + 1 # WORD
      BY <1>3, <3>1 DEF Bounded, Counters
    <3>2. CASE nread + 1 = WORD
      <4>1. nread' + k - 1 = k - 1 /\ nread + k = k - 1 + WORD /\ k - 1 \in 0..(WORD - 1)
        BY <1>1, <1>3, <3>2 DEF Bounded, Counters
      <4>2. (k - 1) % WORD = k - 1
        BY Zenon, <4>1, ModBelow
      <4>3. (k - 1 + WORD) % WORD = k - 1
        BY <4>1, ModPlus
      <4> QED
        BY <4>1, <4>2, <4>3
    <3> QED
      BY <3>1, <3>2
  <2>3. Queue'[k] = data[((nread' + k - 1) % WORD) % PIPESIZE]
    BY <1>4 DEF Queue
  <2>4. Queue[k + 1] = data[((nread + k) % WORD) % PIPESIZE]
    <3>1. k + 1 \in 1..Held /\ nread + (k + 1) - 1 = nread + k
      BY <1>1 DEF Bounded, Counters
    <3> QED
      BY <3>1 DEF Queue
  <2> QED
    BY <2>2, <2>3, <2>4
<1>7. Queue \in Seq(Bytes) /\ Len(Queue) = Held
  BY <1>1, QueueSeq DEF Queue, Bounded, Counters
<1>8. Queue' \in Seq(Bytes) /\ Len(Queue') = Held - 1
  <2>1. nread' \in Nat /\ Held' \in Nat /\ Held' = Held - 1
    BY <1>1, <1>2, <1>4
  <2>2. Queue' = [k \in 1..Held' |-> data[((nread' + k - 1) % WORD) % PIPESIZE]]
    BY DEF Queue
  <2> QED
    BY Zenon, <2>1, <2>2, QueueSeq
<1>9. Queue # <<>>
  BY <1>1, <1>7
<1>10. \A k \in 1..Len(Queue') : Queue'[k] = Queue[k + 1]
  BY <1>6, <1>8
<1>11. Queue' = Tail(Queue)
  BY <1>7, <1>8, <1>9, <1>10, TailValue
<1> QED
  BY <1>4, <1>5, <1>9, <1>11

\* The data part of the invariant: the buffer, the calls' byte counts, and
\* counters at most PIPESIZE apart.
QueueInv ==
  /\ data \in [0..(PIPESIZE - 1) -> Bytes]
  /\ left \in [Procs -> 0..MaxN]
  /\ Bounded

\* What a step shows of the queue: a byte goes in at one end, one comes out at
\* the other, or an end closes.
Shown ==
  \/ \E b \in Bytes : BQ!Send(b)
  \/ BQ!Receive \/ BQ!CloseRead \/ BQ!CloseWrite
  \/ UNCHANGED <<Queue, readopen, writeopen>>

\* A new pipe is the empty queue.
LEMMA QueueInit == Init => QueueInv /\ BQ!Init
<1> SUFFICES ASSUME Init PROVE QueueInv /\ BQ!Init
  OBVIOUS
<1>1. Counters /\ Held = 0 /\ left \in [Procs -> 0..MaxN]
  <2>1. Counters /\ Empty /\ left \in [Procs -> 0..MaxN]
    BY PipeAssumption DEF Init, Counters, Empty
  <2> QED
    BY <2>1, EmptyHeld
<1>2. Queue = <<>>
  BY <1>1 DEF Queue
<1> QED
  BY <1>1, <1>2, Sizes DEF Init, QueueInv, Bounded, BQ!Init

\* Steps that leave the buffer and its counters alone.
LEMMA QueueFrame ==
  ASSUME QueueInv, UNCHANGED <<data, nread, nwrite>>, left' \in [Procs -> 0..MaxN]
  PROVE  QueueInv' /\ Queue' = Queue
<1>1. Held' = Held
  BY DEF Held
<1> QED
  BY <1>1 DEF QueueInv, Bounded, Counters, Queue

\* A byte that pipewrite() stores goes to the end of the queue.
LEMMA QueueStore ==
  ASSUME SleepInv, QueueInv, NEW p \in Writers, write_byte(p)
  PROVE  QueueInv' /\ Shown
<1>1. /\ pc[p] = "loop" /\ left[p] > 0 /\ readopen /\ ~Full
      /\ nwrite' = Inc(nwrite) /\ nread' = nread
      /\ left' = [left EXCEPT ![p] = @ - 1]
      /\ UNCHANGED <<readopen, writeopen>>
  BY DEF write_byte
<1>2. PICK ch \in Bytes : data' = [data EXCEPT ![nwrite % PIPESIZE] = ch]
  BY Zenon DEF write_byte
<1>3. Held' = Held + 1 /\ Bounded' /\ Queue' = Append(Queue, ch)
  BY Zenon, <1>1, <1>2, StoreAppends DEF QueueInv
<1>4. Held \in Nat /\ Held < PIPESIZE /\ Len(Queue) < PIPESIZE
  <2>1. Held \in Nat /\ Held < PIPESIZE
    BY <1>1, HeldValue, FullHeld, Sizes DEF QueueInv, Bounded
  <2>2. Len(Queue) = Held
    BY <2>1, QueueSeq DEF Queue, QueueInv, Bounded, Counters
  <2> QED
    BY <2>1, <2>2
<1>5. writeopen
  BY <1>1 DEF SleepInv, Types, OpenWhileHeld, Procs
<1>6. left' \in [Procs -> 0..MaxN]
  <2>1. p \in Procs /\ left[p] - 1 \in 0..MaxN
    BY <1>1, PipeAssumption DEF QueueInv, Procs
  <2> QED
    BY <1>1, <2>1 DEF QueueInv
<1>7. data' \in [0..(PIPESIZE - 1) -> Bytes]
  BY Zenon, <1>2 DEF QueueInv
<1> QED
  BY <1>1, <1>3, <1>4, <1>5, <1>6, <1>7 DEF QueueInv, Shown, BQ!Send

\* A byte that piperead() takes is the head of the queue.
LEMMA QueueTake ==
  ASSUME SleepInv, QueueInv, NEW p \in Readers, read_byte(p)
  PROVE  QueueInv' /\ Shown
<1>1. /\ pc[p] = "copy" /\ left[p] > 0 /\ ~Empty
      /\ nread' = Inc(nread) /\ nwrite' = nwrite /\ data' = data
      /\ left' = [left EXCEPT ![p] = @ - 1]
      /\ UNCHANGED <<readopen, writeopen>>
  BY DEF read_byte
<1>2. Bounded' /\ Queue # <<>> /\ Queue' = Tail(Queue)
  BY <1>1, TakeTails DEF QueueInv
<1>3. readopen
  BY <1>1 DEF SleepInv, Types, OpenWhileHeld, Procs
<1>4. left' \in [Procs -> 0..MaxN]
  <2>1. p \in Procs /\ left[p] - 1 \in 0..MaxN
    BY <1>1, PipeAssumption DEF QueueInv, Procs
  <2> QED
    BY <1>1, <2>1 DEF QueueInv
<1> QED
  BY <1>1, <1>2, <1>3, <1>4 DEF QueueInv, Shown, BQ!Receive

\* Closing an end changes no byte of the queue.
LEMMA QueueClose ==
  ASSUME SleepInv, QueueInv, NEW p \in Procs, pipeclose(p)
  PROVE  QueueInv' /\ Shown
<1>1. QueueInv' /\ Queue' = Queue
  BY QueueFrame DEF pipeclose, QueueInv
<1>2. CASE p \in Writers
  <2>1. writeopen
    BY <1>2 DEF pipeclose, SleepInv, OpenWhileHeld
  <2>2. readopen' = readopen /\ writeopen' = FALSE
    BY Zenon, <1>2 DEF pipeclose, SleepInv, Types
  <2> QED
    BY Zenon, <1>1, <2>1, <2>2 DEF Shown, BQ!CloseWrite
<1>3. CASE p \notin Writers
  <2>1. readopen
    BY <1>3 DEF pipeclose, SleepInv, OpenWhileHeld, Procs
  <2>2. writeopen' = writeopen /\ readopen' = FALSE
    BY Zenon, <1>3 DEF pipeclose, SleepInv, Types
  <2> QED
    BY Zenon, <1>1, <2>1, <2>2 DEF Shown, BQ!CloseRead
<1> QED
  BY <1>2, <1>3

\* Every step of the pipe is a step of the queue, or none.
LEMMA QueueNext == SleepInv /\ QueueInv /\ [Next]_vars => QueueInv' /\ Shown
<1> SUFFICES ASSUME SleepInv, QueueInv, [Next]_vars PROVE QueueInv' /\ Shown
  OBVIOUS
<1>1. ASSUME UNCHANGED pipe, left' \in [Procs -> 0..MaxN] PROVE QueueInv' /\ Shown
  BY <1>1, QueueFrame DEF pipe, Shown
<1>2. 0 \in 0..MaxN /\ left \in [Procs -> 0..MaxN]
  BY PipeAssumption DEF QueueInv
<1>3. ASSUME NEW p \in Procs, p \in Writers, Write(p) PROVE QueueInv' /\ Shown
  <2>1. CASE write_byte(p)
    BY <1>3, <2>1, QueueStore
  <2>2. CASE write_fails(p) \/ write_full(p) \/ write_done(p)
    BY <1>1, <1>2, <2>2 DEF write_fails, write_full, write_done, Return, Sleep
  <2> QED
    BY <1>3, <2>1, <2>2 DEF Write
<1>4. ASSUME NEW p \in Procs, p \in Readers, Read(p) PROVE QueueInv' /\ Shown
  <2>1. CASE read_byte(p)
    BY <1>4, <2>1, QueueTake
  <2>2. CASE read_killed(p) \/ read_empty(p) \/ read_ready(p) \/ read_done(p)
    BY <1>1, <1>2, <2>2 DEF read_killed, read_empty, read_ready, read_done, Return, Sleep
  <2> QED
    BY <1>4, <2>1, <2>2 DEF Read
<1>5. ASSUME NEW p \in Procs, acquire(p) \/ kkill(p) \/ fileclose(p) \/ kfree(p)
      PROVE  QueueInv' /\ Shown
  BY <1>1, <1>2, <1>5 DEF acquire, kkill, fileclose, kfree
<1>6. ASSUME NEW p \in Procs, pipeclose(p) PROVE QueueInv' /\ Shown
  BY <1>6, QueueClose
<1>7. ASSUME NEW p \in Procs, NEW n \in 0..MaxN, call(p, n) PROVE QueueInv' /\ Shown
  BY <1>1, <1>2, <1>7 DEF call
<1>8. CASE UNCHANGED vars
  BY <1>1, <1>2, <1>8 DEF vars
<1> QED
  BY <1>3, <1>4, <1>5, <1>6, <1>7, <1>8 DEF Next, InCall, Done

\* The invariants of the sleepers and of the bytes hold in every behaviour.
LEMMA QueueInvAlways ==
  ASSUME Readers # {}, Writers # {}
  PROVE  Spec => [](SleepInv /\ QueueInv)
<1>1. SleepInv /\ QueueInv /\ [Next]_vars => QueueInv'
  BY QueueNext
<1>2. Init => QueueInv
  BY QueueInit
<1> QED
  BY <1>1, <1>2, SleepInvAlways, PTL DEF Spec

\* The invariant of pipe.c: the lock is held exactly inside the two loops, no
\* writer sleeps without cause, and nread and nwrite, which wrap, are never
\* more than PIPESIZE apart.
THEOREM PipeInvariant ==
  ASSUME Readers # {}, Writers # {}
  PROVE  Spec => []PipeInv
<1>1. SleepInv /\ QueueInv => PipeInv
  <2> SUFFICES ASSUME SleepInv, QueueInv PROVE PipeInv
    OBVIOUS
  <2>1. TypeOK
    BY DEF SleepInv, Types, QueueInv, Bounded, Counters, TypeOK
  <2>2. WriterNotStranded
    BY DEF SleepInv, WriterWaits, WriterNotStranded, LockHeld, Procs
  <2> QED
    BY <2>1, <2>2, FreedAfterAll DEF SleepInv, LockHeld, QueueInv, Bounded, PipeInv
<1> QED
  BY <1>1, QueueInvAlways, PTL

\* pipe.c implements ByteQueue: through any number of wraps of the 32-bit
\* counters no byte is lost, repeated, reordered or overwritten before it is
\* read, and no more than PIPESIZE are held.
THEOREM PipeImplementsQueue ==
  ASSUME Readers # {}, Writers # {}
  PROVE  Spec => ImplementsQueue
<1>1. SleepInv /\ QueueInv /\ [Next]_vars => [BQ!Next]_<<Queue, readopen, writeopen>>
  BY QueueNext DEF Shown, BQ!Next
<1>2. Init => BQ!Init
  BY QueueInit
<1> QED
  BY <1>1, <1>2, QueueInvAlways, PTL DEF Spec, ImplementsQueue, BQ!Spec
=============================================================================
