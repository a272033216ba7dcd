---------------------------- MODULE InodeProofs -----------------------------
(***************************************************************************)
(* The reference counts of the inode table are exact, for any processes,   *)
(* inodes, names and number of calls, and through crashes.                 *)
(***************************************************************************)
EXTENDS Inode, FiniteSetTheorems, TLAPS

USE Zenon

-----------------------------------------------------------------------------
(* Counting pointers                                                       *)

Pointer == Inums \cup {Null}

\* 1 or 0: does a point to i, is x in S?
Is(a, i) == IF a = i THEN 1 ELSE 0
In(x, S) == IF x \in S THEN 1 ELSE 0

\* How often i is in a list of at most two puts.
Occurs(s, i) ==
  (IF Len(s) >= 1 /\ s[1] = i THEN 1 ELSE 0) + (IF Len(s) >= 2 /\ s[2] = i THEN 1 ELSE 0)

Lists == {s \in Seq(Inums) : Len(s) <= 2}

\* InTodo() for any lists of puts.
Owed(t, i) == Cardinality({x \in Procs \X {1, 2} : x[2] <= Len(t[x[1]]) /\ t[x[1]][x[2]] = i})

\* The pointers of p to i: the locals of its call and the puts it owes, and all.
Locals(p, i) == Is(dp[p], i) + Is(ip[p], i) + Occurs(todo[p], i)
Holds(p, i) == Is(cwd[p], i) + Is(file[p], i) + Locals(p, i)

\* The count of i follows what p holds.
Follows(p, i) == ref'[i] = ref[i] - Holds(p, i) + Holds(p, i)'

\* Adding the elements of a set that may hold x, but for x.
LEMMA CountApart ==
  ASSUME NEW S, IsFiniteSet(S), NEW x
  PROVE  /\ Cardinality(S) \in Nat /\ Cardinality(S \ {x}) \in Nat
         /\ Cardinality(S) = Cardinality(S \ {x}) + In(x, S)
  <1>1. Cardinality(S) \in Nat
    BY FS_CardinalityType
  <1>2. CASE x \in S
    <2>1. IsFiniteSet(S \ {x}) /\ Cardinality(S \ {x}) = Cardinality(S) - 1
      BY <1>2, FS_RemoveElement
    <2>2. Cardinality(S \ {x}) \in Nat
      BY <2>1, FS_CardinalityType
    <2> QED BY SMTT(30), <1>1, <1>2, <2>1, <2>2 DEF Is, In
  <1>3. CASE x \notin S
    <2>1. S \ {x} = S
      BY <1>3
    <2> QED BY SMTT(30), <1>1, <1>3, <2>1 DEF Is, In
  <1> QED BY <1>2, <1>3

\* f and g differ for p alone.
OnlyFor(p, f, g) == \A q \in Procs : q # p => g[q] = f[q]

\* One process changes one of its pointers.
LEMMA CountChange ==
  ASSUME NEW f, NEW g, NEW p \in Procs, OnlyFor(p, f, g), NEW i
  PROVE  /\ Count(f, i) \in Nat /\ Count(g, i) \in Nat
         /\ Count(g, i) = Count(f, i) - Is(f[p], i) + Is(g[p], i)
  <1> DEFINE A == {q \in Procs : f[q] = i}
             B == {q \in Procs : g[q] = i}
  <1>1. IsFiniteSet(A) /\ IsFiniteSet(B)
    BY InodeAssumption, FS_Subset
  <1>2. A \ {p} = B \ {p}
    BY DEF OnlyFor
  <1>3. In(p, A) = Is(f[p], i) /\ In(p, B) = Is(g[p], i)
    BY DEF Is, In
  <1>4. Count(f, i) = Cardinality(A) /\ Count(g, i) = Cardinality(B)
    BY DEF Count
  <1> HIDE DEF A, B
  <1>5. /\ Cardinality(A) \in Nat /\ Cardinality(A \ {p}) \in Nat
        /\ Cardinality(A) = Cardinality(A \ {p}) + In(p, A)
    BY <1>1, CountApart
  <1>6. /\ Cardinality(B) \in Nat
        /\ Cardinality(B) = Cardinality(B \ {p}) + In(p, B)
    BY <1>1, CountApart
  <1>7. Is(f[p], i) \in Nat /\ Is(g[p], i) \in Nat
    BY DEF Is
  <1> DEFINE n == Cardinality(A \ {p})
             a == Is(f[p], i)
             b == Is(g[p], i)
  <1>8. /\ n \in Nat /\ a \in Nat /\ b \in Nat
        /\ Count(f, i) = n + a /\ Count(g, i) = n + b
    BY <1>2, <1>3, <1>4, <1>5, <1>6, <1>7
  <1> HIDE DEF n, a, b
  <1>9. /\ Count(f, i) \in Nat /\ Count(g, i) \in Nat
        /\ Count(g, i) = Count(f, i) - a + b
    BY SMTT(30), <1>8
  <1> QED BY <1>9 DEF a, b

\* One process changes the puts it owes.
LEMMA OwedChange ==
  ASSUME NEW t \in [Procs -> Lists], NEW u \in [Procs -> Lists],
         NEW p \in Procs, OnlyFor(p, t, u), NEW i
  PROVE  /\ Owed(t, i) \in Nat /\ Owed(u, i) \in Nat
         /\ Owed(u, i) = Owed(t, i) - Occurs(t[p], i) + Occurs(u[p], i)
  <1> DEFINE A == {x \in Procs \X {1, 2} : x[2] <= Len(t[x[1]]) /\ t[x[1]][x[2]] = i}
             B == {x \in Procs \X {1, 2} : x[2] <= Len(u[x[1]]) /\ u[x[1]][x[2]] = i}
             x1 == <<p, 1>>
             x2 == <<p, 2>>
             A1 == A \ {x1}
             B1 == B \ {x1}
  <1>1. IsFiniteSet(A) /\ IsFiniteSet(B)
    <2>1. IsFiniteSet({1, 2})
      <3>1. IsFiniteSet({1})
        BY FS_Singleton
      <3>2. IsFiniteSet({1} \cup {2})
        BY <3>1, FS_AddElement
      <3>3. {1} \cup {2} = {1, 2}
        OBVIOUS
      <3> QED BY <3>2, <3>3
    <2>2. IsFiniteSet(Procs \X {1, 2})
      BY <2>1, InodeAssumption, FS_Product
    <2>3. A \subseteq Procs \X {1, 2} /\ B \subseteq Procs \X {1, 2}
      OBVIOUS
    <2> QED BY <2>2, <2>3, FS_Subset
  <1>2. A1 \ {x2} = B1 \ {x2}
    BY SMTT(30) DEF OnlyFor
  <1>3. /\ Occurs(t[p], i) = In(x1, A) + In(x2, A1)
        /\ Occurs(u[p], i) = In(x1, B) + In(x2, B1)
    <2>1. t[p] \in Lists /\ u[p] \in Lists
      OBVIOUS
    <2>2. /\ x1 \in A <=> Len(t[p]) >= 1 /\ t[p][1] = i
          /\ x2 \in A1 <=> Len(t[p]) >= 2 /\ t[p][2] = i
          /\ x1 \in B <=> Len(u[p]) >= 1 /\ u[p][1] = i
          /\ x2 \in B1 <=> Len(u[p]) >= 2 /\ u[p][2] = i
      BY SMTT(30), <2>1 DEF Lists
    <2> HIDE DEF A, B, A1, B1, x1, x2
    <2> QED BY <2>1, <2>2 DEF Lists, Occurs, Is, In
  <1>4. Owed(t, i) = Cardinality(A) /\ Owed(u, i) = Cardinality(B)
    BY DEF Owed
  <1> HIDE DEF A, B, x1, x2
  <1>5. IsFiniteSet(A1) /\ IsFiniteSet(B1)
    BY <1>1, FS_Subset
  <1>6. /\ Cardinality(A) \in Nat /\ Cardinality(A) = Cardinality(A1) + In(x1, A)
        /\ Cardinality(B) \in Nat /\ Cardinality(B) = Cardinality(B1) + In(x1, B)
    BY <1>1, CountApart
  <1> HIDE DEF A1, B1
  <1>7. /\ Cardinality(A1) \in Nat /\ Cardinality(A1 \ {x2}) \in Nat
        /\ Cardinality(A1) = Cardinality(A1 \ {x2}) + In(x2, A1)
        /\ Cardinality(B1) \in Nat /\ Cardinality(B1 \ {x2}) \in Nat
        /\ Cardinality(B1) = Cardinality(B1 \ {x2}) + In(x2, B1)
    BY <1>5, CountApart
  <1>8. /\ In(x1, A) \in Nat /\ In(x2, A1) \in Nat
        /\ In(x1, B) \in Nat /\ In(x2, B1) \in Nat
    BY DEF Is, In
  <1> DEFINE a1 == In(x1, A)
             a2 == In(x2, A1)
             b1 == In(x1, B)
             b2 == In(x2, B1)
  <1>9. /\ a1 \in Nat /\ a2 \in Nat /\ b1 \in Nat /\ b2 \in Nat
        /\ Occurs(t[p], i) = a1 + a2 /\ Occurs(u[p], i) = b1 + b2
        /\ Cardinality(A) = Cardinality(A1 \ {x2}) + a2 + a1
        /\ Cardinality(B) = Cardinality(A1 \ {x2}) + b2 + b1
    BY <1>2, <1>3, <1>6, <1>7, <1>8
  <1> HIDE DEF a1, a2, b1, b2
  <1> QED BY SMTT(30), <1>4, <1>7, <1>9

-----------------------------------------------------------------------------
(* The inductive invariant                                                 *)

\* Disks, when nothing is known of the link counts.
DiskShape ==
  [type : [Inums -> {"FILE", "DIR", Null}], nlink : [Inums -> Int],
   dents : [Inums -> [Names -> Inums \cup {Null}]],
   dotdot : [Inums -> Inums \cup {Null}]]

Calls == {"open", "creat", "mkdir", "link", "unlink", "chdir", "close"}

Pointers ==
  /\ disk \in DiskShape /\ durable \in DiskShape /\ ref \in [Inums -> Int]
  /\ cwd \in [Procs -> Inums] /\ file \in [Procs -> Inums \cup {Null}]
  /\ dp \in [Procs -> Inums \cup {Null}] /\ ip \in [Procs -> Inums \cup {Null}]
  /\ todo \in [Procs -> Lists]
  /\ pc \in [Procs -> Places] /\ op \in [Procs -> Calls] /\ name \in [Procs -> PathNames]

\* Which of its locals a call in progress uses at place l of call o.
Shaped(l, o, d, j, s) ==
  /\ l = "idle" => s = <<>>
  /\ l \in {"idle", "end"} => d = Null /\ j = Null
  /\ l = "walk" => d # Null /\ (j # Null => o = "link")
  /\ l \in {"found", "link_bad", "created", "unlink_drop"} => d = Null /\ j # Null
  /\ l \in {"create_init", "unlink_ip"} => d # Null /\ j # Null
  /\ l = "bail" => d # Null /\ j = Null

Shape == \A p \in Procs : Shaped(pc[p], op[p], dp[p], ip[p], todo[p])

RefInv == Pointers /\ Shape /\ RefExact

-----------------------------------------------------------------------------
(* Steps                                                                   *)

\* The first of some puts, and the others.
LEMMA TailFacts ==
  ASSUME NEW s \in Seq(Inums), s # <<>>
  PROVE  /\ Len(s) \in Nat \ {0} /\ Head(s) = s[1] /\ s[1] \in Inums
         /\ Tail(s) \in Seq(Inums) /\ Len(Tail(s)) = Len(s) - 1
         /\ Len(s) > 1 => Tail(s)[1] = s[2]
  <1>1. Len(s) \in Nat \ {0}
    BY SMTT(30)
  <1>2. Head(s) = s[1] /\ s[1] \in Inums
    BY SMTT(30), <1>1
  <1>3. Tail(s) \in Seq(Inums) /\ Len(Tail(s)) = Len(s) - 1
    BY SMTT(30), <1>1
  <1>4. Len(s) > 1 => Tail(s)[1] = s[2]
    BY SMTT(30), <1>1
  <1> QED BY <1>1, <1>2, <1>3, <1>4

\* What the lists of the calls count for.
LEMMA OccursValue ==
  /\ \A i \in Inums : Is(Null, i) = 0 /\ Occurs(<<>>, i) = 0
  /\ \A i, x \in Inums : Is(x, i) \in Nat /\ Occurs(<<x>>, i) = Is(x, i)
  /\ \A i, x, y \in Inums : Occurs(<<x, y>>, i) = Is(x, i) + Is(y, i)
  /\ \A i \in Inums : \A s \in Lists : s # <<>> =>
       Tail(s) \in Lists /\ Head(s) \in Inums /\ Occurs(Tail(s), i) = Occurs(s, i) - Is(Head(s), i)
  /\ <<>> \in Lists /\ \A x \in Inums : <<x>> \in Lists
  /\ \A x, y \in Inums : <<x, y>> \in Lists
  <1>1. \A i \in Inums : Is(Null, i) = 0 /\ Occurs(<<>>, i) = 0
    BY SMTT(30), InodeAssumption DEF Is, Occurs
  <1>2. \A i, x \in Inums : Is(x, i) \in Nat /\ Occurs(<<x>>, i) = Is(x, i)
    BY SMTT(30) DEF Is, Occurs
  <1>3. \A i, x, y \in Inums : Occurs(<<x, y>>, i) = Is(x, i) + Is(y, i)
    BY SMTT(30) DEF Is, Occurs
  <1>4. ASSUME NEW i \in Inums, NEW s \in Lists, s # <<>>
        PROVE  Tail(s) \in Lists /\ Head(s) \in Inums /\ Occurs(Tail(s), i) = Occurs(s, i) - Is(Head(s), i)
    <2>1. s \in Seq(Inums) /\ Len(s) <= 2 /\ s # <<>>
      BY <1>4 DEF Lists
    <2>2. /\ Len(s) \in Nat \ {0} /\ Head(s) = s[1] /\ s[1] \in Inums
          /\ Tail(s) \in Seq(Inums) /\ Len(Tail(s)) = Len(s) - 1
          /\ Len(s) > 1 => Tail(s)[1] = s[2]
      BY <2>1, TailFacts
    <2> QED BY SMTT(30), <2>1, <2>2 DEF Lists, Is, Occurs
  <1>5. /\ <<>> \in Lists /\ \A x \in Inums : <<x>> \in Lists
        /\ \A x, y \in Inums : <<x, y>> \in Lists
    BY SMTT(30) DEF Lists
  <1> QED BY <1>1, <1>2, <1>3, <1>4, <1>5

\* A process changes its own pointers, and the counts follow.
LEMMA Moved ==
  ASSUME Pointers, Pointers', RefExact, NEW p \in Procs,
         OnlyFor(p, cwd, cwd'), OnlyFor(p, file, file'), OnlyFor(p, dp, dp'),
         OnlyFor(p, ip, ip'), OnlyFor(p, todo, todo'),
         \A i \in Inums : Follows(p, i)
  PROVE  RefExact'
  <1> SUFFICES ASSUME NEW i \in Inums
               PROVE  ref'[i] = Count(cwd', i) + Count(file', i) + Count(dp', i)
                                  + Count(ip', i) + Owed(todo', i)
    BY DEF RefExact, InTodo, Owed
  <1>1. todo \in [Procs -> Lists] /\ todo' \in [Procs -> Lists]
    BY DEF Pointers
  <1>2. ref[i] = Count(cwd, i) + Count(file, i) + Count(dp, i) + Count(ip, i) + Owed(todo, i)
    BY DEF RefExact, InTodo, Owed
  <1>3. /\ Count(cwd, i) \in Nat
        /\ Count(cwd', i) = Count(cwd, i) - Is(cwd[p], i) + Is(cwd'[p], i)
    BY SMTT(30), CountChange
  <1>4. /\ Count(file, i) \in Nat
        /\ Count(file', i) = Count(file, i) - Is(file[p], i) + Is(file'[p], i)
    BY SMTT(30), CountChange
  <1>5. /\ Count(dp, i) \in Nat
        /\ Count(dp', i) = Count(dp, i) - Is(dp[p], i) + Is(dp'[p], i)
    BY SMTT(30), CountChange
  <1>6. /\ Count(ip, i) \in Nat
        /\ Count(ip', i) = Count(ip, i) - Is(ip[p], i) + Is(ip'[p], i)
    BY SMTT(30), CountChange
  <1>7. /\ Owed(todo, i) \in Nat
        /\ Owed(todo', i) = Owed(todo, i) - Occurs(todo[p], i) + Occurs(todo'[p], i)
    BY SMTT(30), <1>1, OwedChange
  <1>8. /\ Is(cwd[p], i) \in Nat /\ Is(cwd'[p], i) \in Nat /\ Is(file[p], i) \in Nat
        /\ Is(file'[p], i) \in Nat /\ Is(dp[p], i) \in Nat /\ Is(dp'[p], i) \in Nat
        /\ Is(ip[p], i) \in Nat /\ Is(ip'[p], i) \in Nat
        /\ Occurs(todo[p], i) \in Nat /\ Occurs(todo'[p], i) \in Nat
    BY SMTT(30) DEF Is, Occurs
  <1>9. Follows(p, i)
    OBVIOUS
  <1> QED BY SMTT(30), <1>2, <1>3, <1>4, <1>5, <1>6, <1>7, <1>8, <1>9 DEF Follows, Holds, Locals

\* Only p goes on, in its call.
Alone(p) ==
  /\ OnlyFor(p, pc, pc') /\ OnlyFor(p, op, op') /\ OnlyFor(p, dp, dp') /\ OnlyFor(p, ip, ip')
  /\ OnlyFor(p, todo, todo')

\* The locals of p suit its place.
Fits(p) == Shaped(pc[p], op[p], dp[p], ip[p], todo[p])

\* What Go() leaves, and that its values are what they should be.
LEMMA GoFacts ==
  ASSUME Pointers, NEW p \in Procs, NEW l \in Places, NEW o \in Calls, NEW n \in PathNames,
         NEW d \in Pointer, NEW j \in Pointer, NEW s \in Lists, Go(p, l, o, n, d, j, s)
  PROVE  /\ pc' \in [Procs -> Places] /\ op' \in [Procs -> Calls]
         /\ name' \in [Procs -> PathNames] /\ dp' \in [Procs -> Pointer]
         /\ ip' \in [Procs -> Pointer] /\ todo' \in [Procs -> Lists]
         /\ pc'[p] = l /\ op'[p] = o /\ dp'[p] = d /\ ip'[p] = j /\ todo'[p] = s
         /\ Alone(p)
  <1>1. /\ pc' \in [Procs -> Places] /\ op' \in [Procs -> Calls]
        /\ name' \in [Procs -> PathNames] /\ pc'[p] = l /\ op'[p] = o
    BY DEF Pointers, Go
  <1>2. /\ dp' \in [Procs -> Pointer] /\ ip' \in [Procs -> Pointer]
        /\ todo' \in [Procs -> Lists] /\ dp'[p] = d /\ ip'[p] = j /\ todo'[p] = s
    BY DEF Pointers, Pointer, Go
  <1>3. Alone(p)
    BY DEF Pointers, Go, Alone, OnlyFor
  <1> QED BY <1>1, <1>2, <1>3

\* A step in which the locals of p still suit, and the counts follow.
LEMMA Balanced ==
  ASSUME RefInv, Pointers', NEW p \in Procs, Alone(p), Fits(p)',
         OnlyFor(p, cwd, cwd'), OnlyFor(p, file, file'),
         \A i \in Inums : Follows(p, i)
  PROVE  RefInv'
  <1>1. Shape'
    <2> SUFFICES ASSUME NEW q \in Procs PROVE Fits(q)'
      BY DEF Shape, Fits
    <2>1. Fits(q)
      BY DEF RefInv, Shape, Fits
    <2>2. CASE q # p
      <3>1. /\ pc'[q] = pc[q] /\ op'[q] = op[q] /\ dp'[q] = dp[q]
            /\ ip'[q] = ip[q] /\ todo'[q] = todo[q]
        BY <2>2 DEF Alone, OnlyFor
      <3> QED BY <2>1, <3>1 DEF Fits
    <2> QED BY <2>2
  <1>2. RefExact'
    BY Moved DEF RefInv, Alone
  <1> QED BY <1>1, <1>2 DEF RefInv

\* What a process holds is a number.
LEMMA HoldsType ==
  ASSUME NEW p, NEW i
  PROVE  /\ Is(cwd[p], i) \in Nat /\ Is(file[p], i) \in Nat
         /\ Locals(p, i) \in Nat /\ Locals(p, i)' \in Nat
  BY SMTT(30) DEF Locals, Is, Occurs

\* A step that takes no reference: the locals it leaves are put or kept.
LEMMA PassOn ==
  ASSUME RefInv, Pointers', NEW p \in Procs, Alone(p), Fits(p)',
         cwd' = cwd, file' = file, ref' = ref,
         \A i \in Inums : Locals(p, i)' = Locals(p, i)
  PROVE  RefInv'
  <1>1. OnlyFor(p, cwd, cwd') /\ OnlyFor(p, file, file')
    BY DEF OnlyFor
  <1>2. ASSUME NEW i \in Inums PROVE Follows(p, i)
    <2>1. ref[i] \in Int
      BY DEF RefInv, Pointers
    <2>2. Holds(p, i) \in Nat /\ Holds(p, i)' = Holds(p, i)
      BY SMTT(30), HoldsType DEF Holds
    <2> QED BY SMTT(30), <2>1, <2>2 DEF Follows
  <1> QED BY <1>1, <1>2, Balanced

\* A step that takes a reference to g.
LEMMA PassGet ==
  ASSUME RefInv, Pointers', NEW p \in Procs, Alone(p), Fits(p)',
         cwd' = cwd, file' = file, NEW g \in Inums, iget(g),
         \A i \in Inums : Locals(p, i)' = Locals(p, i) + Is(g, i)
  PROVE  RefInv'
  <1>1. OnlyFor(p, cwd, cwd') /\ OnlyFor(p, file, file')
    BY DEF OnlyFor
  <1>2. ASSUME NEW i \in Inums PROVE Follows(p, i)
    <2>1. ref[i] \in Int /\ ref'[i] = ref[i] + Is(g, i) /\ Is(g, i) \in Nat
      BY SMTT(30) DEF RefInv, Pointers, iget, Is
    <2>2. Holds(p, i) \in Nat /\ Holds(p, i)' = Holds(p, i) + Is(g, i)
      BY SMTT(30), <2>1, HoldsType DEF Holds
    <2> QED BY SMTT(30), <2>1, <2>2 DEF Follows
  <1> QED BY <1>1, <1>2, Balanced

\* The call ends but for the puts of s, which are the locals it had.
LEMMA FinishStep ==
  ASSUME RefInv, NEW p \in Procs, NEW s \in Lists, Finish(p, s),
         cwd' = cwd, file' = file, ref' = ref, disk' \in DiskShape, durable' \in DiskShape,
         \A i \in Inums : Occurs(s, i) = Locals(p, i)
  PROVE  RefInv'
  <1>1. /\ "end" \in Places /\ "close" \in Calls /\ ".." \in PathNames /\ Null \in Pointer
        /\ Pointers
    BY DEF Places, Calls, PathNames, Pointer, RefInv
  <1>2. Go(p, "end", "close", "..", Null, Null, s)
    BY DEF Finish
  <1>3. /\ pc' \in [Procs -> Places] /\ op' \in [Procs -> Calls]
        /\ name' \in [Procs -> PathNames] /\ dp' \in [Procs -> Pointer]
        /\ ip' \in [Procs -> Pointer] /\ todo' \in [Procs -> Lists]
        /\ pc'[p] = "end" /\ dp'[p] = Null /\ ip'[p] = Null /\ todo'[p] = s
        /\ Alone(p)
    BY SMTT(30), <1>1, <1>2, GoFacts
  <1>4. Pointers'
    BY <1>1, <1>3 DEF Pointers, Pointer
  <1>5. Fits(p)'
    BY <1>3 DEF Fits, Shaped
  <1>6. ASSUME NEW i \in Inums PROVE Locals(p, i)' = Locals(p, i)
    <2>1. Is(Null, i) = 0 /\ Occurs(s, i) \in Nat
      BY SMTT(30), OccursValue DEF Occurs
    <2> QED BY SMTT(30), <1>3, <2>1 DEF Locals
  <1> QED BY <1>3, <1>4, <1>5, <1>6, PassOn

\* The call goes on at l with d and j, after the puts of s.
LEMMA ThenStep ==
  ASSUME RefInv, NEW p \in Procs, NEW l \in Places, NEW d \in Pointer, NEW j \in Pointer,
         NEW s \in Lists, Then(p, l, d, j, s),
         cwd' = cwd, file' = file, ref' = ref, disk' \in DiskShape, durable' \in DiskShape,
         Shaped(l, op[p], d, j, s),
         \A i \in Inums : Is(d, i) + Is(j, i) + Occurs(s, i) = Locals(p, i)
  PROVE  RefInv'
  <1>1. op[p] \in Calls /\ name[p] \in PathNames /\ Pointers
    BY DEF Pointers, RefInv
  <1>2. Go(p, l, op[p], name[p], d, j, s)
    BY DEF Then
  <1>3. /\ pc' \in [Procs -> Places] /\ op' \in [Procs -> Calls]
        /\ name' \in [Procs -> PathNames] /\ dp' \in [Procs -> Pointer]
        /\ ip' \in [Procs -> Pointer] /\ todo' \in [Procs -> Lists]
        /\ pc'[p] = l /\ op'[p] = op[p] /\ dp'[p] = d /\ ip'[p] = j /\ todo'[p] = s
        /\ Alone(p)
    BY <1>1, <1>2, GoFacts
  <1>4. Pointers'
    BY <1>1, <1>3 DEF Pointers, Pointer
  <1>5. Fits(p)'
    BY <1>3 DEF Fits
  <1>6. \A i \in Inums : Locals(p, i)' = Locals(p, i)
    BY <1>3 DEF Locals
  <1> QED BY <1>3, <1>4, <1>5, <1>6, PassOn

\* The call takes a reference to g and goes on at l with d and j.
LEMMA GetStep ==
  ASSUME RefInv, NEW p \in Procs, NEW l \in Places, NEW o \in Calls, NEW n \in PathNames,
         NEW d \in Pointer, NEW j \in Pointer, NEW s \in Lists, Go(p, l, o, n, d, j, s),
         NEW g \in Inums, iget(g),
         cwd' = cwd, file' = file, disk' \in DiskShape, durable' \in DiskShape,
         Shaped(l, o, d, j, s),
         \A i \in Inums : Is(d, i) + Is(j, i) + Occurs(s, i) = Locals(p, i) + Is(g, i)
  PROVE  RefInv'
  <1>1. Pointers
    BY DEF RefInv
  <1>3. /\ pc' \in [Procs -> Places] /\ op' \in [Procs -> Calls]
        /\ name' \in [Procs -> PathNames] /\ dp' \in [Procs -> Pointer]
        /\ ip' \in [Procs -> Pointer] /\ todo' \in [Procs -> Lists]
        /\ pc'[p] = l /\ op'[p] = o /\ dp'[p] = d /\ ip'[p] = j /\ todo'[p] = s
        /\ Alone(p)
    BY <1>1, GoFacts
  <1>2. ref' \in [Inums -> Int]
    BY SMTT(30), <1>1 DEF Pointers, iget
  <1>4. Pointers'
    BY <1>1, <1>2, <1>3 DEF Pointers, Pointer
  <1>5. Fits(p)'
    BY <1>3 DEF Fits
  <1>6. \A i \in Inums : Locals(p, i)' = Locals(p, i) + Is(g, i)
    BY <1>3 DEF Locals
  <1> QED BY <1>3, <1>4, <1>5, <1>6, PassGet

-----------------------------------------------------------------------------
(* Every action keeps the counts exact                                     *)

\* The puts of p are done: what it holds besides cwd and file are dp and ip.
Settled(p) ==
  \A i \in Inums : /\ Is(dp[p], i) \in Nat /\ Is(ip[p], i) \in Nat /\ Is(Null, i) = 0
                   /\ Locals(p, i) = Is(dp[p], i) + Is(ip[p], i)

\* What the invariant says of a call at a place with nothing to put.
LEMMA AtFacts ==
  ASSUME RefInv, NEW p \in Procs, NEW l, At(p, l)
  PROVE  /\ Pointers /\ todo[p] = <<>> /\ dp[p] \in Pointer /\ ip[p] \in Pointer
         /\ l = "end" => dp[p] = Null /\ ip[p] = Null
         /\ l = "walk" => dp[p] \in Inums /\ (ip[p] = Null \/ (op[p] = "link" /\ ip[p] \in Inums))
         /\ l \in {"found", "link_bad", "created", "unlink_drop"}
              => dp[p] = Null /\ ip[p] \in Inums
         /\ l \in {"create_init", "unlink_ip"} => dp[p] \in Inums /\ ip[p] \in Inums
         /\ l = "bail" => dp[p] \in Inums /\ ip[p] = Null
         /\ Settled(p)
  <1>1. Pointers /\ todo[p] = <<>> /\ dp[p] \in Pointer /\ ip[p] \in Pointer /\ pc[p] = l
    BY DEF RefInv, Pointers, Pointer, At
  <1>2. Shaped(l, op[p], dp[p], ip[p], todo[p])
    BY <1>1 DEF RefInv, Shape
  <1>3. /\ l = "end" => dp[p] = Null /\ ip[p] = Null
        /\ l = "walk" => dp[p] \in Inums /\ (ip[p] = Null \/ (op[p] = "link" /\ ip[p] \in Inums))
        /\ l \in {"found", "link_bad", "created", "unlink_drop"}
              => dp[p] = Null /\ ip[p] \in Inums
        /\ l \in {"create_init", "unlink_ip"} => dp[p] \in Inums /\ ip[p] \in Inums
        /\ l = "bail" => dp[p] \in Inums /\ ip[p] = Null
    BY <1>1, <1>2 DEF Shaped, Pointer
  <1>4. ASSUME NEW i \in Inums
        PROVE  /\ Is(dp[p], i) \in Nat /\ Is(ip[p], i) \in Nat
               /\ Locals(p, i) = Is(dp[p], i) + Is(ip[p], i)
               /\ Is(Null, i) = 0
    <2>1. Occurs(todo[p], i) = 0 /\ Is(Null, i) = 0
      BY <1>1, OccursValue
    <2>2. Is(dp[p], i) \in Nat /\ Is(ip[p], i) \in Nat
      BY DEF Is
    <2> QED BY SMTT(30), <2>1, <2>2 DEF Locals
  <1> QED BY <1>1, <1>3, <1>4 DEF Settled

\* namex() that fails puts the directory it is at, and a link() the inode it
\* holds.
LEMMA WalkFail ==
  ASSUME RefInv, NEW p \in Procs, walk_fail(p) PROVE RefInv'
  <1>1. /\ At(p, "walk") /\ cwd' = cwd /\ file' = file /\ ref' = ref /\ disk' = disk
        /\ durable' = durable
    BY DEF walk_fail
  <1>2. /\ Pointers /\ dp[p] \in Inums
        /\ ip[p] = Null \/ (op[p] = "link" /\ ip[p] \in Inums)
        /\ Settled(p)
    BY <1>1, AtFacts
  <1>3. disk' \in DiskShape /\ durable' \in DiskShape
    BY <1>1, <1>2 DEF Pointers
  <1>4. CASE Linking(p)
    <2>1. Then(p, "link_bad", Null, ip[p], <<dp[p]>>) /\ ip[p] \in Inums
      BY <1>2, <1>4 DEF walk_fail, Linking
    <2>2. /\ "link_bad" \in Places /\ Null \in Pointer /\ ip[p] \in Pointer
          /\ <<dp[p]>> \in Lists
      BY <1>2, <2>1, OccursValue DEF Places, Pointer
    <2>3. Shaped("link_bad", op[p], Null, ip[p], <<dp[p]>>)
      BY <2>1, InodeAssumption DEF Shaped
    <2>4. \A i \in Inums : Is(Null, i) + Is(ip[p], i) + Occurs(<<dp[p]>>, i) = Locals(p, i)
      BY SMTT(30), <1>2, OccursValue DEF Settled
    <2> QED BY <1>1, <1>3, <2>1, <2>2, <2>3, <2>4, ThenStep
  <1>5. CASE ~Linking(p)
    <2>1. Finish(p, <<dp[p]>>) /\ ip[p] = Null
      BY <1>2, <1>5 DEF walk_fail, Linking
    <2>2. <<dp[p]>> \in Lists
      BY <1>2, OccursValue
    <2>3. \A i \in Inums : Occurs(<<dp[p]>>, i) = Locals(p, i)
      BY SMTT(30), <1>2, <2>1, OccursValue DEF Settled
    <2> QED BY <1>1, <1>3, <2>1, <2>2, <2>3, FinishStep
  <1> QED BY <1>4, <1>5

\* namex() takes its first reference: of the root or of the current directory.
LEMMA Starting ==
  ASSUME RefInv, NEW p \in Procs, NEW o \in Calls, NEW base \in Starts(p), start(p, o, base)
  PROVE  RefInv'
  <1>1. /\ pc[p] = "idle" /\ iget(base) /\ Go(p, "walk", o, "..", base, Null, <<>>)
        /\ cwd' = cwd /\ file' = file /\ disk' = disk /\ durable' = durable
    BY DEF start
  <1>2. base \in Inums /\ Pointers /\ disk' \in DiskShape /\ durable' \in DiskShape
    BY SMTT(30), <1>1, InodeAssumption DEF Starts, RefInv, Pointers
  <1>3. Shaped("idle", op[p], dp[p], ip[p], todo[p])
    BY <1>1 DEF RefInv, Shape
  <1>4. dp[p] = Null /\ ip[p] = Null /\ todo[p] = <<>>
    BY <1>3 DEF Shaped
  <1>5. /\ "walk" \in Places /\ ".." \in PathNames /\ base \in Pointer /\ Null \in Pointer
        /\ <<>> \in Lists /\ Shaped("walk", o, base, Null, <<>>)
    BY <1>2, OccursValue, InodeAssumption DEF Places, PathNames, Pointer, Shaped
  <1>6. ASSUME NEW i \in Inums
        PROVE  Is(base, i) + Is(Null, i) + Occurs(<<>>, i) = Locals(p, i) + Is(base, i)
    <2>1. Is(Null, i) = 0 /\ Occurs(<<>>, i) = 0 /\ Is(base, i) \in Nat
      BY <1>2, OccursValue
    <2> QED BY SMTT(30), <1>4, <2>1 DEF Locals
  <1> QED BY SMTT(30), <1>1, <1>2, <1>5, <1>6, GetStep

\* namex() takes the next inode before it owes the put of the directory.
LEMMA Walking ==
  ASSUME RefInv, NEW p \in Procs, NEW n \in PathNames, NEW next \in Inums, Walk(p, n, next),
         \/ Then(p, "walk", next, ip[p], <<dp[p]>>)
         \/ ~Linking(p) /\ Then(p, "found", Null, next, <<dp[p]>>)
  PROVE  RefInv'
  <1>1. /\ At(p, "walk") /\ iget(next) /\ cwd' = cwd /\ file' = file /\ disk' = disk
        /\ durable' = durable
    BY DEF Walk
  <1>2. /\ Pointers /\ dp[p] \in Inums /\ ip[p] \in Pointer /\ Settled(p)
        /\ ip[p] = Null \/ (op[p] = "link" /\ ip[p] \in Inums)
    BY <1>1, AtFacts
  <1>3. /\ disk' \in DiskShape /\ durable' \in DiskShape
        /\ op[p] \in Calls /\ name[p] \in PathNames
    BY <1>1, <1>2 DEF Pointers
  <1>4. /\ "walk" \in Places /\ "found" \in Places /\ Null \in Pointer /\ next \in Pointer
        /\ <<dp[p]>> \in Lists
    BY <1>2, OccursValue DEF Places, Pointer
  <1>5. CASE Then(p, "walk", next, ip[p], <<dp[p]>>)
    <2>1. Go(p, "walk", op[p], name[p], next, ip[p], <<dp[p]>>)
      BY <1>5 DEF Then
    <2>2. Shaped("walk", op[p], next, ip[p], <<dp[p]>>)
      BY <1>2, InodeAssumption DEF Shaped
    <2>3. ASSUME NEW i \in Inums
          PROVE  Is(next, i) + Is(ip[p], i) + Occurs(<<dp[p]>>, i) = Locals(p, i) + Is(next, i)
      <3>1. Occurs(<<dp[p]>>, i) = Is(dp[p], i) /\ Is(next, i) \in Nat
        BY <1>2, OccursValue
      <3> QED BY SMTT(30), <1>2, <3>1 DEF Settled
    <2> QED BY SMTT(30), <1>1, <1>2, <1>3, <1>4, <2>1, <2>2, <2>3, GetStep
  <1>6. CASE ~Linking(p) /\ Then(p, "found", Null, next, <<dp[p]>>)
    <2>1. Go(p, "found", op[p], name[p], Null, next, <<dp[p]>>) /\ ip[p] = Null
      BY <1>2, <1>6 DEF Then, Linking
    <2>2. Shaped("found", op[p], Null, next, <<dp[p]>>)
      BY InodeAssumption DEF Shaped
    <2>3. ASSUME NEW i \in Inums
          PROVE  Is(Null, i) + Is(next, i) + Occurs(<<dp[p]>>, i) = Locals(p, i) + Is(next, i)
      <3>1. Occurs(<<dp[p]>>, i) = Is(dp[p], i) /\ Is(next, i) \in Nat
        BY <1>2, OccursValue
      <3> QED BY SMTT(30), <1>2, <2>1, <3>1 DEF Settled
    <2> QED BY SMTT(30), <1>1, <1>2, <1>3, <1>4, <2>1, <2>2, <2>3, GetStep
  <1> QED BY <1>5, <1>6

\* A step that ends a call with one inode in its locals, and puts it.
LEMMA PutLocal ==
  ASSUME RefInv, NEW p \in Procs, Settled(p), NEW x \in Inums, Finish(p, <<x>>),
         (dp[p] = x /\ ip[p] = Null) \/ (dp[p] = Null /\ ip[p] = x),
         cwd' = cwd, file' = file, ref' = ref, disk' \in DiskShape, durable' \in DiskShape
  PROVE  RefInv'
  <1>1. <<x>> \in Lists
    BY OccursValue
  <1>2. \A i \in Inums : Occurs(<<x>>, i) = Locals(p, i)
    BY SMTT(30), OccursValue DEF Settled
  <1> QED BY <1>1, <1>2, FinishStep

-----------------------------------------------------------------------------
(* The disk keeps its shape                                                *)

\* A disk with another link count or name.
LEMMA DiskChange ==
  ASSUME NEW D \in DiskShape, NEW i \in Inums
  PROVE  /\ D.nlink[i] \in Int
         /\ \A v \in Int : [D EXCEPT !.nlink[i] = v] \in DiskShape
         /\ \A n \in Names : \A v \in Inums \cup {Null} :
              [D EXCEPT !.dents[i][n] = v] \in DiskShape
  <1>1. D.nlink[i] \in Int
    BY DEF DiskShape
  <1>2. \A v \in Int : [D EXCEPT !.nlink[i] = v] \in DiskShape
    BY DEF DiskShape
  <1>3. ASSUME NEW n \in Names, NEW v \in Inums \cup {Null}
        PROVE  [D EXCEPT !.dents[i][n] = v] \in DiskShape
    BY DEF DiskShape
  <1> QED BY <1>1, <1>2, <1>3

\* iput() and ireclaim() empty the inode they free.
LEMMA DiskFreed ==
  ASSUME NEW D \in DiskShape, NEW i
  PROVE  [D EXCEPT !.type[i] = Null, !.dents[i] = NoEntries, !.dotdot[i] = Null] \in DiskShape
  <1>1. NoEntries \in [Names -> Inums \cup {Null}]
    BY DEF NoEntries
  <1> QED BY <1>1 DEF DiskShape

\* ialloc() sets the type and no link.
LEMMA DiskAllocated ==
  ASSUME NEW D \in DiskShape, NEW i \in Inums, NEW v \in {"FILE", "DIR"}
  PROVE  [D EXCEPT !.type[i] = v, !.nlink[i] = 0] \in DiskShape
  <1>1. 0 \in Int /\ v \in {"FILE", "DIR", Null}
    BY SMTT(30)
  <1> QED BY <1>1 DEF DiskShape

\* create() links the new inode, and its "..", into the directory.
LEMMA DiskCreated ==
  ASSUME NEW D \in DiskShape, NEW N \in [Inums -> Int], NEW i \in Inums, NEW d \in Inums,
         NEW n, NEW x \in Inums \cup {Null}
  PROVE  [D EXCEPT !.nlink = N, !.dotdot[i] = x, !.dents[d][n] = i] \in DiskShape
  BY DEF DiskShape

\* unlink() takes the name, and for a directory the link of "..".
LEMMA DiskUnlinked ==
  ASSUME NEW D \in DiskShape, NEW d \in Inums, NEW n, NEW v \in Int
  PROVE  [D EXCEPT !.dents[d][n] = Null, !.nlink[d] = v] \in DiskShape
  <1>1. Null \in Inums \cup {Null}
    OBVIOUS
  <1> QED BY <1>1 DEF DiskShape

-----------------------------------------------------------------------------

\* sys_link() keeps the inode it found and starts a second walk.
LEMMA LinkFound ==
  ASSUME RefInv, NEW p \in Procs, NEW base \in Starts(p), link_found(p, base)
  PROVE  RefInv'
  <1>1. /\ At(p, "found") /\ op[p] = "link" /\ iget(base)
        /\ Go(p, "walk", op[p], name[p], base, ip[p], <<>>)
        /\ cwd' = cwd /\ file' = file /\ durable' = durable
        /\ disk' = [disk EXCEPT !.nlink[ip[p]] = disk.nlink[ip[p]] + 1]
    BY DEF link_found, Then
  <1>2. Pointers /\ dp[p] = Null /\ ip[p] \in Inums /\ Settled(p)
    BY <1>1, AtFacts
  <1>3. /\ base \in Inums /\ base \in Pointer /\ ip[p] \in Pointer /\ op[p] \in Calls
        /\ name[p] \in PathNames /\ durable' \in DiskShape /\ disk \in DiskShape
    BY SMTT(30), <1>1, <1>2, InodeAssumption DEF Starts, Pointers, Pointer
  <1>4. disk' \in DiskShape
    <2>1. disk.nlink[ip[p]] + 1 \in Int
      BY SMTT(30), <1>2, <1>3, DiskChange
    <2> QED BY <1>1, <1>2, <1>3, <2>1, DiskChange
  <1>5. "walk" \in Places /\ <<>> \in Lists /\ Shaped("walk", op[p], base, ip[p], <<>>)
    BY <1>1, <1>3, OccursValue, InodeAssumption DEF Places, Shaped
  <1>6. ASSUME NEW i \in Inums
        PROVE  Is(base, i) + Is(ip[p], i) + Occurs(<<>>, i) = Locals(p, i) + Is(base, i)
    <2>1. Occurs(<<>>, i) = 0 /\ Is(base, i) \in Nat
      BY <1>3, OccursValue
    <2> QED BY SMTT(30), <1>2, <2>1 DEF Settled
  <1> QED BY SMTT(30), <1>1, <1>3, <1>4, <1>5, <1>6, GetStep

\* At the parent, sys_link() owes the puts of both inodes, or keeps its own
\* to undo nlink.
LEMMA LinkParent ==
  ASSUME RefInv, NEW p \in Procs, NEW n \in PathNames, link_parent(p, n)
  PROVE  RefInv'
  <1>1. /\ At(p, "walk") /\ Linking(p) /\ cwd' = cwd /\ file' = file /\ ref' = ref
        /\ durable' = durable
    BY DEF link_parent, Parent
  <1>2. Pointers /\ dp[p] \in Inums /\ ip[p] \in Inums /\ Settled(p)
    BY <1>1, AtFacts DEF Linking
  <1>3. disk \in DiskShape /\ durable' \in DiskShape
    BY <1>1, <1>2 DEF Pointers
  <1>4. CASE /\ Absent(dp[p], n)
             /\ disk' = [disk EXCEPT !.dents[dp[p]][n] = ip[p]]
             /\ Finish(p, <<dp[p], ip[p]>>)
    <2>1. disk' \in DiskShape
      <3>1. n \in Names /\ ip[p] \in Inums \cup {Null}
        BY <1>2, <1>4 DEF Absent
      <3> QED BY <1>2, <1>3, <1>4, <3>1, DiskChange
    <2>2. <<dp[p], ip[p]>> \in Lists
      BY <1>2, OccursValue
    <2>3. \A i \in Inums : Occurs(<<dp[p], ip[p]>>, i) = Locals(p, i)
      BY <1>2, OccursValue DEF Settled
    <2> QED BY <1>1, <1>3, <1>4, <2>1, <2>2, <2>3, FinishStep
  <1>5. CASE disk' = disk /\ Then(p, "link_bad", Null, ip[p], <<dp[p]>>)
    <2>1. /\ "link_bad" \in Places /\ Null \in Pointer /\ ip[p] \in Pointer
          /\ disk' \in DiskShape /\ <<dp[p]>> \in Lists
      BY <1>2, <1>3, <1>5, OccursValue DEF Places, Pointer
    <2>2. Shaped("link_bad", op[p], Null, ip[p], <<dp[p]>>)
      BY <1>2, InodeAssumption DEF Shaped
    <2>3. ASSUME NEW i \in Inums
          PROVE  Is(Null, i) + Is(ip[p], i) + Occurs(<<dp[p]>>, i) = Locals(p, i)
      <3>1. Occurs(<<dp[p]>>, i) = Is(dp[p], i)
        BY <1>2, OccursValue
      <3> QED BY SMTT(30), <1>2, <3>1 DEF Settled
    <2> QED BY <1>1, <1>3, <1>5, <2>1, <2>2, <2>3, ThenStep
  <1> QED BY <1>4, <1>5 DEF link_parent

\* The steps that end a call and put its one local.
LEMMA Ending ==
  ASSUME RefInv, NEW p \in Procs,
         \/ link_refused(p) \/ link_bad(p) \/ unlink_drop(p) \/ bail(p)
         \/ \E n \in PathNames : create_no_inodes(p, n) \/ unlink_refused(p, n)
  PROVE  RefInv'
  <1>1. CASE link_refused(p)
    <2>1. /\ At(p, "found") /\ Finish(p, <<ip[p]>>) /\ cwd' = cwd /\ file' = file
          /\ ref' = ref /\ disk' = disk /\ durable' = durable
      BY <1>1 DEF link_refused
    <2>2. Pointers /\ dp[p] = Null /\ ip[p] \in Inums /\ Settled(p)
      BY <2>1, AtFacts
    <2>3. disk' \in DiskShape /\ durable' \in DiskShape
      BY <2>1, <2>2 DEF Pointers
    <2> QED BY <2>1, <2>2, <2>3, PutLocal
  <1>2. CASE link_bad(p) \/ unlink_drop(p)
    <2>1. /\ At(p, "link_bad") \/ At(p, "unlink_drop")
          /\ Finish(p, <<ip[p]>>) /\ cwd' = cwd /\ file' = file
          /\ ref' = ref /\ disk' = [disk EXCEPT !.nlink[ip[p]] = disk.nlink[ip[p]] - 1]
          /\ durable' = durable
      BY <1>2 DEF link_bad, unlink_drop
    <2>2. Pointers /\ dp[p] = Null /\ ip[p] \in Inums /\ Settled(p)
      BY <2>1, AtFacts
    <2>3. disk \in DiskShape /\ durable' \in DiskShape
      BY <2>1, <2>2 DEF Pointers
    <2>4. disk.nlink[ip[p]] - 1 \in Int
      BY SMTT(30), <2>2, <2>3, DiskChange
    <2>5. disk' \in DiskShape
      BY <2>1, <2>2, <2>3, <2>4, DiskChange
    <2> QED BY <2>1, <2>2, <2>3, <2>5, PutLocal
  <1>3. CASE bail(p)
    <2>1. /\ At(p, "bail") /\ Finish(p, <<dp[p]>>) /\ cwd' = cwd /\ file' = file
          /\ ref' = ref /\ disk' = disk /\ durable' = durable
      BY <1>3 DEF bail
    <2>2. Pointers /\ dp[p] \in Inums /\ ip[p] = Null /\ Settled(p)
      BY <2>1, AtFacts
    <2>3. disk' \in DiskShape /\ durable' \in DiskShape
      BY <2>1, <2>2 DEF Pointers
    <2> QED BY <2>1, <2>2, <2>3, PutLocal
  <1>4. ASSUME NEW n \in PathNames, create_no_inodes(p, n) \/ unlink_refused(p, n)
        PROVE  RefInv'
    <2>1. /\ At(p, "walk") /\ Finish(p, <<dp[p]>>) /\ cwd' = cwd /\ file' = file
          /\ ref' = ref /\ disk' = disk /\ durable' = durable /\ op[p] # "link"
      BY <1>4 DEF create_no_inodes, unlink_refused, Parent
    <2>2. Pointers /\ dp[p] \in Inums /\ ip[p] = Null /\ Settled(p)
      BY <2>1, AtFacts
    <2>3. disk' \in DiskShape /\ durable' \in DiskShape
      BY <2>1, <2>2 DEF Pointers
    <2> QED BY <2>1, <2>2, <2>3, PutLocal
  <1> QED BY <1>1, <1>2, <1>3, <1>4

\* create() holds the inode that ialloc() gave it besides the parent.
LEMMA CreateAlloc ==
  ASSUME RefInv, NEW p \in Procs, NEW n \in PathNames, NEW j \in Inums, create_alloc(p, n, j)
  PROVE  RefInv'
  <1> DEFINE v == IF op[p] = "mkdir" THEN "DIR" ELSE "FILE"
  <1>1. /\ At(p, "walk") /\ op[p] # "link" /\ iget(j)
        /\ Go(p, "create_init", op[p], n, dp[p], j, <<>>)
        /\ cwd' = cwd /\ file' = file /\ durable' = durable
        /\ disk' = [disk EXCEPT !.type[j] = v, !.nlink[j] = 0]
    BY DEF create_alloc, Parent
  <1>2. Pointers /\ dp[p] \in Inums /\ dp[p] \in Pointer /\ ip[p] = Null /\ Settled(p)
    BY <1>1, AtFacts
  <1>3. disk \in DiskShape /\ durable' \in DiskShape /\ op[p] \in Calls /\ v \in {"FILE", "DIR"}
    BY <1>1, <1>2 DEF Pointers
  <1> HIDE DEF v
  <1>4. disk' \in DiskShape
    BY <1>1, <1>3, DiskAllocated
  <1>5. /\ "create_init" \in Places /\ j \in Pointer /\ <<>> \in Lists
        /\ Shaped("create_init", op[p], dp[p], j, <<>>)
    BY <1>2, OccursValue, InodeAssumption DEF Places, Pointer, Shaped
  <1>6. ASSUME NEW i \in Inums
        PROVE  Is(dp[p], i) + Is(j, i) + Occurs(<<>>, i) = Locals(p, i) + Is(j, i)
    <2>1. Occurs(<<>>, i) = 0 /\ Is(j, i) \in Nat
      BY OccursValue
    <2> QED BY SMTT(30), <1>2, <2>1 DEF Settled
  <1> QED BY SMTT(30), <1>1, <1>2, <1>3, <1>4, <1>5, <1>6, GetStep

\* sys_unlink() holds the inode of the name besides the parent.
LEMMA UnlinkFound ==
  ASSUME RefInv, NEW p \in Procs, NEW n \in PathNames, unlink_found(p, n)
  PROVE  RefInv'
  <1> DEFINE j == dirlookup(dp[p], n)
  <1>1. /\ At(p, "walk") /\ op[p] # "link" /\ n # ".." /\ j # Null /\ iget(j)
        /\ Go(p, "unlink_ip", op[p], n, dp[p], j, <<>>)
        /\ cwd' = cwd /\ file' = file /\ disk' = disk /\ durable' = durable
    BY DEF unlink_found, Parent
  <1>2. Pointers /\ dp[p] \in Inums /\ dp[p] \in Pointer /\ ip[p] = Null /\ Settled(p)
    BY <1>1, AtFacts
  <1>3. disk \in DiskShape /\ disk' \in DiskShape /\ durable' \in DiskShape /\ op[p] \in Calls
    BY <1>1, <1>2 DEF Pointers
  <1>4. j \in Inums
    <2>1. n \in Names
      BY <1>1 DEF PathNames
    <2>2. disk.dents \in [Inums -> [Names -> Inums \cup {Null}]]
      BY <1>3 DEF DiskShape
    <2> QED BY SMTT(30), <1>1, <1>2, <2>1, <2>2 DEF dirlookup
  <1> HIDE DEF j
  <1>5. /\ "unlink_ip" \in Places /\ j \in Pointer /\ <<>> \in Lists
        /\ Shaped("unlink_ip", op[p], dp[p], j, <<>>)
    BY <1>2, <1>4, OccursValue, InodeAssumption DEF Places, Pointer, Shaped
  <1>6. ASSUME NEW i \in Inums
        PROVE  Is(dp[p], i) + Is(j, i) + Occurs(<<>>, i) = Locals(p, i) + Is(j, i)
    <2>1. Occurs(<<>>, i) = 0 /\ Is(j, i) \in Nat
      BY <1>4, OccursValue
    <2> QED BY SMTT(30), <1>2, <2>1 DEF Settled
  <1> QED BY SMTT(30), <1>1, <1>2, <1>3, <1>4, <1>5, <1>6, GetStep

\* create() and unlink() with both inodes: one goes to the puts, one stays.
LEMMA BothHeld ==
  ASSUME RefInv, NEW p \in Procs,
         create_init(p) \/ create_fail(p) \/ unlink_ip(p) \/ unlink_nonempty(p)
  PROVE  RefInv'
  <1> DEFINE d == dp[p]
             j == ip[p]
  <1>1. /\ At(p, "create_init") \/ At(p, "unlink_ip")
        /\ cwd' = cwd /\ file' = file /\ ref' = ref /\ durable' = durable
    BY DEF create_init, create_fail, unlink_ip, unlink_nonempty
  <1>2. Pointers /\ d \in Inums /\ j \in Inums /\ Settled(p)
    BY <1>1, AtFacts
  <1>3. disk \in DiskShape /\ durable' \in DiskShape
    BY <1>1, <1>2 DEF Pointers
  <1>4. /\ d \in Pointer /\ j \in Pointer /\ Null \in Pointer
        /\ <<d>> \in Lists /\ <<j>> \in Lists
        /\ "created" \in Places /\ "unlink_drop" \in Places /\ "bail" \in Places
    BY <1>2, OccursValue DEF Pointer, Places
  <1>5. ASSUME NEW l \in {"created", "unlink_drop"}, Then(p, l, Null, j, <<d>>), disk' \in DiskShape
        PROVE  RefInv'
    <2>1. ASSUME NEW i \in Inums
          PROVE  Is(Null, i) + Is(j, i) + Occurs(<<d>>, i) = Locals(p, i)
      <3>1. Occurs(<<d>>, i) = Is(d, i)
        BY <1>2, OccursValue
      <3> QED BY SMTT(30), <1>2, <3>1 DEF Settled
    <2>2. Shaped(l, op[p], Null, j, <<d>>)
      BY <1>2, InodeAssumption DEF Shaped
    <2> HIDE DEF d, j
    <2> QED BY SMTT(30), <1>1, <1>3, <1>4, <1>5, <2>1, <2>2, ThenStep
  <1>6. ASSUME Then(p, "bail", d, Null, <<j>>), disk' \in DiskShape
        PROVE  RefInv'
    <2>1. ASSUME NEW i \in Inums
          PROVE  Is(d, i) + Is(Null, i) + Occurs(<<j>>, i) = Locals(p, i)
      <3>1. Occurs(<<j>>, i) = Is(j, i)
        BY <1>2, OccursValue
      <3> QED BY SMTT(30), <1>2, <3>1 DEF Settled
    <2>2. Shaped("bail", op[p], d, Null, <<j>>)
      BY <1>2, InodeAssumption DEF Shaped
    <2> HIDE DEF d, j
    <2> QED BY <1>1, <1>3, <1>4, <1>6, <2>1, <2>2, ThenStep
  <1>7. CASE create_init(p)
    <2> DEFINE dir == disk.type[j] = "DIR"
               N == [disk.nlink EXCEPT ![j] = 1, ![d] = IF dir THEN @ + 1 ELSE @]
               x == IF dir THEN d ELSE Null
    <2>1. /\ Then(p, "created", Null, j, <<d>>)
          /\ disk' = [disk EXCEPT !.nlink = N, !.dotdot[j] = x, !.dents[d][name[p]] = j]
      BY <1>7 DEF create_init
    <2>2. disk.nlink \in [Inums -> Int] /\ x \in Inums \cup {Null}
      BY <1>2, <1>3 DEF DiskShape
    <2>3. N \in [Inums -> Int]
      BY SMTT(30), <1>2, <2>2
    <2> HIDE DEF N, x
    <2>4. disk' \in DiskShape
      BY <1>2, <1>3, <2>1, <2>2, <2>3, DiskCreated
    <2> QED BY <1>5, <2>1, <2>4
  <1>8. CASE create_fail(p)
    <2>1. Then(p, "bail", d, Null, <<j>>) /\ disk' = [disk EXCEPT !.nlink[j] = 0]
      BY <1>8 DEF create_fail
    <2>2. 0 \in Int
      BY SMTT(30)
    <2>3. disk' \in DiskShape
      BY <1>2, <1>3, <2>1, <2>2, DiskChange
    <2> QED BY <1>6, <2>1, <2>3
  <1>9. CASE unlink_ip(p)
    <2> DEFINE v == IF disk.type[j] = "DIR" THEN disk.nlink[d] - 1 ELSE disk.nlink[d]
    <2>1. /\ Then(p, "unlink_drop", Null, j, <<d>>)
          /\ disk' = [disk EXCEPT !.dents[d][name[p]] = Null, !.nlink[d] = v]
      BY <1>9 DEF unlink_ip
    <2>2. disk.nlink[d] \in Int
      BY <1>2, <1>3, DiskChange
    <2>3. v \in Int
      BY SMTT(30), <2>2
    <2> HIDE DEF v
    <2>4. disk' \in DiskShape
      BY <1>2, <1>3, <2>1, <2>3, DiskUnlinked
    <2> QED BY <1>5, <2>1, <2>4
  <1>10. CASE unlink_nonempty(p)
    <2>1. Then(p, "bail", d, Null, <<j>>) /\ disk' = disk
      BY <1>10 DEF unlink_nonempty
    <2> QED BY <1>3, <1>6, <2>1
  <1> QED BY <1>7, <1>8, <1>9, <1>10

\* What p keeps and the puts of s are what p held.
Handed(p, s) ==
  \A i \in Inums : Is(cwd'[p], i) + Is(file'[p], i) + Occurs(s, i) = Holds(p, i)

\* The call ends but for the puts of s: what it had it put, or handed to the
\* process.
LEMMA HandOver ==
  ASSUME RefInv, NEW p \in Procs, NEW s \in Lists, Finish(p, s),
         ref' = ref, disk' \in DiskShape, durable' \in DiskShape,
         cwd' \in [Procs -> Inums], file' \in [Procs -> Pointer],
         OnlyFor(p, cwd, cwd'), OnlyFor(p, file, file'), Handed(p, s)
  PROVE  RefInv'
  <1>1. /\ "end" \in Places /\ "close" \in Calls /\ ".." \in PathNames /\ Null \in Pointer
        /\ Pointers
    BY DEF Places, Calls, PathNames, Pointer, RefInv
  <1>2. Go(p, "end", "close", "..", Null, Null, s)
    BY DEF Finish
  <1>3. /\ pc' \in [Procs -> Places] /\ op' \in [Procs -> Calls]
        /\ name' \in [Procs -> PathNames] /\ dp' \in [Procs -> Pointer]
        /\ ip' \in [Procs -> Pointer] /\ todo' \in [Procs -> Lists]
        /\ pc'[p] = "end" /\ dp'[p] = Null /\ ip'[p] = Null /\ todo'[p] = s
        /\ Alone(p)
    BY SMTT(30), <1>1, <1>2, GoFacts
  <1>4. Pointers'
    BY <1>1, <1>3 DEF Pointers, Pointer
  <1>5. Fits(p)'
    BY <1>3 DEF Fits, Shaped
  <1>6. ASSUME NEW i \in Inums PROVE Follows(p, i)
    <2>1. Is(Null, i) = 0 /\ Occurs(s, i) \in Nat /\ Is(cwd'[p], i) \in Nat /\ Is(file'[p], i) \in Nat
      BY SMTT(30), OccursValue DEF Occurs, Is
    <2>2. Holds(p, i)' = Holds(p, i)
      BY SMTT(30), <1>3, <2>1 DEF Locals, Holds, Handed
    <2>3. ref[i] \in Int /\ Holds(p, i) \in Nat
      BY SMTT(30), <1>1, HoldsType DEF Holds, Pointers
    <2> QED BY SMTT(30), <2>2, <2>3 DEF Follows
  <1> QED BY <1>3, <1>4, <1>5, <1>6, Balanced

\* open() and mkdir() with an inode, in either way of getting it.
LEMMA Opening ==
  ASSUME RefInv, NEW p \in Procs, open_found(p) \/ created(p)
  PROVE  RefInv'
  <1> DEFINE j == ip[p]
  <1>1. /\ At(p, "found") \/ At(p, "created")
        /\ cwd' = cwd /\ ref' = ref /\ disk' = disk /\ durable' = durable
        /\ \/ file[p] = Null /\ file' = [file EXCEPT ![p] = j] /\ Finish(p, <<>>)
           \/ file' = file /\ Finish(p, <<j>>)
    BY DEF open_found, created, OpenOrPut
  <1>2. Pointers /\ dp[p] = Null /\ j \in Inums /\ Settled(p)
    BY <1>1, AtFacts
  <1>3. disk' \in DiskShape /\ durable' \in DiskShape /\ file \in [Procs -> Pointer] /\ cwd \in [Procs -> Inums]
    BY <1>1, <1>2 DEF Pointers, Pointer
  <1>4. <<>> \in Lists /\ <<j>> \in Lists
    BY <1>2, OccursValue
  <1>5. CASE file[p] = Null /\ file' = [file EXCEPT ![p] = j] /\ Finish(p, <<>>)
    <2>1. /\ file' \in [Procs -> Pointer] /\ file'[p] = j /\ OnlyFor(p, file, file')
          /\ OnlyFor(p, cwd, cwd')
      BY <1>1, <1>2, <1>3, <1>5 DEF OnlyFor, Pointer
    <2>2. ASSUME NEW i \in Inums
          PROVE  Is(cwd'[p], i) + Is(file'[p], i) + Occurs(<<>>, i) = Holds(p, i)
      <3>1. Occurs(<<>>, i) = 0 /\ Is(file[p], i) = 0
        BY <1>5, OccursValue
      <3>2. Is(cwd[p], i) \in Nat /\ Is(j, i) \in Nat
        BY DEF Is
      <3> QED BY SMTT(30), <1>1, <1>2, <2>1, <3>1, <3>2 DEF Settled, Holds
    <2>3. Handed(p, <<>>)
      BY <2>2 DEF Handed
    <2>4. cwd' \in [Procs -> Inums] /\ ref' = ref /\ Finish(p, <<>>)
      BY <1>1, <1>3, <1>5
    <2> QED BY <1>3, <1>4, <2>1, <2>3, <2>4, HandOver
  <1>6. CASE file' = file /\ Finish(p, <<j>>)
    <2>1. ASSUME NEW i \in Inums
          PROVE  Occurs(<<j>>, i) = Locals(p, i)
      <3>1. Occurs(<<j>>, i) = Is(j, i)
        BY <1>2, OccursValue
      <3> QED BY SMTT(30), <1>2, <3>1 DEF Settled
    <2> QED BY <1>1, <1>3, <1>4, <1>6, <2>1, FinishStep
  <1> QED BY <1>1, <1>5, <1>6

\* chdir() hands the reference it walked to over to cwd and owes the one cwd
\* had.
LEMMA ChangingDirectory ==
  ASSUME RefInv, NEW p \in Procs, chdir_found(p)
  PROVE  RefInv'
  <1> DEFINE j == ip[p]
             c == cwd[p]
  <1>1. /\ At(p, "found")
        /\ file' = file /\ ref' = ref /\ disk' = disk /\ durable' = durable
        /\ \/ cwd' = [cwd EXCEPT ![p] = j] /\ Finish(p, <<c>>)
           \/ cwd' = cwd /\ Finish(p, <<j>>)
    BY DEF chdir_found
  <1>2. Pointers /\ dp[p] = Null /\ j \in Inums /\ Settled(p)
    BY <1>1, AtFacts
  <1>3. /\ disk' \in DiskShape /\ durable' \in DiskShape
        /\ file \in [Procs -> Pointer] /\ cwd \in [Procs -> Inums] /\ c \in Inums
    BY <1>1, <1>2 DEF Pointers, Pointer
  <1>4. <<c>> \in Lists /\ <<j>> \in Lists
    BY <1>2, <1>3, OccursValue
  <1>5. CASE cwd' = [cwd EXCEPT ![p] = j] /\ Finish(p, <<c>>)
    <2>1. /\ cwd' \in [Procs -> Inums] /\ cwd'[p] = j /\ OnlyFor(p, cwd, cwd')
          /\ OnlyFor(p, file, file')
      BY <1>1, <1>2, <1>3, <1>5 DEF OnlyFor
    <2>2. ASSUME NEW i \in Inums
          PROVE  Is(cwd'[p], i) + Is(file'[p], i) + Occurs(<<c>>, i) = Holds(p, i)
      <3>1. Occurs(<<c>>, i) = Is(c, i)
        BY <1>3, OccursValue
      <3>2. Is(c, i) \in Nat /\ Is(j, i) \in Nat /\ Is(file[p], i) \in Nat
        BY DEF Is
      <3> QED BY SMTT(30), <1>1, <1>2, <2>1, <3>1, <3>2 DEF Settled, Holds
    <2>3. Handed(p, <<c>>)
      BY <2>2 DEF Handed
    <2>4. file' \in [Procs -> Pointer] /\ ref' = ref /\ Finish(p, <<c>>)
      BY <1>1, <1>3, <1>5
    <2> QED BY <1>3, <1>4, <2>1, <2>3, <2>4, HandOver
  <1>6. CASE cwd' = cwd /\ Finish(p, <<j>>)
    <2>1. ASSUME NEW i \in Inums
          PROVE  Occurs(<<j>>, i) = Locals(p, i)
      <3>1. Occurs(<<j>>, i) = Is(j, i)
        BY <1>2, OccursValue
      <3> QED BY SMTT(30), <1>2, <3>1 DEF Settled
    <2> QED BY <1>1, <1>3, <1>4, <1>6, <2>1, FinishStep
  <1> QED BY <1>1, <1>5, <1>6

\* A file's reference becomes a put that close() owes.
LEMMA Closing ==
  ASSUME RefInv, NEW p \in Procs, sys_close(p)
  PROVE  RefInv'
  <1> DEFINE f == file[p]
  <1>1. /\ pc[p] = "idle" /\ f # Null /\ file' = [file EXCEPT ![p] = Null] /\ Finish(p, <<f>>)
        /\ cwd' = cwd /\ ref' = ref /\ disk' = disk /\ durable' = durable
    BY DEF sys_close, table
  <1>2. Pointers /\ Shaped("idle", op[p], dp[p], ip[p], todo[p])
    BY <1>1 DEF RefInv, Shape
  <1>3. At(p, "idle") /\ dp[p] = Null /\ ip[p] = Null
    BY <1>1, <1>2 DEF At, Shaped
  <1>4. Settled(p)
    BY <1>3, AtFacts
  <1>5. /\ disk' \in DiskShape /\ durable' \in DiskShape
        /\ file \in [Procs -> Pointer] /\ cwd \in [Procs -> Inums] /\ f \in Inums
    BY <1>1, <1>2 DEF Pointers, Pointer
  <1>6. <<f>> \in Lists
    BY <1>5, OccursValue
  <1>7. /\ file' \in [Procs -> Pointer] /\ file'[p] = Null /\ OnlyFor(p, file, file')
        /\ OnlyFor(p, cwd, cwd')
    BY <1>1, <1>5 DEF OnlyFor, Pointer
  <1>8. ASSUME NEW i \in Inums
        PROVE  Is(cwd'[p], i) + Is(file'[p], i) + Occurs(<<f>>, i) = Holds(p, i)
    <2>1. Occurs(<<f>>, i) = Is(f, i)
      BY <1>5, OccursValue
    <2>2. Is(cwd[p], i) \in Nat /\ Is(f, i) \in Nat
      BY DEF Is
    <2> QED BY SMTT(30), <1>1, <1>3, <1>4, <1>7, <2>1, <2>2 DEF Settled, Holds
  <1>9. Handed(p, <<f>>)
    BY <1>8 DEF Handed
  <1>10. cwd' \in [Procs -> Inums] /\ ref' = ref /\ Finish(p, <<f>>)
    BY <1>1, <1>5
  <1> QED BY <1>5, <1>6, <1>7, <1>9, <1>10, HandOver

\* iput() drops the reference of the first put that p owes.
LEMMA Dropping ==
  ASSUME RefInv, NEW p \in Procs, iput_drop(p)
  PROVE  RefInv'
  <1> DEFINE s == todo[p]
             h == Head(s)
  <1>1. /\ s # <<>> /\ ref' = [ref EXCEPT ![h] = @ - 1] /\ todo' = [todo EXCEPT ![p] = Tail(s)]
        /\ disk' = disk /\ durable' = durable /\ cwd' = cwd /\ file' = file
        /\ pc' = pc /\ op' = op /\ name' = name /\ dp' = dp /\ ip' = ip
    BY DEF iput_drop
  <1>2. Pointers /\ s \in Lists /\ Fits(p)
    BY DEF RefInv, Pointers, Shape, Fits
  <1>3. Tail(s) \in Lists /\ h \in Inums
    BY <1>1, <1>2, OccursValue, InodeAssumption
  <1>4. Pointers'
    <2>1. ref' \in [Inums -> Int] /\ todo' \in [Procs -> Lists]
      BY SMTT(30), <1>1, <1>2, <1>3 DEF Pointers
    <2> QED BY <1>1, <1>2, <2>1 DEF Pointers
  <1>5. todo'[p] = Tail(s) /\ Alone(p) /\ OnlyFor(p, cwd, cwd') /\ OnlyFor(p, file, file')
    BY <1>1, <1>2 DEF Pointers, Alone, OnlyFor
  <1>6. Fits(p)'
    BY <1>1, <1>2, <1>5 DEF Fits, Shaped
  <1>7. ASSUME NEW i \in Inums PROVE Follows(p, i)
    <2>1. Occurs(Tail(s), i) = Occurs(s, i) - Is(h, i)
      BY <1>1, <1>2, OccursValue
    <2>2. ref[i] \in Int /\ ref'[i] = ref[i] - Is(h, i) /\ Is(h, i) \in Nat
      BY SMTT(30), <1>1, <1>2, <1>3 DEF Pointers, Is
    <2>3. /\ Is(cwd[p], i) \in Nat /\ Is(file[p], i) \in Nat /\ Is(dp[p], i) \in Nat
          /\ Is(ip[p], i) \in Nat /\ Occurs(s, i) \in Nat
      BY SMTT(30) DEF Is, Occurs
    <2>4. /\ Holds(p, i) = Is(cwd[p], i) + Is(file[p], i) + (Is(dp[p], i) + Is(ip[p], i) + Occurs(s, i))
          /\ Holds(p, i)' = Is(cwd[p], i) + Is(file[p], i) + (Is(dp[p], i) + Is(ip[p], i) + Occurs(Tail(s), i))
      BY <1>1, <1>5 DEF Holds, Locals
    <2> HIDE DEF s, h
    <2> QED BY SMTT(30), <2>1, <2>2, <2>3, <2>4 DEF Follows
  <1> QED BY <1>4, <1>5, <1>6, <1>7, Balanced

\* The transaction ends with no local left, whether it commits or leaves that
\* to another.
LEMMA EndOp ==
  ASSUME RefInv, NEW p \in Procs, end_op(p)
  PROVE  RefInv'
  <1>1. /\ At(p, "end") /\ Then(p, "idle", Null, Null, <<>>)
        /\ cwd' = cwd /\ file' = file /\ ref' = ref /\ disk' = disk
        /\ durable' = durable \/ durable' = disk
    BY DEF end_op, table
  <1>2. Pointers /\ dp[p] = Null /\ ip[p] = Null /\ Settled(p)
    BY <1>1, AtFacts
  <1>3. disk' \in DiskShape /\ durable' \in DiskShape
    BY <1>1, <1>2 DEF Pointers
  <1>4. "idle" \in Places /\ Null \in Pointer /\ <<>> \in Lists /\ Shaped("idle", op[p], Null, Null, <<>>)
    BY OccursValue DEF Places, Pointer, Shaped
  <1>5. ASSUME NEW i \in Inums
        PROVE  Is(Null, i) + Is(Null, i) + Occurs(<<>>, i) = Locals(p, i)
    <2>1. Occurs(<<>>, i) = 0
      BY OccursValue
    <2> QED BY SMTT(30), <1>2, <2>1 DEF Settled
  <1> QED BY <1>1, <1>3, <1>4, <1>5, ThenStep

\* Steps that move no pointer: of iput() before the reference goes, of fsinit().
LEMMA NothingMoves ==
  ASSUME RefInv, UNCHANGED <<ref, cwd, file, call>>, disk' \in DiskShape, durable' \in DiskShape
  PROVE  RefInv'
  <1>1. Pointers'
    BY DEF RefInv, Pointers, call
  <1>2. Shape'
    BY DEF RefInv, Shape, call
  <1>3. RefExact'
    BY DEF RefInv, RefExact, InTodo, Count, call
  <1> QED BY <1>1, <1>2, <1>3 DEF RefInv

\* iput() changes the disk before it gives up the reference, and nothing else.
LEMMA PutSteps ==
  ASSUME RefInv, NEW p \in Procs, iput_lock(p) \/ iput_free(p) \/ iput_unlock(p)
  PROVE  RefInv'
  <1>1. UNCHANGED <<ref, cwd, file, call>> /\ durable' = durable
    BY DEF iput_lock, iput_free, iput_unlock, table
  <1>2. Pointers /\ disk \in DiskShape /\ durable \in DiskShape /\ todo[p] \in Lists
    BY DEF RefInv, Pointers
  <1>3. CASE iput_lock(p) \/ iput_unlock(p)
    <2>1. disk' = disk
      BY <1>3 DEF iput_lock, iput_unlock
    <2> QED BY <1>1, <1>2, <2>1, NothingMoves
  <1>4. CASE iput_free(p)
    <2> DEFINE i == Head(todo[p])
    <2>1. disk' = [disk EXCEPT !.type[i] = Null, !.dents[i] = NoEntries, !.dotdot[i] = Null]
      BY <1>4 DEF iput_free
    <2>2. disk' \in DiskShape
      BY <1>2, <2>1, DiskFreed
    <2> QED BY <1>1, <1>2, <2>2, NothingMoves
  <1> QED BY <1>3, <1>4

\* ireclaim() and the end of the boot leave every pointer alone.
LEMMA Boot ==
  ASSUME RefInv, (\E i \in Inums : ireclaim(i)) \/ booted
  PROVE  RefInv'
  <1>1. Pointers /\ disk \in DiskShape /\ durable \in DiskShape
    BY DEF RefInv, Pointers
  <1>2. CASE booted
    <2>1. UNCHANGED <<ref, cwd, file, call>> /\ disk' = disk /\ durable' = durable
      BY <1>2 DEF booted, table
    <2> QED BY <1>1, <2>1, NothingMoves
  <1>3. ASSUME NEW i \in Inums, ireclaim(i) PROVE RefInv'
    <2>1. /\ UNCHANGED <<ref, cwd, file, call>> /\ durable' = disk'
          /\ disk' = [disk EXCEPT !.type[i] = Null, !.dents[i] = NoEntries, !.dotdot[i] = Null]
      BY <1>3 DEF ireclaim, table
    <2>2. disk' \in DiskShape
      BY <1>1, <2>1, DiskFreed
    <2>3. durable' \in DiskShape
      BY <2>1, <2>2
    <2> QED BY <2>1, <2>2, <2>3, NothingMoves
  <1> QED BY <1>2, <1>3

-----------------------------------------------------------------------------
(* The memory of a machine that boots                                      *)

\* Nothing but the current directories, which are all the root.
Fresh ==
  /\ ref = Memory.ref /\ cwd = Memory.cwd /\ file = Memory.none
  /\ pc = Memory.pc /\ op = Memory.op /\ name = Memory.name
  /\ dp = Memory.none /\ ip = Memory.none /\ todo = Memory.todo

\* A variable that is the same for every process counts for all of them or
\* for none.
LEMMA CountConstant ==
  ASSUME NEW v, NEW i
  PROVE  Count([p \in Procs |-> v], i) = IF v = i THEN Cardinality(Procs) ELSE 0
  <1>1. CASE v = i
    <2>1. {p \in Procs : [q \in Procs |-> v][p] = i} = Procs
      BY <1>1
    <2> QED BY <1>1, <2>1 DEF Count
  <1>2. CASE v # i
    <2>1. {p \in Procs : [q \in Procs |-> v][p] = i} = {}
      BY <1>2
    <2>2. Cardinality({}) = 0
      BY FS_EmptySet
    <2> QED BY <1>2, <2>1, <2>2 DEF Count
  <1> QED BY <1>1, <1>2

\* In memory as it is after a boot the only references are the current
\* directories.
LEMMA FreshCounts ==
  ASSUME Fresh, disk \in DiskShape, durable \in DiskShape
  PROVE  RefInv
  <1>1. /\ ref = [i \in Inums |-> IF i = ROOTINO THEN Cardinality(Procs) ELSE 0]
        /\ cwd = [p \in Procs |-> ROOTINO]
        /\ file = [p \in Procs |-> Null] /\ dp = [p \in Procs |-> Null] /\ ip = [p \in Procs |-> Null]
        /\ pc = [p \in Procs |-> "idle"] /\ op = [p \in Procs |-> "close"]
        /\ name = [p \in Procs |-> ".."] /\ todo = [p \in Procs |-> <<>>]
    BY DEF Fresh, Memory
  <1>2. Cardinality(Procs) \in Nat
    BY InodeAssumption, FS_CardinalityType
  <1>3. <<>> \in Lists
    BY OccursValue
  <1>4. Pointers
    BY SMTT(30), <1>1, <1>2, <1>3, InodeAssumption DEF Pointers, Places, Calls, PathNames
  <1>5. Shape
    BY <1>1 DEF Shape, Shaped
  <1>6. ASSUME NEW i \in Inums
        PROVE  ref[i] = Count(cwd, i) + Count(file, i) + Count(dp, i) + Count(ip, i) + InTodo(i)
    <2>1. Count(cwd, i) = IF ROOTINO = i THEN Cardinality(Procs) ELSE 0
      BY <1>1, CountConstant
    <2>2. Null # i
      BY InodeAssumption
    <2>3. Count([p \in Procs |-> Null], i) = 0
      BY <2>2, CountConstant
    <2>4. Count(file, i) = 0 /\ Count(dp, i) = 0 /\ Count(ip, i) = 0
      BY <1>1, <2>3
    <2>5. InTodo(i) = 0
      <3>1. {x \in Procs \X {1, 2} : x[2] <= Len(todo[x[1]]) /\ todo[x[1]][x[2]] = i} = {}
        BY SMTT(30), <1>1
      <3>2. Cardinality({}) = 0
        BY FS_EmptySet
      <3> QED BY <3>1, <3>2 DEF InTodo
    <2>6. ref[i] = IF i = ROOTINO THEN Cardinality(Procs) ELSE 0
      BY <1>1
    <2> QED BY SMTT(30), <1>2, <2>1, <2>4, <2>5, <2>6
  <1> QED BY <1>4, <1>5, <1>6 DEF RefInv, RefExact

\* The same of the state after a step.
LEMMA FreshAfterCrash ==
  ASSUME Fresh', disk' \in DiskShape, durable' \in DiskShape
  PROVE  RefInv'
  <1>1. (Fresh /\ disk \in DiskShape /\ durable \in DiskShape => RefInv)'
    BY FreshCounts, PTL
  <1> QED BY <1>1

\* A crash loses every reference and every pointer together.
LEMMA Crashing ==
  ASSUME RefInv, crash
  PROVE  RefInv'
  <1>1. Fresh'
    BY DEF crash, Fresh, Memory
  <1>2. disk' \in DiskShape /\ durable' \in DiskShape
    BY DEF crash, RefInv, Pointers
  <1> QED BY <1>1, <1>2, FreshAfterCrash

\* An image that mkfs makes.
LEMMA MkfsShape ==
  ASSUME NEW f \in [Names -> (Inums \ {ROOTINO}) \cup {Null}]
  PROVE  mkfs(f) \in DiskShape
  <1> DEFINE T == [i \in Inums |-> IF i = ROOTINO THEN "DIR"
                                   ELSE IF i \in {f[n] : n \in Names} \ {Null} THEN "FILE" ELSE Null]
             L == [i \in Inums |-> IF i \in ({f[n] : n \in Names} \ {Null}) \cup {ROOTINO} THEN 1 ELSE 0]
             E == [i \in Inums |-> IF i = ROOTINO THEN f ELSE NoEntries]
             P == [i \in Inums |-> IF i = ROOTINO THEN ROOTINO ELSE Null]
  <1>2. mkfs(f) = [type |-> T, nlink |-> L, dents |-> E, dotdot |-> P]
    BY DEF mkfs
  <1>3. T \in [Inums -> {"FILE", "DIR", Null}]
    OBVIOUS
  <1>4. L \in [Inums -> Int]
    BY SMTT(30)
  <1>5. E \in [Inums -> [Names -> Inums \cup {Null}]]
    <2>1. f \in [Names -> Inums \cup {Null}] /\ NoEntries \in [Names -> Inums \cup {Null}]
      BY DEF NoEntries
    <2> QED BY <2>1
  <1>6. P \in [Inums -> Inums \cup {Null}]
    BY InodeAssumption
  <1> HIDE DEF T, L, E, P
  <1>7. [type |-> T, nlink |-> L, dents |-> E, dotdot |-> P] \in DiskShape
    BY <1>3, <1>4, <1>5, <1>6 DEF DiskShape
  <1> QED BY <1>2, <1>7

\* One with a directory in a directory.
LEMMA NestedShape ==
  ASSUME NEW a \in Inums, NEW b \in Inums, NEW m \in Names, NEW n \in Names
  PROVE  nested(a, m, b, n) \in DiskShape
  <1> DEFINE T == [i \in Inums |-> IF i \in {ROOTINO, a, b} THEN "DIR" ELSE Null]
             L == [i \in Inums |-> IF i \in {ROOTINO, a} THEN 2 ELSE IF i = b THEN 1 ELSE 0]
             E == [i \in Inums |-> IF i = ROOTINO THEN [NoEntries EXCEPT ![m] = a]
                                   ELSE IF i = a THEN [NoEntries EXCEPT ![n] = b] ELSE NoEntries]
             P == [i \in Inums |-> IF i \in {ROOTINO, a} THEN ROOTINO
                                   ELSE IF i = b THEN a ELSE Null]
  <1>2. nested(a, m, b, n) = [type |-> T, nlink |-> L, dents |-> E, dotdot |-> P]
    BY DEF nested
  <1>3. T \in [Inums -> {"FILE", "DIR", Null}]
    OBVIOUS
  <1>4. L \in [Inums -> Int]
    BY SMTT(30)
  <1>5. E \in [Inums -> [Names -> Inums \cup {Null}]]
    <2>1. NoEntries \in [Names -> Inums \cup {Null}]
      BY DEF NoEntries
    <2>2. /\ [NoEntries EXCEPT ![m] = a] \in [Names -> Inums \cup {Null}]
          /\ [NoEntries EXCEPT ![n] = b] \in [Names -> Inums \cup {Null}]
      BY SMTT(30), <2>1
    <2> QED BY <2>1, <2>2
  <1>6. P \in [Inums -> Inums \cup {Null}]
    BY InodeAssumption
  <1> HIDE DEF T, L, E, P
  <1>7. [type |-> T, nlink |-> L, dents |-> E, dotdot |-> P] \in DiskShape
    BY <1>3, <1>4, <1>5, <1>6 DEF DiskShape
  <1> QED BY <1>2, <1>7

\* Every image the machine may boot from.
LEMMA ImageShape ==
  ASSUME NEW D \in Images
  PROVE  D \in DiskShape
  <1>1. CASE \E f \in Flat : D = mkfs(f)
    BY <1>1, MkfsShape DEF Flat
  <1>2. CASE \E x \in Chains : D = nested(x[1], x[2], x[3], x[4])
    <2>1. \A x \in Chains : x[1] \in Inums /\ x[2] \in Names /\ x[3] \in Inums /\ x[4] \in Names
      BY SMTT(30) DEF Chains
    <2> QED BY <1>2, <2>1, NestedShape
  <1> QED BY <1>1, <1>2 DEF Images

\* The inductive invariant holds at the start.
LEMMA RefInvInit ==
  Init => RefInv
  <1> SUFFICES ASSUME Init PROVE RefInv
    OBVIOUS
  <1>1. Fresh
    BY DEF Init, Fresh
  <1>2. disk \in DiskShape /\ durable \in DiskShape
    BY ImageShape DEF Init
  <1> QED BY <1>1, <1>2, FreshCounts

\* Every step keeps it.
LEMMA RefInvStep ==
  RefInv /\ [Next]_vars => RefInv'
  <1> SUFFICES ASSUME RefInv, [Next]_vars PROVE RefInv'
    OBVIOUS
  <1>1. ASSUME NEW p \in Procs, NEW base \in Starts(p),
               \/ \E o \in {"open", "creat", "mkdir", "link", "unlink", "chdir"} : start(p, o, base)
               \/ link_found(p, base)
        PROVE  RefInv'
    <2>1. {"open", "creat", "mkdir", "link", "unlink", "chdir"} \subseteq Calls
      BY DEF Calls
    <2> QED BY <1>1, <2>1, Starting, LinkFound
  <1>2. ASSUME NEW p \in Procs, NEW n \in PathNames, NEW i \in Inums,
               walk_next(p, n, i) \/ walk_last(p, n, i) \/ create_alloc(p, n, i)
        PROVE  RefInv'
    <2>1. CASE walk_next(p, n, i)
      BY <2>1, Walking DEF walk_next
    <2>2. CASE walk_last(p, n, i)
      BY <2>2, Walking DEF walk_last
    <2> QED BY <1>2, <2>1, <2>2, CreateAlloc
  <1>3. ASSUME NEW p \in Procs, NEW n \in PathNames,
               \/ create_no_inodes(p, n) \/ link_parent(p, n)
               \/ unlink_found(p, n) \/ unlink_refused(p, n)
        PROVE  RefInv'
    BY <1>3, Ending, LinkParent, UnlinkFound
  <1>4. ASSUME NEW p \in Procs,
               \/ sys_close(p) \/ walk_fail(p) \/ open_found(p) \/ chdir_found(p)
               \/ link_refused(p) \/ link_bad(p)
               \/ create_init(p) \/ create_fail(p) \/ created(p)
               \/ unlink_ip(p) \/ unlink_nonempty(p) \/ unlink_drop(p) \/ bail(p)
               \/ iput_lock(p) \/ iput_free(p) \/ iput_unlock(p) \/ iput_drop(p)
               \/ end_op(p)
        PROVE  RefInv'
    BY <1>4, Closing, WalkFail, Opening, ChangingDirectory, Ending, BothHeld, PutSteps, Dropping, EndOp
  <1>5. ASSUME crash \/ (\E i \in Inums : ireclaim(i)) \/ booted
        PROVE  RefInv'
    BY <1>5, Crashing, Boot
  <1>6. CASE UNCHANGED vars
    <2>1. UNCHANGED <<ref, cwd, file, call>> /\ disk' = disk /\ durable' = durable
      BY <1>6 DEF vars, table
    <2> QED BY <2>1, NothingMoves DEF RefInv, Pointers
  <1> QED BY <1>1, <1>2, <1>3, <1>4, <1>5, <1>6 DEF Next

\* ip->ref counts exactly the pointers to the inode in every state that the
\* calls of sysfile.c, with all their error paths, and crashes can reach.
THEOREM RefCountsExact ==
  Spec => []RefExact
  <1>1. RefInv => RefExact
    BY DEF RefInv
  <1> QED BY <1>1, RefInvInit, RefInvStep, PTL DEF Spec

=============================================================================
