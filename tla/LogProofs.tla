----------------------------- MODULE LogProofs ------------------------------
(* Proofs about Log, for any numbers of blocks, processes and log slots.   *)
EXTENDS Log, FiniteSetTheorems, TLAPS

USE Zenon

\* A process's write set may be replaced by any other set of blocks.
LEMMA ReplaceSet ==
  ASSUME NEW P, NEW S, NEW f \in [P -> SUBSET S], NEW x \in P, NEW T \in SUBSET S
  PROVE  [f EXCEPT ![x] = T] \in [P -> SUBSET S]
  OBVIOUS

\* The types hold at boot.
LEMMA InitType == Init => TypeOK
<1> SUFFICES ASSUME Init PROVE TypeOK
  OBVIOUS
<1> USE LogAssumption
<1>1. ldata \in [Slots -> Vals]
  BY DEF Init
<1>2. committing \in BOOLEAN /\ panic \in BOOLEAN
  BY DEF Init
<1>3. hdr \in Seq(Blocks) /\ lh \in Seq(Blocks) /\ Len(hdr) = 0 /\ Len(lh) = 0
  BY SMTT(30) DEF Init
<1> QED
  BY SMTT(30), <1>1, <1>2, <1>3 DEF Init, TypeOK

\* Every action of log.c keeps the types of the log's state.
LEMMA NextType == TypeOK /\ [Next]_vars => TypeOK'
<1> SUFFICES ASSUME TypeOK, [Next]_vars PROVE TypeOK'
  OBVIOUS
<1> USE LogAssumption DEF TypeOK, Slots, disk, bcache, log, procs, boot, Goto
<1>1. CASE read_head
  BY <1>1 DEF read_head
<1>2. CASE recover_install
  BY SMTT(30), <1>2 DEF recover_install
<1>3. CASE recover_clear
  BY SMTT(30), <1>3 DEF recover_clear
<1>4. ASSUME NEW p \in Procs, call_op(p) PROVE TypeOK'
  BY <1>4 DEF call_op
<1>5. ASSUME NEW p \in Procs, begin_op(p) PROVE TypeOK'
  <2>1. wset' \in [Procs -> SUBSET Blocks]
    <3>1. wset' = wset \/ wset' = [wset EXCEPT ![p] = {}]
      BY <1>5 DEF begin_op
    <3>2. wset \in [Procs -> SUBSET Blocks] /\ p \in Procs
      OBVIOUS
    <3>3. [wset EXCEPT ![p] = {}] \in [Procs -> SUBSET Blocks]
      BY ONLY Zenon, <3>2, ReplaceSet
    <3> QED
      BY ONLY Zenon, <3>1, <3>2, <3>3
  <2>2. pc' \in [Procs -> {"idle", "begin", "sleep", "op", "commit", "install", "end"}]
    BY <1>5 DEF begin_op
  <2> QED
    BY SMTT(30), <1>5, <2>1, <2>2 DEF begin_op
<1>6. ASSUME NEW p \in Procs, end_op(p) PROVE TypeOK'
  <2>1. pc' \in [Procs -> {"idle", "begin", "sleep", "op", "commit", "install", "end"}]
    BY <1>6 DEF end_op, Woken
  <2>2. committing' \in BOOLEAN /\ panic' \in BOOLEAN
    BY <1>6 DEF end_op
  <2>3. tail' \in [Procs -> 0..LOGBLOCKS]
    <3>1. CASE UNCHANGED tail
      BY <3>1
    <3>2. CASE tail' = [tail EXCEPT ![p] = 0]
      BY SMTT(30), <3>2
    <3> QED
      BY <3>1, <3>2, <1>6 DEF end_op
  <2> QED
    BY SMTT(30), <1>6, <2>1, <2>2, <2>3 DEF end_op
<1>7. ASSUME NEW p \in Procs, write_log(p) PROVE TypeOK'
  <2>1. tail[p] + 1 \in Slots /\ lh[tail[p] + 1] \in Blocks
    BY SMTT(30), <1>7 DEF write_log
  <2>2. Content(lh[tail[p] + 1]) \in Vals
    BY <2>1 DEF Content
  <2> QED
    BY SMTT(30), <1>7, <2>1, <2>2 DEF write_log
<1>8. ASSUME NEW p \in Procs, write_head(p) PROVE TypeOK'
  BY SMTT(30), <1>8 DEF write_head
<1>9. ASSUME NEW p \in Procs, install_trans(p) PROVE TypeOK'
  <2>1. tail[p] + 1 \in Slots /\ lh[tail[p] + 1] \in Blocks
    BY SMTT(30), <1>9 DEF install_trans
  <2>2. ldata[tail[p] + 1] \in Vals
    BY <2>1
  <2>3. /\ home' \in [Blocks -> Vals] /\ pin' \in [Blocks -> Int]
        /\ cache' \in [Blocks -> Vals \cup {NotCached}]
    BY SMTT(30), <1>9, <2>1, <2>2 DEF install_trans
  <2>4. tail' \in [Procs -> 0..LOGBLOCKS]
    BY SMTT(30), <1>9 DEF install_trans
  <2> QED
    BY <1>9, <2>3, <2>4 DEF install_trans
<1>10. ASSUME NEW p \in Procs, erase_log(p) PROVE TypeOK'
  BY SMTT(30), <1>10 DEF erase_log
<1>11. ASSUME NEW p \in Procs, end_commit(p) PROVE TypeOK'
  BY <1>11 DEF end_commit, Woken
<1>12. ASSUME NEW p \in Procs, NEW b \in Blocks, NEW v \in Vals, log_write(p, b, v)
       PROVE TypeOK'
  <2>1. lh' \in Seq(Blocks) /\ Len(lh') \in 0..LOGBLOCKS
    <3>1. CASE UNCHANGED lh
      BY <3>1
    <3>2. CASE lh' = Append(lh, b) /\ Len(lh) < LOGBLOCKS
      BY SMTT(30), <3>2
    <3> QED
      BY <3>1, <3>2, <1>12 DEF log_write
  <2>2. pin' \in [Blocks -> Int] /\ cache' \in [Blocks -> Vals \cup {NotCached}]
    BY SMTT(30), <1>12 DEF log_write
  <2>3. panic' \in BOOLEAN
    BY <1>12 DEF log_write
  <2>4. wset' \in [Procs -> SUBSET Blocks]
    <3>1. wset[p] \cup {b} \in SUBSET Blocks
      OBVIOUS
    <3>2. wset' = wset \/ wset' = [wset EXCEPT ![p] = wset[p] \cup {b}]
      BY <1>12 DEF log_write
    <3>3. wset \in [Procs -> SUBSET Blocks] /\ p \in Procs
      OBVIOUS
    <3>4. [wset EXCEPT ![p] = wset[p] \cup {b}] \in [Procs -> SUBSET Blocks]
      BY ONLY Zenon, <3>1, <3>3, ReplaceSet
    <3> QED
      BY ONLY Zenon, <3>2, <3>3, <3>4
  <2> QED
    BY <1>12, <2>1, <2>2, <2>3, <2>4 DEF log_write
<1>13. ASSUME NEW b \in Blocks, bread(b) PROVE TypeOK'
  BY <1>13 DEF bread
<1>14. ASSUME NEW b \in Blocks, recycle(b) PROVE TypeOK'
  BY <1>14 DEF recycle
<1>15. CASE crash
  <2>1. home' \in [Blocks -> Vals] /\ ldata' \in [Slots -> Vals]
    <3>1. home \in [Blocks -> Vals] /\ ldata \in [Slots -> Vals]
      OBVIOUS
    <3>2. ASSUME NEW b, NEW v \in Vals PROVE [home EXCEPT ![b] = v] \in [Blocks -> Vals]
      BY ONLY Zenon, <3>1
    <3>3. ASSUME NEW i, NEW v \in Vals PROVE [ldata EXCEPT ![i] = v] \in [Slots -> Vals]
      BY ONLY Zenon, <3>1
    <3>4. \/ home' = home /\ ldata' = ldata
          \/ \E b \in TornHome, v \in Vals : home' = [home EXCEPT ![b] = v] /\ ldata' = ldata
          \/ \E i \in TornSlot, v \in Vals : ldata' = [ldata EXCEPT ![i] = v] /\ home' = home
      BY <1>15 DEF crash
    <3> QED
      BY ONLY Zenon, <3>1, <3>2, <3>3, <3>4
  <2>2. committing' \in BOOLEAN /\ panic' \in BOOLEAN
    BY <1>15 DEF crash, Booted
  <2>3. lh' \in Seq(Blocks) /\ Len(lh') = 0
    BY ONLY SMTT(30), <1>15 DEF crash, Booted
  <2> QED
    BY SMTT(30), <2>1, <2>2, <2>3, <1>15 DEF crash, Booted
<1>16. CASE UNCHANGED vars
  BY <1>16 DEF vars
<1> QED
  BY <1>1, <1>2, <1>3, <1>4, <1>5, <1>6, <1>7, <1>8, <1>9, <1>10, <1>11, <1>12,
     <1>13, <1>14, <1>15, <1>16 DEF Next, Step, Recover

\* The state of the log stays well typed whatever is called, and whenever the
\* machine crashes.
THEOREM TypeCorrect == Spec => []TypeOK
<1> QED BY InitType, NextType, PTL DEF Spec

-----------------------------------------------------------------------------
(* Control: who is in an operation, who commits, and how much log space is *)
(* spoken for.                                                             *)

\* The processes in a transaction can be counted.
LEMMA FiniteCounts == IsFiniteSet(Active) /\ IsFiniteSet(Reserved)
<1>1. IsFiniteSet(Active)
  BY LogAssumption, FS_Subset DEF Active
<1>2. IsFiniteSet(1..MAXOPBLOCKS)
  BY SMTT(30), LogAssumption, FS_Interval
<1>3. IsFiniteSet(Procs \X (1..MAXOPBLOCKS))
  BY <1>2, LogAssumption, FS_Product
<1>4. Reserved \in SUBSET (Procs \X (1..MAXOPBLOCKS))
  BY DEF Reserved
<1> QED
  BY <1>1, <1>3, <1>4, FS_Subset

\* With no process in an operation, nothing is reserved.
LEMMA IdleCounts ==
  ASSUME \A p \in Procs : pc[p] # "op"
  PROVE  /\ Active = {} /\ Reserved = {}
         /\ Cardinality(Active) = 0 /\ Cardinality(Reserved) = 0
<1>1. Active = {} /\ Reserved = {}
  BY DEF Active, Reserved
<1> QED
  BY <1>1, FS_EmptySet

\* The control part holds at boot.
LEMMA InitControl == Init => Control
<1> SUFFICES ASSUME Init PROVE Control
  OBVIOUS
<1>1. \A p \in Procs : pc[p] = "idle"
  BY DEF Init
<1>2. Active = {} /\ Committers = {} /\ Cardinality(Active) = 0 /\ Cardinality(Reserved) = 0
  BY <1>1, IdleCounts DEF Committers
<1>3. CommitAlone
  BY <1>2 DEF CommitAlone, Init
<1>4. BootIdle /\ LogOwned /\ NoLostWakeup
  BY <1>1 DEF BootIdle, LogOwned, NoLostWakeup, Init
<1>5. WriteSets
  BY SMTT(30), <1>1, FS_EmptySet, LogAssumption DEF WriteSets, Init
<1>6. LogSpace
  BY SMTT(30), <1>2, LogAssumption DEF LogSpace, Init
<1> QED
  BY <1>3, <1>4, <1>5, <1>6 DEF Control

\* Steps that touch none of the control state.
LEMMA FrameControl ==
  ASSUME Control, UNCHANGED <<pc, outstanding, committing, lh, wset, phase>>
  PROVE  Control'
<1>1. UNCHANGED <<Active, Committers, Logged, Reserved>>
  BY DEF Active, Committers, Logged, Reserved
<1>2. CommitAlone' /\ BootIdle'
  BY <1>1 DEF Control, CommitAlone, BootIdle
<1>3. LogOwned' /\ NoLostWakeup'
  BY <1>1 DEF Control, LogOwned, NoLostWakeup
<1>4. WriteSets'
  BY <1>1 DEF Control, WriteSets
<1>5. LogSpace'
  BY <1>1 DEF Control, LogSpace
<1> QED
  BY <1>2, <1>3, <1>4, <1>5 DEF Control

\* A machine that is booting has nobody in an operation.
LEMMA BootControl ==
  ASSUME TypeOK', \A p \in Procs : pc'[p] = "idle" /\ IsFiniteSet(wset'[p])
                                   /\ Cardinality(wset'[p]) <= OpBlocks,
         outstanding' = 0, ~committing', phase' # "up" \/ lh' = <<>>
  PROVE  Control'
<1>1. Active' = {} /\ Reserved' = {} /\ Committers' = {}
  BY DEF Active, Reserved, Committers
<1>2. CommitAlone'
  BY <1>1 DEF CommitAlone
<1>3. BootIdle' /\ LogOwned' /\ NoLostWakeup'
  BY DEF BootIdle, LogOwned, NoLostWakeup
<1>4. WriteSets'
  BY DEF WriteSets
<1>5. LogSpace'
  BY SMTT(30), <1>1, FS_EmptySet, LogAssumption DEF LogSpace, TypeOK
<1> QED
  BY <1>2, <1>3, <1>4, <1>5 DEF Control

\* Steps that move processes but start and end no operation.
LEMMA SameOps ==
  ASSUME UNCHANGED wset, \A q \in Procs : pc'[q] = "op" <=> pc[q] = "op"
  PROVE  UNCHANGED <<Active, Reserved>>
  BY DEF Active, Reserved

\* begin_op() admits an operation only when its blocks fit beside the others.
LEMMA BeginControl ==
  ASSUME TypeOK, TypeOK', Control, NEW p \in Procs, begin_op(p)
  PROVE  Control'
<1> USE DEF begin_op, Goto, Running, Control
<1>1. CASE MustWait /\ pc' = [pc EXCEPT ![p] = "sleep"] /\ UNCHANGED <<outstanding, wset>>
  <2>1. UNCHANGED <<Active, Reserved, Logged, lh, committing, phase>>
    BY SMTT(30), <1>1, SameOps DEF TypeOK, Logged, boot
  <2>2. UNCHANGED Committers
    BY <1>1 DEF TypeOK, Committers
  <2>3. CommitAlone' /\ BootIdle' /\ LogSpace'
    BY SMTT(30), <1>1, <2>1, <2>2 DEF CommitAlone, BootIdle, LogSpace
  <2>4. LogOwned'
    BY <1>1, <2>1, <2>2 DEF LogOwned, TypeOK, Committers
  <2>5. WriteSets'
    BY <1>1, <2>1 DEF WriteSets, TypeOK
  <2>6. NoLostWakeup'
    <3>1. CASE committing
      BY ONLY SMTT(30), <3>1, <2>1 DEF NoLostWakeup
    <3>2. CASE ~committing /\ Len(lh) + (outstanding + 1) * MAXOPBLOCKS > LOGBLOCKS
      <4>1. outstanding = Cardinality(Active) /\ outstanding \in Nat
        BY FiniteCounts, FS_CardinalityType DEF LogSpace
      <4>2. outstanding # 0
        <5> SUFFICES ASSUME outstanding = 0 PROVE FALSE
          OBVIOUS
        <5>1. Active = {}
          BY <4>1, FiniteCounts, FS_EmptySet
        <5>2. Committers = {}
          BY <3>2 DEF CommitAlone
        <5>3. lh = <<>>
          BY <5>1, <5>2 DEF LogOwned
        <5> QED
          BY SMTT(30), <5>3, <3>2, LogAssumption
      <4> QED
        BY ONLY SMTT(30), <4>1, <4>2, <1>1 DEF NoLostWakeup
    <3> QED
      BY <1>1, <3>1, <3>2 DEF MustWait
  <2> QED
    BY <2>3, <2>4, <2>5, <2>6
<1>2. CASE /\ ~MustWait /\ pc' = [pc EXCEPT ![p] = "op"]
           /\ outstanding' = outstanding + 1 /\ wset' = [wset EXCEPT ![p] = {}]
  <2>1. Active' = Active \cup {p} /\ p \notin Active
    BY SMTT(30), <1>2 DEF Active, TypeOK
  <2>2. Cardinality(Active') = outstanding + 1 /\ IsFiniteSet(Active')
    BY <2>1, FiniteCounts, FS_AddElement DEF LogSpace
  <2>3. Committers = {} /\ Committers' = {} /\ ~committing'
    BY <1>2 DEF MustWait, CommitAlone, Committers, TypeOK
  <2>4. LogSpace'
    <3>1. Reserved' \in SUBSET (Active' \X (1..MAXOPBLOCKS))
      BY DEF Reserved, Active
    <3>2. IsFiniteSet(1..MAXOPBLOCKS) /\ Cardinality(1..MAXOPBLOCKS) = MAXOPBLOCKS
      BY ONLY SMTT(30), LogAssumption, FS_Interval
    <3>3. /\ IsFiniteSet(Active' \X (1..MAXOPBLOCKS))
          /\ Cardinality(Active' \X (1..MAXOPBLOCKS)) = Cardinality(Active') * Cardinality(1..MAXOPBLOCKS)
      BY <2>2, <3>2, FS_Product
    <3>4. IsFiniteSet(Reserved') /\ Cardinality(Reserved') <= (outstanding + 1) * MAXOPBLOCKS
      BY ONLY SMTT(30), <3>1, <3>2, <3>3, <2>2, FS_Subset
    <3>5. Cardinality(Reserved') \in Nat
      BY <3>4, FS_CardinalityType
    <3>6. (outstanding + 1) * MAXOPBLOCKS \in Int
      BY ONLY SMTT(30), TypeOK, LogAssumption DEF TypeOK
    <3>7. Len(lh) + (outstanding + 1) * MAXOPBLOCKS <= LOGBLOCKS
      BY ONLY SMTT(30), <1>2, <3>6, LogAssumption DEF MustWait, TypeOK
    <3>8. lh' = lh /\ Len(lh) \in Nat
      BY SMTT(30) DEF TypeOK
    <3>9. Len(lh') + Cardinality(Reserved') <= LOGBLOCKS
      BY ONLY SMTT(30), <3>4, <3>5, <3>6, <3>7, <3>8, LogAssumption
    <3> QED
      BY <1>2, <2>2, <3>9 DEF LogSpace
  <2>5. CommitAlone'
    BY <2>3 DEF CommitAlone
  <2>6. BootIdle' /\ LogOwned'
    BY <2>1 DEF BootIdle, LogOwned, boot
  <2>7. WriteSets'
    BY SMTT(30), <1>2, FS_EmptySet, LogAssumption DEF WriteSets, TypeOK, Logged
  <2>8. NoLostWakeup'
    <3>1. outstanding \in Nat
      BY FiniteCounts, FS_CardinalityType DEF LogSpace
    <3> QED
      BY ONLY SMTT(30), <1>2, <3>1 DEF NoLostWakeup
  <2> QED
    BY <2>4, <2>5, <2>6, <2>7, <2>8
<1> QED
  BY <1>1, <1>2

\* An operation that runs has room for its next new block, and keeps out the
\* committer; with OpBlocks < MAXOPBLOCKS log_write() cannot panic.
LEMMA RoomToWrite ==
  ASSUME TypeOK, Control, NEW p \in Procs, pc[p] = "op"
  PROVE  /\ outstanding >= 1 /\ outstanding \in Nat /\ ~committing
         /\ OpBlocks < MAXOPBLOCKS => Len(lh) < LOGBLOCKS
<1>1. p \in Active /\ outstanding = Cardinality(Active) /\ outstanding \in Nat
  BY FiniteCounts, FS_CardinalityType DEF Active, Control, LogSpace
<1>2. outstanding # 0
  BY <1>1, FiniteCounts, FS_EmptySet
<1>3. ~committing
  BY <1>1 DEF Control, CommitAlone
<1>4. ASSUME OpBlocks < MAXOPBLOCKS PROVE Len(lh) < LOGBLOCKS
  <2>1. IsFiniteSet(wset[p]) /\ Cardinality(wset[p]) <= OpBlocks
    BY DEF Control, WriteSets
  <2>2. Cardinality(wset[p]) \in Nat
    BY <2>1, FS_CardinalityType
  <2>3. <<p, MAXOPBLOCKS>> \in Reserved
    BY SMTT(30), <1>4, <2>1, <2>2, LogAssumption DEF Reserved
  <2>4. Cardinality(Reserved) \in Nat /\ Cardinality(Reserved) # 0
    BY <2>3, FiniteCounts, FS_CardinalityType, FS_EmptySet
  <2> QED
    BY ONLY SMTT(30), TypeOK, Control, <2>4, LogAssumption DEF Control, LogSpace, TypeOK
<1> QED
  BY ONLY SMTT(30), <1>1, <1>2, <1>3, <1>4

\* log_write() uses up what its operation reserved.
LEMMA WriteControl ==
  ASSUME TypeOK, TypeOK', Control,
         NEW p \in Procs, NEW b \in Blocks, NEW v \in Vals, log_write(p, b, v)
  PROVE  Control'
<1> USE DEF log_write
<1>1. outstanding >= 1 /\ outstanding \in Nat
  BY RoomToWrite
<1>2. CASE UNCHANGED <<lh, wset>>
  BY <1>2, FrameControl DEF boot
<1>3. ASSUME Len(lh) < LOGBLOCKS
      PROVE  lh' = IF b \in Logged THEN lh ELSE Append(lh, b)
  BY SMTT(30), <1>1, <1>3, LogAssumption DEF TypeOK
<1>4. CASE Len(lh) < LOGBLOCKS /\ wset' = [wset EXCEPT ![p] = @ \cup {b}]
  <2>1. UNCHANGED <<Active, Committers, pc, outstanding, committing, phase>>
    BY DEF Active, Committers, boot
  <2>2. Logged \subseteq Logged' /\ b \in Logged'
    <3>1. CASE b \in Logged
      BY <1>4, <3>1 DEF Logged
    <3>2. CASE lh' = Append(lh, b)
      <4>1. /\ Len(lh') = Len(lh) + 1 /\ lh'[Len(lh) + 1] = b
            /\ \A i \in 1..Len(lh) : lh'[i] = lh[i]
        BY ONLY SMTT(30), <3>2 DEF TypeOK
      <4>2. Len(lh) \in Nat
        BY ONLY SMTT(30) DEF TypeOK
      <4>3. \A i \in 1..Len(lh) : i \in 1..Len(lh') /\ lh'[i] = lh[i]
        BY ONLY SMTT(30), <4>1, <4>2
      <4>4. Len(lh) + 1 \in 1..Len(lh')
        BY ONLY SMTT(30), <4>1, <4>2
      <4> QED
        BY ONLY SMTT(30), <4>1, <4>3, <4>4 DEF Logged
    <3> QED
      BY <1>3, <1>4, <3>1, <3>2
  <2>3. wset'[p] = wset[p] \cup {b} /\ \A q \in Procs \ {p} : wset'[q] = wset[q]
    BY <1>4 DEF TypeOK
  <2>4. /\ IsFiniteSet(wset[p]) /\ IsFiniteSet(wset'[p])
        /\ Cardinality(wset[p]) \in Nat /\ Cardinality(wset'[p]) \in Nat
        /\ Cardinality(wset'[p]) = IF b \in wset[p] THEN Cardinality(wset[p])
                                                    ELSE Cardinality(wset[p]) + 1
    <3>1. IsFiniteSet(wset[p]) /\ wset'[p] = wset[p] \cup {b}
      BY <2>3 DEF Control, WriteSets
    <3> QED
      BY ONLY SMTT(30), <3>1, FS_AddElement, FS_CardinalityType
  <2>5. WriteSets'
    <3> SUFFICES ASSUME NEW q \in Procs
                 PROVE  /\ IsFiniteSet(wset'[q])
                        /\ Cardinality(wset'[q]) <= OpBlocks
                        /\ pc[q] = "op" => wset'[q] \subseteq Logged'
      BY <2>1 DEF WriteSets
    <3>1. CASE q = p
      <4>1. Cardinality(wset'[p]) <= OpBlocks
        BY <1>4, <2>3
      <4> QED
        BY <3>1, <4>1, <2>2, <2>3, <2>4 DEF Control, WriteSets
    <3>2. CASE q # p
      BY <3>2, <2>2, <2>3 DEF Control, WriteSets
    <3> QED
      BY <3>1, <3>2
  <2>6. LogSpace'
    <3>1. Reserved' \in SUBSET Reserved
      <4> SUFFICES ASSUME NEW r \in Procs \X (1..MAXOPBLOCKS), pc[r[1]] = "op",
                          r[2] > Cardinality(wset'[r[1]])
                   PROVE  r[2] > Cardinality(wset[r[1]])
        BY <2>1 DEF Reserved
      <4>1. CASE r[1] = p
        BY SMTT(30), <4>1, <2>4, LogAssumption
      <4>2. CASE r[1] # p
        BY <4>2, <2>3
      <4> QED
        BY <4>1, <4>2
    <3>2. /\ IsFiniteSet(Reserved') /\ Cardinality(Reserved') <= Cardinality(Reserved)
          /\ Cardinality(Reserved) \in Nat /\ Cardinality(Reserved') \in Nat
      BY <3>1, FiniteCounts, FS_Subset, FS_CardinalityType
    <3>3. CASE b \in Logged
      BY SMTT(30), <1>4, <3>3, <3>2, <2>1, LogAssumption DEF Control, LogSpace, TypeOK
    <3>4. CASE b \notin Logged
      <4>1. Len(lh') = Len(lh) + 1
        <5>1. lh' = Append(lh, b)
          BY <1>3, <1>4, <3>4
        <5> QED
          BY ONLY SMTT(30), <5>1 DEF TypeOK
      <4>2. b \notin wset[p]
        BY <3>4 DEF Control, WriteSets
      <4> DEFINE r == <<p, Cardinality(wset[p]) + 1>>
      <4>3. Cardinality(wset[p]) + 1 \in 1..MAXOPBLOCKS
        <5>1. Cardinality(wset[p]) + 1 <= OpBlocks
          BY <1>4, <2>3, <2>4, <4>2
        <5> QED
          BY ONLY SMTT(30), <5>1, <2>4, LogAssumption
      <4>4. r \in Reserved /\ r \notin Reserved'
        BY SMTT(30), <4>2, <4>3, <2>4 DEF Reserved
      <4>5. Reserved' \in SUBSET (Reserved \ {r})
        BY <3>1, <4>4
      <4>6. IsFiniteSet(Reserved \ {r}) /\ Cardinality(Reserved \ {r}) = Cardinality(Reserved) - 1
        BY ONLY SMTT(30), <4>4, FiniteCounts, FS_RemoveElement
      <4>7. Cardinality(Reserved') <= Cardinality(Reserved) - 1
        BY ONLY SMTT(30), <4>5, <4>6, FS_Subset
      <4> QED
        BY ONLY SMTT(30), TypeOK, Control, <4>1, <4>7, <3>2, <2>1, LogAssumption DEF Control, LogSpace, TypeOK
    <3> QED
      BY <3>3, <3>4
  <2>7. CommitAlone' /\ BootIdle' /\ NoLostWakeup'
    BY ONLY SMTT(30), Control, <2>1 DEF Control, CommitAlone, BootIdle, NoLostWakeup
  <2>8. LogOwned'
    BY <2>1 DEF LogOwned, Active
  <2> QED
    BY <2>5, <2>6, <2>7, <2>8 DEF Control
<1> QED
  BY <1>1, <1>2, <1>4

\* end_op() gives the reservation back, and the last one out commits.
LEMMA EndControl ==
  ASSUME TypeOK, TypeOK', Control, NEW p \in Procs, end_op(p)
  PROVE  Control'
<1> USE DEF end_op, Goto
<1>1. outstanding >= 1 /\ outstanding \in Nat /\ ~committing /\ p \in Active
  BY RoomToWrite DEF Active
<1>2. Active' = Active \ {p} /\ UNCHANGED <<lh, wset, phase>>
  BY <1>1 DEF Active, Woken, TypeOK, boot
<1>3. LogSpace'
  <2>1. Cardinality(Active') = outstanding'
    BY <1>1, <1>2, FiniteCounts, FS_RemoveElement DEF Control, LogSpace
  <2>2. Reserved' \in SUBSET Reserved
    BY <1>2 DEF Reserved, Active
  <2>3. /\ Cardinality(Reserved') <= Cardinality(Reserved)
        /\ Cardinality(Reserved') \in Nat /\ Cardinality(Reserved) \in Nat
    BY <2>2, FiniteCounts, FS_Subset, FS_CardinalityType
  <2> QED
    BY ONLY SMTT(30), TypeOK, Control, <1>2, <2>1, <2>3, LogAssumption DEF Control, LogSpace, TypeOK
<1>4. WriteSets'
  BY ONLY SMTT(30), Control, <1>2 DEF Control, WriteSets, Active, Logged
<1>5. BootIdle'
  BY <1>2 DEF Control, BootIdle
<1>6. Committers = {}
  BY <1>1 DEF Control, CommitAlone
<1>7. CASE outstanding' = 0
  <2>1. committing' /\ pc' = [pc EXCEPT ![p] = "commit"]
    BY <1>1, <1>7
  <2>2. Active' = {}
    <3>1. Cardinality(Active') = 0 /\ IsFiniteSet(Active')
      BY <1>2, <1>3, <1>7, FiniteCounts, FS_RemoveElement DEF LogSpace
    <3> QED
      BY <3>1, FS_EmptySet
  <2>3. Committers' = {p}
    BY ONLY SMTT(30), TypeOK, <2>1, <1>6 DEF Committers, TypeOK
  <2>4. CommitAlone' /\ NoLostWakeup'
    BY <2>1, <2>2, <2>3 DEF CommitAlone, NoLostWakeup
  <2>5. LogOwned'
    BY <2>1, <2>3 DEF LogOwned, TypeOK
  <2> QED
    BY <2>4, <2>5, <1>3, <1>4, <1>5 DEF Control
<1>8. CASE outstanding' # 0
  <2>1. ~committing' /\ pc' = [Woken EXCEPT ![p] = "idle"]
    BY SMTT(30), <1>1, <1>8
  <2>2. Committers' = {} /\ \A q \in Procs : pc'[q] # "sleep"
    BY <2>1, <1>6 DEF Committers, TypeOK, Woken
  <2>3. Active' # {}
    BY <1>3, <1>8, FS_EmptySet DEF LogSpace
  <2>4. CommitAlone' /\ NoLostWakeup' /\ LogOwned'
    BY <2>1, <2>2, <2>3 DEF CommitAlone, NoLostWakeup, LogOwned
  <2> QED
    BY <2>4, <1>3, <1>4, <1>5 DEF Control
<1> QED
  BY <1>7, <1>8

\* The steps of commit() change control state only through pc and log.lh.
LEMMA CommitControl ==
  ASSUME TypeOK, TypeOK', Control, NEW p \in Procs,
         call_op(p) \/ write_head(p) \/ erase_log(p) \/ end_commit(p)
  PROVE  Control'
<1> USE DEF Goto, boot
<1>1. CASE call_op(p)
  <2>1. UNCHANGED <<Active, Reserved, Logged, lh, outstanding, committing, wset, phase>>
    BY ONLY SMTT(30), <1>1, SameOps DEF call_op, TypeOK, Logged, log
  <2>2. UNCHANGED Committers /\ phase = "up"
    BY <1>1 DEF call_op, TypeOK, Committers, Running
  <2>3. \A q \in Procs : pc'[q] # "begin" => pc'[q] = pc[q]
    BY <1>1 DEF call_op, TypeOK
  <2>4. CommitAlone' /\ LogSpace' /\ BootIdle'
    BY <2>1, <2>2 DEF Control, CommitAlone, LogSpace, BootIdle
  <2>5. WriteSets' /\ NoLostWakeup'
    BY <2>1, <2>3 DEF Control, WriteSets, NoLostWakeup
  <2>6. LogOwned'
    BY <2>1, <2>2, <2>3 DEF Control, LogOwned, Committers
  <2> QED
    BY <2>4, <2>5, <2>6 DEF Control
<1>2. CASE write_head(p)
  <2>1. UNCHANGED <<Active, Reserved, Logged, lh, outstanding, committing, wset, phase>>
    BY ONLY SMTT(30), <1>2, SameOps DEF write_head, TypeOK, Logged, log
  <2>2. UNCHANGED Committers /\ phase = "up" /\ pc'[p] = "install" /\ p \in Committers'
    BY <1>2 DEF write_head, TypeOK, Committers, Running
  <2>3. \A q \in Procs : pc'[q] # "install" => pc'[q] = pc[q]
    BY <1>2 DEF write_head, TypeOK
  <2>4. CommitAlone' /\ LogSpace' /\ BootIdle'
    BY <2>1, <2>2 DEF Control, CommitAlone, LogSpace, BootIdle
  <2>5. WriteSets' /\ NoLostWakeup'
    BY <2>1, <2>3 DEF Control, WriteSets, NoLostWakeup
  <2>6. LogOwned'
    BY <2>2 DEF LogOwned
  <2> QED
    BY <2>4, <2>5, <2>6 DEF Control
<1>3. CASE erase_log(p)
  <2>1. UNCHANGED <<Active, Reserved, outstanding, committing, wset, phase>>
    BY <1>3, SameOps DEF erase_log, TypeOK
  <2>2. UNCHANGED Committers /\ phase = "up" /\ p \in Committers /\ lh' = <<>>
    BY <1>3 DEF erase_log, TypeOK, Committers, Running
  <2>3. \A q \in Procs : pc'[q] # "end" => pc'[q] = pc[q]
    BY <1>3 DEF erase_log, TypeOK
  <2>4. Active = {} /\ Active' = {}
    BY <2>1, <2>2 DEF Control, CommitAlone
  <2>5. CommitAlone' /\ BootIdle'
    BY <2>1, <2>2 DEF Control, CommitAlone, BootIdle
  <2>6. LogSpace'
    <3>1. Len(lh') = 0 /\ Len(lh) >= 0 /\ Len(lh) \in Int
      BY ONLY SMTT(30), <2>2 DEF TypeOK
    <3>2. Cardinality(Reserved) \in Nat
      BY FiniteCounts, FS_CardinalityType
    <3> QED
      BY ONLY SMTT(30), Control, <3>1, <3>2, <2>1, LogAssumption DEF Control, LogSpace
  <2>7. WriteSets' /\ NoLostWakeup'
    BY <2>1, <2>3, <2>4 DEF Control, WriteSets, NoLostWakeup, Active
  <2>8. LogOwned'
    BY <2>2 DEF LogOwned
  <2> QED
    BY <2>5, <2>6, <2>7, <2>8 DEF Control
<1>4. CASE end_commit(p)
  <2>1. UNCHANGED <<Active, Reserved, Logged, lh, outstanding, wset, phase>>
    BY ONLY SMTT(30), <1>4, SameOps DEF end_commit, TypeOK, Logged, Woken
  <2>2. p \in Committers /\ phase = "up" /\ ~committing'
    BY <1>4 DEF end_commit, Committers, Running
  <2>3. Committers = {p} /\ Active = {}
    BY <2>2 DEF Control, CommitAlone
  <2>4. Committers' = {} /\ \A q \in Procs : pc'[q] # "sleep"
    BY <2>3, <1>4 DEF end_commit, Committers, TypeOK, Woken
  <2>5. CommitAlone' /\ NoLostWakeup' /\ BootIdle' /\ LogSpace'
    BY <2>1, <2>2, <2>4 DEF Control, CommitAlone, NoLostWakeup, BootIdle, LogSpace
  <2>6. LogOwned'
    BY <1>4, <2>1, <2>3 DEF end_commit, Control, LogOwned
  <2>7. WriteSets'
    BY <2>1, <2>3 DEF Control, WriteSets, Active
  <2> QED
    BY <2>5, <2>6, <2>7 DEF Control
<1> QED
  BY <1>1, <1>2, <1>3, <1>4

\* Every step of the log keeps the control part.
LEMMA NextControl == TypeOK /\ TypeOK' /\ Control /\ [Next]_vars => Control'
<1> SUFFICES ASSUME TypeOK, TypeOK', Control, [Next]_vars PROVE Control'
  OBVIOUS
<1> USE DEF bcache, log, procs, boot
<1>1. CASE read_head \/ recover_clear
  <2>1. /\ phase # "up" /\ UNCHANGED <<outstanding, committing, pc, wset>>
        /\ phase' # "up" \/ lh' = <<>>
    BY <1>1 DEF read_head, recover_clear
  <2>2. outstanding' = 0 /\ \A p \in Procs : pc'[p] = "idle"
    BY <2>1 DEF Control, BootIdle
  <2>3. ~committing'
    BY <2>1, <2>2 DEF Control, CommitAlone, Committers
  <2>4. \A p \in Procs : IsFiniteSet(wset'[p]) /\ Cardinality(wset'[p]) <= OpBlocks
    BY <2>1 DEF Control, WriteSets
  <2> QED
    BY <2>1, <2>2, <2>3, <2>4, BootControl
<1>2. CASE crash
  <2>1. \A p \in Procs : pc'[p] = "idle" /\ IsFiniteSet(wset'[p]) /\ Cardinality(wset'[p]) <= OpBlocks
    BY ONLY SMTT(30), <1>2, FS_EmptySet, LogAssumption DEF crash, Booted
  <2>2. outstanding' = 0 /\ ~committing' /\ phase' # "up"
    BY <1>2 DEF crash, Booted
  <2> QED
    BY <2>1, <2>2, BootControl
<1>3. CASE recover_install
  BY <1>3, FrameControl DEF recover_install
<1>4. ASSUME NEW p \in Procs, write_log(p) \/ install_trans(p) PROVE Control'
  BY <1>4, FrameControl DEF write_log, install_trans
<1>5. ASSUME NEW b \in Blocks, bread(b) \/ recycle(b) PROVE Control'
  BY <1>5, FrameControl DEF bread, recycle
<1>6. CASE UNCHANGED vars
  BY <1>6, FrameControl DEF vars
<1>7. ASSUME NEW p \in Procs,
             call_op(p) \/ write_head(p) \/ erase_log(p) \/ end_commit(p)
      PROVE  Control'
  BY <1>7, CommitControl
<1>8. ASSUME NEW p \in Procs, begin_op(p) PROVE Control'
  BY <1>8, BeginControl
<1>9. ASSUME NEW p \in Procs, end_op(p) PROVE Control'
  BY <1>9, EndControl
<1>10. ASSUME NEW p \in Procs, NEW b \in Blocks, NEW v \in Vals, log_write(p, b, v)
       PROVE  Control'
  BY <1>10, WriteControl
<1> QED
  BY <1>1, <1>2, <1>3, <1>4, <1>5, <1>6, <1>7, <1>8, <1>9, <1>10 DEF Next, Step, Recover

\* The types and the control part hold in every behaviour.
LEMMA ControlInvariant == Spec => [](TypeOK /\ Control)
<1>1. Init => TypeOK /\ Control
  BY InitType, InitControl
<1>2. TypeOK /\ Control /\ [Next]_vars => (TypeOK /\ Control)'
  BY NextType, NextControl
<1> QED
  BY <1>1, <1>2, PTL DEF Spec

\* begin_op() never admits more than the log can hold: the blocks in the log
\* plus all that running operations may add fit, and outstanding is exact.
THEOREM AdmissionSafe == Spec => []LogSpace
<1>1. TypeOK /\ Control => LogSpace
  BY DEF Control
<1> QED
  BY <1>1, ControlInvariant, PTL

\* commit() runs alone, with no operation in progress.
THEOREM CommitsAlone == Spec => []CommitAlone
<1>1. TypeOK /\ Control => CommitAlone
  BY DEF Control
<1> QED
  BY <1>1, ControlInvariant, PTL

\* A process asleep in begin_op() always has someone left to wake it.
THEOREM WakeupPending == Spec => []NoLostWakeup
<1>1. TypeOK /\ Control => NoLostWakeup
  BY DEF Control
<1> QED
  BY <1>1, ControlInvariant, PTL

\* If operations stay strictly below the MAXOPBLOCKS distinct blocks that
\* begin_op() reserves for them, no panic of log.c is reached.
THEOREM PanicFree == ASSUME OpBlocks < MAXOPBLOCKS PROVE Spec => []NoPanic
<1>1. Init => NoPanic
  BY DEF Init, NoPanic
<1>2. TypeOK /\ Control /\ NoPanic /\ [Next]_vars => NoPanic'
  <2> SUFFICES ASSUME TypeOK, Control, NoPanic, [Next]_vars PROVE ~panic'
    BY DEF NoPanic
  <2>1. ASSUME NEW p \in Procs, NEW b \in Blocks, NEW v \in Vals, log_write(p, b, v)
        PROVE  ~panic'
    <3>1. outstanding >= 1 /\ outstanding \in Nat /\ Len(lh) < LOGBLOCKS
      BY <2>1, RoomToWrite DEF log_write
    <3>2. ~(Len(lh) >= LOGBLOCKS \/ outstanding < 1)
      BY ONLY SMTT(30), <3>1, LogAssumption DEF TypeOK
    <3> QED
      BY <2>1, <3>2 DEF log_write, NoPanic
  <2>2. ASSUME NEW p \in Procs, end_op(p) PROVE ~panic'
    BY <2>2, RoomToWrite DEF end_op, NoPanic
  <2>3. CASE crash
    BY <2>3 DEF crash, Booted
  <2>4. CASE Recover \/ UNCHANGED vars
    BY <2>4 DEF Recover, read_head, recover_install, recover_clear, vars, NoPanic
  <2>5. ASSUME NEW p \in Procs,
               \/ call_op(p) \/ begin_op(p) \/ write_log(p) \/ write_head(p)
               \/ install_trans(p) \/ erase_log(p) \/ end_commit(p)
        PROVE  ~panic'
    BY <2>5 DEF call_op, begin_op, write_log, write_head, install_trans, erase_log,
                end_commit, NoPanic
  <2>6. ASSUME NEW b \in Blocks, bread(b) \/ recycle(b) PROVE ~panic'
    BY <2>6 DEF bread, recycle, NoPanic
  <2> QED
    BY <2>1, <2>2, <2>3, <2>4, <2>5, <2>6 DEF Next, Step
<1> QED
  BY <1>1, <1>2, ControlInvariant, PTL DEF Spec

-----------------------------------------------------------------------------
(* Data: what is on disk, in the cache and in the log at each step of      *)
(* commit() and of recovery.  log_write() panics after its caller has      *)
(* changed the buffer, so what the cache holds is stated while the kernel  *)
(* runs; after a panic nothing but a crash happens.                        *)

\* log.c panics only inside an operation, so never in the middle of a commit.
PanicInOp == panic => Active # {}

\* Nothing is pinned before recovery is over.
BootUnpinned == phase # "up" => \A b \in Blocks : pin[b] = 0

DataInv ==
  /\ BootClean /\ BootUnpinned /\ HeaderValid /\ CopiedSoFar
  /\ PanicInOp /\ (~panic => PinnedWhilePending)

\* Before the commit point every block of the log is still to be installed.
LEMMA PendingAll ==
  ASSUME \A p \in Procs : pc[p] # "install"
  PROVE  Pending = Logged
BY DEF Pending, Logged

\* After it, those the one committer has not reached.
LEMMA PendingRest ==
  ASSUME TypeOK, CommitAlone, NEW p \in Procs, pc[p] = "install"
  PROVE  Pending = {lh[i] : i \in (tail[p] + 1)..Len(lh)}
<1>1. \A q \in Procs : pc[q] = "install" => q = p
  BY DEF CommitAlone, Committers
<1>2. \A i \in 1..Len(lh) :
        (\A q \in Procs : pc[q] = "install" => i > tail[q]) <=> i > tail[p]
  BY <1>1
<1>3. tail[p] \in Nat /\ Len(lh) \in Nat
  BY ONLY SMTT(30), TypeOK DEF TypeOK
<1>4. {j \in 1..Len(lh) : \A q \in Procs : pc[q] = "install" => j > tail[q]}
        = (tail[p] + 1)..Len(lh)
  BY ONLY SMTT(30), <1>2, <1>3
<1> QED
  BY <1>4 DEF Pending

\* The data part holds at boot, after a recovery of an empty log.
LEMMA InitData == Init => DataInv
<1> SUFFICES ASSUME Init PROVE DataInv
  OBVIOUS
<1>1. BootClean /\ BootUnpinned
  BY LogAssumption DEF Init, BootClean, BootUnpinned, Content
<1>2. HeaderValid
  BY SMTT(30) DEF Init, HeaderValid, Injective
<1>3. CopiedSoFar
  BY DEF Init, CopiedSoFar
<1>4. PanicInOp /\ PinnedWhilePending
  BY DEF Init, PanicInOp, PinnedWhilePending
<1> QED
  BY <1>1, <1>2, <1>3, <1>4 DEF DataInv

\* Steps that move processes and touch neither disk nor cache nor log: a
\* process may only get to commit() at the start of write_log().
LEMMA FrameData ==
  ASSUME TypeOK, DataInv, ~panic, ~panic',
         UNCHANGED <<home, hdr, ldata, cache, pin, lh, phase, rtail>>,
         \A q \in Procs : pc'[q] = "commit" =>
           tail'[q] = 0 \/ (pc[q] = "commit" /\ tail'[q] = tail[q]),
         \A q \in Procs : /\ pc'[q] = "install" <=> pc[q] = "install"
                          /\ pc[q] = "install" => tail'[q] = tail[q]
  PROVE  DataInv'
<1> USE DEF DataInv
<1>1. \A b \in Blocks : Content(b)' = Content(b)
  BY DEF Content
<1>2. BootClean' /\ BootUnpinned'
  BY <1>1 DEF BootClean, BootUnpinned
<1>3. HeaderValid'
  BY SMTT(30) DEF HeaderValid, Injective
<1>4. CopiedSoFar'
  <2> SUFFICES ASSUME NEW q \in Procs
               PROVE  /\ pc'[q] = "commit" =>
                           tail'[q] <= Len(lh) /\ \A i \in 1..tail'[q] : ldata[i] = cache[lh[i]]
                      /\ pc'[q] = "install" =>
                           /\ tail'[q] <= Len(lh)
                           /\ \A i \in 1..Len(lh) : ldata[i] = Content(lh[i])'
                           /\ \A i \in 1..tail'[q] : home[lh[i]] = ldata[i]
    BY DEF CopiedSoFar
  <2>1. ASSUME pc'[q] = "commit"
        PROVE  tail'[q] <= Len(lh) /\ \A i \in 1..tail'[q] : ldata[i] = cache[lh[i]]
    <3>1. CASE tail'[q] = 0
      <4>1. 0 <= Len(lh) /\ 1..0 = {}
        BY ONLY SMTT(30) DEF TypeOK
      <4> QED
        BY <3>1, <4>1
    <3>2. CASE pc[q] = "commit" /\ tail'[q] = tail[q]
      BY <3>2 DEF CopiedSoFar
    <3> QED
      BY <2>1, <3>1, <3>2
  <2>2. ASSUME pc'[q] = "install"
        PROVE  /\ tail'[q] <= Len(lh)
               /\ \A i \in 1..Len(lh) : ldata[i] = Content(lh[i])'
               /\ \A i \in 1..tail'[q] : home[lh[i]] = ldata[i]
    <3>1. \A i \in 1..Len(lh) : lh[i] \in Blocks
      BY ONLY SMTT(30), TypeOK DEF TypeOK
    <3> QED
      BY SMTT(30), <2>2, <3>1, <1>1 DEF CopiedSoFar
  <2> QED
    BY <2>1, <2>2
<1>5. PinnedWhilePending'
  <2>1. Pending' = Pending
    BY DEF Pending
  <2> QED
    BY <2>1, <1>1 DEF PinnedWhilePending
<1> QED
  BY <1>2, <1>3, <1>4, <1>5 DEF PanicInOp

\* Steps of begin_op() and end_op(), and the end of a commit.
LEMMA OpData ==
  ASSUME TypeOK, Control, DataInv, NEW p \in Procs,
         call_op(p) \/ begin_op(p) \/ end_op(p) \/ end_commit(p)
  PROVE  DataInv'
<1> USE DEF Goto, disk, bcache, log, boot, Running
<1>1. CASE call_op(p)
  BY <1>1, FrameData DEF call_op, TypeOK
<1>2. CASE begin_op(p)
  BY <1>2, FrameData DEF begin_op, TypeOK
<1>3. CASE end_op(p)
  <2>1. ~committing /\ ~panic /\ ~panic'
    BY SMTT(30), <1>3, RoomToWrite DEF end_op
  <2>2. \A q \in Procs : pc'[q] = "commit" =>
          tail'[q] = 0 \/ (pc[q] = "commit" /\ tail'[q] = tail[q])
    BY <1>3, <2>1 DEF end_op, Woken, TypeOK
  <2>3. \A q \in Procs : /\ pc'[q] = "install" <=> pc[q] = "install"
                         /\ pc[q] = "install" => tail'[q] = tail[q]
    BY <1>3, <2>1 DEF end_op, Woken, TypeOK
  <2> QED
    BY <1>3, <2>1, <2>2, <2>3, FrameData DEF end_op
<1>4. CASE end_commit(p)
  BY <1>4, FrameData DEF end_commit, Woken, TypeOK
<1> QED
  BY <1>1, <1>2, <1>3, <1>4

\* log_write(): the buffer of a block that joins the log is pinned.
LEMMA WriteData ==
  ASSUME TypeOK, Control, DataInv,
         NEW p \in Procs, NEW b \in Blocks, NEW v \in Vals, log_write(p, b, v)
  PROVE  DataInv'
<1> USE DEF log_write, Running, boot, disk
<1>1. Active # {} /\ Committers = {} /\ phase = "up" /\ phase' = "up" /\ pc' = pc
  BY DEF Active, Control, CommitAlone
<1>2. \A q \in Procs : pc[q] # "commit" /\ pc[q] # "install"
  BY <1>1 DEF Committers
<1>3. BootClean' /\ BootUnpinned' /\ CopiedSoFar' /\ PanicInOp'
  BY <1>1, <1>2 DEF BootClean, BootUnpinned, CopiedSoFar, PanicInOp, Active
<1>4. hdr = <<>> /\ hdr' = <<>>
  BY <1>1, <1>2 DEF DataInv, HeaderValid
<1>5. Injective(lh) /\ Pending = Logged /\ Pending' = Logged'
  BY ONLY SMTT(30), DataInv, <1>1, <1>2, PendingAll DEF DataInv, HeaderValid, Pending, Logged
<1>6. CASE UNCHANGED lh /\ panic'
  BY ONLY SMTT(30), <1>1, <1>2, <1>3, <1>4, <1>5, <1>6 DEF DataInv, HeaderValid, Injective
<1>7. CASE ~panic'
  <2>1. Logged' = Logged \cup {b} /\ Injective(lh)'
    <3>1. CASE b \in Logged
      BY SMTT(30), <1>5, <1>7, <3>1 DEF Logged, Injective
    <3>2. CASE b \notin Logged
      <4>1. lh' = Append(lh, b)
        BY <1>7, <3>2
      <4>2. /\ Len(lh) \in Nat /\ Len(lh') = Len(lh) + 1 /\ lh'[Len(lh) + 1] = b
            /\ \A i \in 1..Len(lh) : lh'[i] = lh[i]
        BY ONLY SMTT(30), <4>1 DEF TypeOK
      <4>3. 1..Len(lh') = 1..Len(lh) \cup {Len(lh) + 1}
        BY ONLY SMTT(30), <4>2
      <4>4. \A i \in 1..Len(lh) : lh[i] # b
        BY <3>2 DEF Logged
      <4>5. Injective(lh)'
        BY ONLY SMTT(30), <1>5, <4>2, <4>3, <4>4 DEF Injective
      <4>6. Logged' = Logged \cup {b}
        BY ONLY SMTT(30), <4>2, <4>3 DEF Logged
      <4> QED
        BY <4>5, <4>6
    <3> QED
      BY <3>1, <3>2
  <2>2. HeaderValid'
    BY ONLY SMTT(30), <2>1, <1>1, <1>2, <1>4 DEF HeaderValid, Injective
  <2>3. PinnedWhilePending'
    <3> SUFFICES ASSUME NEW k \in Blocks
                 PROVE  /\ pin'[k] = IF k \in Logged' THEN 1 ELSE 0
                        /\ pin'[k] = 0 => Content(k)' = home'[k]
                        /\ pin'[k] > 0 => cache'[k] # NotCached
      BY <1>5 DEF PinnedWhilePending
    <3>1. /\ pin[k] = IF k \in Logged THEN 1 ELSE 0
          /\ pin[k] = 0 => Content(k) = home[k]
          /\ pin[k] > 0 => cache[k] # NotCached
      BY <1>1, <1>5, <1>7 DEF DataInv, PinnedWhilePending
    <3>2. pin' = IF b \in Logged THEN pin ELSE [pin EXCEPT ![b] = @ + 1]
      BY <1>7
    <3>3. cache' = [cache EXCEPT ![b] = v] /\ home' = home /\ v # NotCached
      BY LogAssumption
    <3>4. CASE k = b
      BY ONLY SMTT(30), TypeOK, <3>1, <3>2, <3>3, <3>4, <2>1 DEF TypeOK
    <3>5. CASE k # b
      BY <3>1, <3>2, <3>3, <3>5, <2>1 DEF TypeOK, Content
    <3> QED
      BY <3>4, <3>5
  <2> QED
    BY <1>3, <2>2, <2>3 DEF DataInv
<1> QED
  BY SMTT(30), <1>6, <1>7

\* write_log(): one more slot holds what is in the cache.
LEMMA WriteLogData ==
  ASSUME TypeOK, Control, DataInv, NEW p \in Procs, write_log(p)
  PROVE  DataInv'
<1> USE DEF write_log, Running, boot
<1> DEFINE t == tail[p]
           b == lh[t + 1]
<1>1. /\ t \in Nat /\ t < Len(lh) /\ Len(lh) \in Nat /\ Len(lh) <= LOGBLOCKS
      /\ b \in Blocks /\ b \in Logged
  <2>1. t \in Nat /\ t < Len(lh) /\ Len(lh) \in Nat /\ Len(lh) <= LOGBLOCKS
    BY SMTT(30), LogAssumption DEF TypeOK
  <2>2. t + 1 \in 1..Len(lh)
    BY ONLY SMTT(30), <2>1
  <2> QED
    BY ONLY SMTT(30), TypeOK, <2>1, <2>2 DEF TypeOK, Logged
<1>2. p \in Committers /\ \A q \in Procs : pc[q] \in {"commit", "install"} => q = p
  BY DEF Control, CommitAlone, Committers
<1>3. phase = "up" /\ ~panic /\ ~panic' /\ \A q \in Procs : pc[q] # "install"
  BY <1>2
<1>4. Pending = Logged /\ Pending' = Pending /\ Injective(lh)
  BY SMTT(30), <1>3, PendingAll DEF log, DataInv, HeaderValid, Pending
<1>5. cache[b] # NotCached /\ cache' = cache
  <2>1. cache[b] # NotCached
    BY ONLY SMTT(30), DataInv, <1>1, <1>3, <1>4 DEF DataInv, PinnedWhilePending
  <2>2. cache' = [cache EXCEPT ![b] = cache[b]]
    BY <2>1 DEF Content
  <2> QED
    BY <2>1, <2>2, <1>1 DEF TypeOK
<1>6. ldata' = [ldata EXCEPT ![t + 1] = cache[b]]
  BY <1>5 DEF Content
<1>7. BootClean' /\ BootUnpinned' /\ HeaderValid' /\ PanicInOp'
  BY SMTT(30), <1>3 DEF DataInv, BootClean, BootUnpinned, HeaderValid, Injective, PanicInOp, log
<1>8. PinnedWhilePending'
  BY <1>3, <1>4, <1>5 DEF DataInv, PinnedWhilePending, Content
<1>9. CopiedSoFar'
  <2>1. \A q \in Procs : pc'[q] \in {"commit", "install"} => q = p /\ pc'[q] = "commit"
    BY <1>2, <1>3
  <2>2. tail'[p] = t + 1 /\ lh' = lh
    BY DEF TypeOK, log
  <2>3. \A i \in 1..t : ldata[i] = cache[lh[i]]
    BY DEF DataInv, CopiedSoFar
  <2>4. \A i \in 1..(t + 1) : ldata'[i] = cache[lh[i]]
    <3> SUFFICES ASSUME NEW i \in 1..(t + 1) PROVE ldata'[i] = cache[lh[i]]
      OBVIOUS
    <3>1. i \in Slots /\ t + 1 \in Slots
      BY ONLY SMTT(30), <1>1, LogAssumption DEF Slots
    <3>2. i = t + 1 \/ (i # t + 1 /\ i \in 1..t)
      BY ONLY SMTT(30), <1>1
    <3> HIDE DEF t
    <3>3. ldata'[i] = IF i = t + 1 THEN cache[b] ELSE ldata[i]
      BY <3>1, <1>6 DEF TypeOK
    <3> QED
      BY <3>2, <3>3, <2>3
  <2>5. t + 1 <= Len(lh)
    BY ONLY SMTT(30), <1>1
  <2> QED
    BY ONLY SMTT(30), <2>1, <2>2, <2>4, <2>5, <1>5 DEF CopiedSoFar
<1> QED
  BY <1>7, <1>8, <1>9 DEF DataInv

\* write_head() at the commit point: every slot of the log is filled.
LEMMA WriteHeadData ==
  ASSUME TypeOK, Control, DataInv, NEW p \in Procs, write_head(p)
  PROVE  DataInv'
<1> USE DEF write_head, Running, boot, log, bcache, Goto
<1>1. \A q \in Procs : pc[q] \in {"commit", "install"} => q = p
  BY DEF Control, CommitAlone, Committers
<1>2. phase = "up" /\ ~panic /\ ~panic' /\ \A q \in Procs : pc[q] # "install"
  BY <1>1
<1>3. Pending = Logged /\ Injective(lh)
  BY <1>2, PendingAll DEF DataInv, HeaderValid
<1>4. tail'[p] = 0 /\ pc'[p] = "install" /\ \A q \in Procs \ {p} : pc'[q] = pc[q]
  BY DEF TypeOK
<1>5. BootClean' /\ BootUnpinned' /\ PanicInOp'
  BY <1>2 DEF BootClean, BootUnpinned, PanicInOp
<1>6. HeaderValid'
  BY <1>2, <1>3, <1>4 DEF HeaderValid, Injective
<1>7. Pending' = Pending
  BY SMTT(30), <1>1, <1>2, <1>4 DEF Pending, TypeOK
<1>8. PinnedWhilePending'
  BY <1>2, <1>7 DEF DataInv, PinnedWhilePending, Content
<1>9. CopiedSoFar'
  <2>1. \A q \in Procs : pc'[q] \in {"commit", "install"} => q = p
    BY <1>1, <1>4
  <2>2. \A i \in 1..Len(lh) : ldata[i] = Content(lh[i])
    <3> SUFFICES ASSUME NEW i \in 1..Len(lh) PROVE ldata[i] = Content(lh[i])
      OBVIOUS
    <3>1. ldata[i] = cache[lh[i]]
      BY DEF DataInv, CopiedSoFar
    <3>2. lh[i] \in Blocks /\ lh[i] \in Pending
      BY ONLY SMTT(30), TypeOK, <1>3 DEF TypeOK, Logged
    <3>3. cache[lh[i]] # NotCached
      BY ONLY SMTT(30), DataInv, <3>2, <1>2 DEF DataInv, PinnedWhilePending
    <3> QED
      BY <3>1, <3>3 DEF Content
  <2>3. 0 <= Len(lh) /\ 1..0 = {}
    BY ONLY SMTT(30) DEF TypeOK
  <2> QED
    BY <2>1, <2>2, <2>3, <1>4 DEF CopiedSoFar, Content
<1> QED
  BY <1>5, <1>6, <1>8, <1>9 DEF DataInv

\* install_trans(): one block of the log gets home and is unpinned.
LEMMA InstallData ==
  ASSUME TypeOK, Control, DataInv, NEW p \in Procs, install_trans(p)
  PROVE  DataInv'
<1> USE DEF install_trans, Running, boot, log
<1> DEFINE t == tail[p]
           b == lh[t + 1]
<1>1. t \in Nat /\ t < Len(lh) /\ Len(lh) \in Nat /\ t + 1 \in 1..Len(lh)
  <2>1. t \in Nat /\ t < Len(lh) /\ Len(lh) \in Nat
    BY SMTT(30) DEF TypeOK
  <2> QED
    BY ONLY SMTT(30), <2>1
<1>2. \A i \in 1..Len(lh) : lh[i] \in Blocks
  BY ONLY SMTT(30), TypeOK DEF TypeOK
<1>3. \A q \in Procs : pc[q] \in {"commit", "install"} => q = p
  BY DEF Control, CommitAlone, Committers
<1>4. phase = "up" /\ ~panic /\ ~panic' /\ Injective(lh) /\ lh' = lh
  BY DEF DataInv, HeaderValid
<1>5. tail'[p] = t + 1 /\ pc' = pc
  BY DEF TypeOK
<1>6. b \in Blocks /\ ldata[t + 1] = Content(b) /\ Content(b) \in Vals
  BY <1>1, <1>2 DEF DataInv, CopiedSoFar, Content, TypeOK
<1>7. \A k \in Blocks : /\ home'[k] = IF k = b THEN ldata[t + 1] ELSE home[k]
                        /\ cache'[k] = IF k = b THEN ldata[t + 1] ELSE cache[k]
                        /\ pin'[k] = IF k = b THEN pin[k] - 1 ELSE pin[k]
  BY <1>1, <1>2 DEF TypeOK
<1>8. \A k \in Blocks : Content(k)' = Content(k)
  <2> SUFFICES ASSUME NEW k \in Blocks PROVE Content(k)' = Content(k)
    OBVIOUS
  <2>1. NotCached \notin Vals
    BY LogAssumption
  <2>2. CASE k = b
    BY ONLY Zenon, <1>6, <1>7, <2>1, <2>2 DEF Content
  <2>3. CASE k # b
    BY ONLY Zenon, <1>7, <2>3 DEF Content
  <2> QED
    BY <2>2, <2>3
<1>9. BootClean' /\ BootUnpinned' /\ HeaderValid' /\ PanicInOp'
  <2>1. hdr' = hdr /\ pc' = pc /\ phase' = "up"
    BY <1>4, <1>5 DEF disk
  <2> QED
    BY ONLY SMTT(30), DataInv, <1>4, <2>1 DEF DataInv, BootClean, BootUnpinned, HeaderValid, Injective, PanicInOp
<1>10. CopiedSoFar'
  <2>1. \A i \in 1..Len(lh) : ldata[i] = Content(lh[i])
    BY DEF DataInv, CopiedSoFar
  <2>2. \A i \in 1..t : home[lh[i]] = ldata[i]
    BY DEF DataInv, CopiedSoFar
  <2>3. \A i \in 1..(t + 1) : home'[lh[i]] = ldata[i]
    <3> SUFFICES ASSUME NEW i \in 1..(t + 1) PROVE home'[lh[i]] = ldata[i]
      OBVIOUS
    <3>1. i \in 1..Len(lh) /\ (i = t + 1 \/ i \in 1..t)
      BY ONLY SMTT(30), <1>1
    <3>2. lh[i] = b => i = t + 1
      BY <3>1, <1>1, <1>4 DEF Injective
    <3> QED
      BY <3>1, <3>2, <2>2, <1>2, <1>7
  <2>4. \A q \in Procs : pc'[q] \in {"commit", "install"} => q = p /\ pc'[q] = "install"
    BY <1>3, <1>5
  <2>5. t + 1 <= Len(lh)
    BY ONLY SMTT(30), <1>1
  <2>6. \A i \in 1..Len(lh) : ldata[i] = Content(lh[i])'
    BY <2>1, <1>2, <1>8
  <2> QED
    BY <1>4, <1>5, <2>3, <2>4, <2>5, <2>6 DEF CopiedSoFar
<1>11. PinnedWhilePending'
  <2>1. Pending = {lh[i] : i \in (t + 1)..Len(lh)}
    BY PendingRest DEF Control
  <2>2. Pending' = {lh[i] : i \in (t + 2)..Len(lh)}
    <3>1. \A i \in 1..Len(lh) :
            (\A q \in Procs : pc'[q] = "install" => i > tail'[q]) <=> i > t + 1
      BY <1>3, <1>5
    <3>2. {j \in 1..Len(lh) : \A q \in Procs : pc'[q] = "install" => j > tail'[q]}
            = (t + 2)..Len(lh)
      BY ONLY SMTT(30), <1>1, <3>1
    <3> QED
      BY <1>4, <3>2 DEF Pending
  <2>3. (t + 1)..Len(lh) = {t + 1} \cup ((t + 2)..Len(lh))
    BY ONLY SMTT(30), <1>1
  <2>4. b \in Pending /\ b \notin Pending' /\ \A k \in Blocks \ {b} : k \in Pending <=> k \in Pending'
    <3>1. \A i \in (t + 2)..Len(lh) : i \in 1..Len(lh) /\ i # t + 1
      BY ONLY SMTT(30), <1>1
    <3> QED
      BY <2>1, <2>2, <2>3, <3>1, <1>1, <1>4 DEF Injective
  <2>5. \A k \in Blocks : /\ pin[k] = IF k \in Pending THEN 1 ELSE 0
                          /\ pin[k] = 0 => Content(k) = home[k]
                          /\ pin[k] > 0 => cache[k] # NotCached
    BY <1>4 DEF DataInv, PinnedWhilePending
  <2> SUFFICES ASSUME NEW k \in Blocks
               PROVE  /\ pin'[k] = IF k \in Pending' THEN 1 ELSE 0
                      /\ pin'[k] = 0 => Content(k)' = home'[k]
                      /\ pin'[k] > 0 => cache'[k] # NotCached
    BY DEF PinnedWhilePending
  <2>6. CASE k = b
    <3>1. pin'[k] = 0 /\ home'[k] = Content(k)
      BY ONLY SMTT(30), <2>4, <2>5, <2>6, <1>6, <1>7
    <3> QED
      BY ONLY SMTT(30), <3>1, <2>4, <2>6, <1>6, <1>8
  <2>7. CASE k # b
    BY ONLY SMTT(30), <2>4, <2>5, <2>7, <1>7, <1>8
  <2> QED
    BY <2>6, <2>7
<1> QED
  BY <1>9, <1>10, <1>11 DEF DataInv

\* log.lh.n = 0; write_head(): no block is left to install.
LEMMA EraseData ==
  ASSUME TypeOK, Control, DataInv, NEW p \in Procs, erase_log(p)
  PROVE  DataInv'
<1> USE DEF erase_log, Running, boot, bcache, Goto
<1>1. \A q \in Procs : pc[q] \in {"commit", "install"} => q = p
  BY DEF Control, CommitAlone, Committers
<1>2. phase = "up" /\ ~panic /\ ~panic' /\ Len(lh) \in Nat /\ lh' = <<>>
  BY SMTT(30) DEF TypeOK
<1>3. \A q \in Procs : pc'[q] # "commit" /\ pc'[q] # "install"
  BY <1>1 DEF TypeOK
<1>4. BootClean' /\ BootUnpinned' /\ HeaderValid' /\ CopiedSoFar' /\ PanicInOp'
  <2>1. phase' = "up" /\ hdr' = <<>>
    BY <1>2
  <2>2. Injective(<<>>)
    BY ONLY SMTT(30) DEF Injective
  <2> QED
    BY ONLY Zenon, <1>2, <1>3, <2>1, <2>2 DEF BootClean, BootUnpinned, HeaderValid, CopiedSoFar, PanicInOp
<1>5. Pending = {} /\ Pending' = {}
  <2>1. (tail[p] + 1)..Len(lh) = {}
    BY SMTT(30), <1>2
  <2>2. Pending = {}
    BY <2>1, PendingRest DEF Control
  <2>3. Pending' = {}
    BY ONLY SMTT(30), <1>2 DEF Pending
  <2> QED
    BY <2>2, <2>3
<1>6. PinnedWhilePending'
  BY <1>2, <1>5 DEF DataInv, PinnedWhilePending, Content
<1> QED
  BY <1>4, <1>6 DEF DataInv

\* recover_from_log(): log slots to home blocks, then an empty header.
LEMMA RecoverData ==
  ASSUME TypeOK, Control, DataInv, Recover
  PROVE  DataInv'
<1>1. /\ phase # "up" /\ \A q \in Procs : pc[q] = "idle" /\ pc'[q] = "idle"
      /\ ~panic /\ ~panic'
  BY SMTT(30) DEF Recover, read_head, recover_install, recover_clear, procs, Control, BootIdle
<1>2. CopiedSoFar' /\ PanicInOp'
  BY <1>1 DEF CopiedSoFar, PanicInOp
<1>3. CASE read_head
  <2>1. phase' = "install" /\ lh' = hdr /\ rtail = 0 /\ 1..0 = {} /\ 0 <= Len(hdr)
    BY ONLY SMTT(30), TypeOK, DataInv, <1>3 DEF read_head, DataInv, HeaderValid, TypeOK
  <2>2. HeaderValid'
    BY <1>3, <2>1 DEF read_head, disk, DataInv, HeaderValid, Injective
  <2>3. BootClean' /\ BootUnpinned' /\ PinnedWhilePending'
    BY <1>3, <2>1 DEF read_head, disk, bcache, DataInv, BootClean, BootUnpinned, Content,
                      PinnedWhilePending
  <2> QED
    BY <1>2, <2>2, <2>3 DEF DataInv
<1>4. CASE recover_install
  <2> DEFINE t == rtail
             b == lh[t + 1]
  <2>1. t \in Nat /\ t < Len(lh) /\ Len(lh) \in Nat
    BY ONLY SMTT(30), TypeOK, <1>4 DEF recover_install, TypeOK
  <2>2. t + 1 \in 1..Len(lh) /\ t + 1 <= Len(lh) /\ t + 1 \in Slots
    BY ONLY SMTT(30), TypeOK, <2>1, LogAssumption DEF TypeOK, Slots
  <2>3. \A i \in 1..Len(lh) : lh[i] \in Blocks
    BY ONLY SMTT(30), TypeOK DEF TypeOK
  <2>4. \A k \in Blocks : /\ home'[k] = IF k = b THEN ldata[t + 1] ELSE home[k]
                          /\ cache'[k] = IF k = b THEN ldata[t + 1] ELSE cache[k]
    BY <1>4, <2>2, <2>3 DEF recover_install, TypeOK
  <2>5. /\ phase = "install" /\ phase' = "install" /\ lh' = lh /\ hdr' = hdr /\ ldata' = ldata
        /\ pin' = pin /\ rtail' = t + 1 /\ Injective(lh) /\ Injective(hdr) /\ lh = hdr
        /\ \A i \in 1..t : home[lh[i]] = ldata[i]
    BY <1>4 DEF recover_install, log, DataInv, HeaderValid
  <2>6. ldata[t + 1] \in Vals /\ ldata[t + 1] # NotCached
    BY <2>2, LogAssumption DEF TypeOK
  <2>7. BootClean' /\ BootUnpinned' /\ PinnedWhilePending'
    BY ONLY SMTT(30), DataInv, <2>4, <2>5, <2>6 DEF DataInv, BootClean, BootUnpinned, Content, PinnedWhilePending
  <2>8. \A i \in 1..(t + 1) : home'[lh[i]] = ldata[i]
    <3> SUFFICES ASSUME NEW i \in 1..(t + 1) PROVE home'[lh[i]] = ldata[i]
      OBVIOUS
    <3>1. i \in 1..Len(lh) /\ (i = t + 1 \/ i \in 1..t)
      BY ONLY SMTT(30), <2>1
    <3>2. lh[i] = b => i = t + 1
      BY <3>1, <2>2, <2>5 DEF Injective
    <3> QED
      BY <3>1, <3>2, <2>3, <2>4, <2>5
  <2>9. HeaderValid'
    BY ONLY SMTT(30), <2>2, <2>5, <2>8 DEF HeaderValid, Injective
  <2> QED
    BY <1>2, <2>7, <2>9 DEF DataInv
<1>5. CASE recover_clear
  <2>1. phase' = "up" /\ lh' = <<>> /\ hdr' = <<>> /\ Logged' = {}
    BY ONLY SMTT(30), <1>5 DEF recover_clear, Logged
  <2>2. Pending' = {}
    BY ONLY SMTT(30), <2>1 DEF Pending
  <2>3. HeaderValid'
    BY ONLY SMTT(30), <1>1, <2>1 DEF HeaderValid, Injective
  <2>4. BootClean' /\ BootUnpinned' /\ PinnedWhilePending'
    BY ONLY SMTT(30), DataInv, <1>1, <1>5, <2>1, <2>2 DEF recover_clear, bcache, DataInv, BootClean, BootUnpinned,
                           Content, PinnedWhilePending
  <2> QED
    BY <1>2, <2>3, <2>4 DEF DataInv
<1> QED
  BY <1>3, <1>4, <1>5 DEF Recover

\* bread() fills a buffer from the disk; bget() recycles only what is not
\* pinned: neither changes what a reader of a block gets.
LEMMA CacheData ==
  ASSUME TypeOK, Control, DataInv, NEW b \in Blocks, bread(b) \/ recycle(b)
  PROVE  DataInv' /\ \A k \in Blocks : Content(k)' = Content(k)
<1> USE DEF disk, log, procs, boot, Running
<1>1. /\ ~panic /\ ~panic' /\ \A k \in Blocks \ {b} : cache'[k] = cache[k]
      /\ UNCHANGED <<home, hdr, ldata, pin, lh, pc, tail, phase, rtail>>
  BY SMTT(30) DEF bread, recycle, TypeOK
<1>2. Content(b)' = Content(b)
  <2>1. CASE bread(b)
    BY <2>1 DEF bread, Content, TypeOK
  <2>2. CASE recycle(b)
    BY <2>2 DEF recycle, Content, TypeOK, DataInv, BootClean, PinnedWhilePending
  <2> QED
    BY <2>1, <2>2
<1>3. \A k \in Blocks : Content(k)' = Content(k)
  BY <1>1, <1>2 DEF Content
<1>4. Pending' = Pending
  BY <1>1 DEF Pending
<1>5. phase = "up" => \A k \in Pending : cache[k] # NotCached /\ cache'[k] = cache[k]
  <2> SUFFICES ASSUME phase = "up", NEW k \in Pending
               PROVE  cache[k] # NotCached /\ cache'[k] = cache[k]
    OBVIOUS
  <2>1. k \in Blocks
    <3>1. lh \in Seq(Blocks)
      BY DEF TypeOK
    <3>2. PICK i \in 1..Len(lh) : lh[i] = k
      BY DEF Pending
    <3> QED
      BY ONLY SMTT(30), <3>1, <3>2
  <2>2. pin[k] = 1 /\ cache[k] # NotCached
    <3>1. /\ pin[k] = IF k \in Pending THEN 1 ELSE 0
          /\ pin[k] > 0 => cache[k] # NotCached
      BY <1>1, <2>1 DEF DataInv, PinnedWhilePending
    <3> QED
      BY ONLY SMTT(30), <3>1, k \in Pending
  <2> QED
    <3>1. CASE bread(b)
      BY <2>1, <2>2, <3>1 DEF bread, TypeOK
    <3>2. CASE recycle(b)
      <4>1. b # k
        BY ONLY SMTT(30), <2>2, <3>2 DEF recycle
      <4> QED
        BY <2>1, <2>2, <3>2, <4>1 DEF recycle, TypeOK
    <3> QED
      BY <3>1, <3>2
<1>6. BootClean' /\ BootUnpinned' /\ HeaderValid' /\ PanicInOp'
  BY ONLY SMTT(30), DataInv, <1>1, <1>3 DEF DataInv, BootClean, BootUnpinned, HeaderValid, Injective, PanicInOp
<1>7. PinnedWhilePending'
  <2> SUFFICES ASSUME phase = "up", NEW k \in Blocks
               PROVE  /\ pin'[k] = IF k \in Pending' THEN 1 ELSE 0
                      /\ pin'[k] = 0 => Content(k)' = home'[k]
                      /\ pin'[k] > 0 => cache'[k] # NotCached
    BY <1>1 DEF PinnedWhilePending
  <2>1. /\ pin[k] = IF k \in Pending THEN 1 ELSE 0
        /\ pin[k] = 0 => Content(k) = home[k]
    BY <1>1 DEF DataInv, PinnedWhilePending
  <2>2. pin[k] > 0 => k \in Pending
    BY ONLY SMTT(30), <2>1
  <2> QED
    BY <1>1, <1>3, <1>4, <1>5, <2>1, <2>2
<1>8. CopiedSoFar'
  <2>1. ASSUME NEW q \in Procs, pc[q] = "commit", NEW i \in 1..tail[q]
        PROVE  ldata[i] = cache'[lh[i]]
    <3>1. phase = "up" /\ \A r \in Procs : pc[r] # "install"
      BY <2>1 DEF Control, CommitAlone, Committers, BootIdle
    <3>2. tail[q] \in Nat /\ Len(lh) \in Nat /\ tail[q] <= Len(lh)
      BY ONLY SMTT(30), TypeOK, DataInv, <2>1 DEF DataInv, CopiedSoFar, TypeOK
    <3>3. i \in 1..Len(lh)
      BY ONLY SMTT(30), <3>2
    <3>4. lh[i] \in Pending
      BY <3>1, <3>3, PendingAll DEF Logged
    <3> QED
      BY <2>1, <3>1, <3>4, <1>5 DEF DataInv, CopiedSoFar
  <2>2. \A i \in 1..Len(lh) : Content(lh[i])' = Content(lh[i])
    <3>1. \A i \in 1..Len(lh) : lh[i] \in Blocks
      BY ONLY SMTT(30), TypeOK DEF TypeOK
    <3> QED
      BY <3>1, <1>1, <1>3 DEF Content
  <2>3. CopiedSoFar
    BY DEF DataInv
  <2> QED
    BY <2>1, <2>2, <2>3, <1>1 DEF CopiedSoFar
<1> QED
  BY <1>3, <1>6, <1>7, <1>8 DEF DataInv

\* A crash leaves the header and an empty cache.
LEMMA CrashData ==
  ASSUME DataInv, crash
  PROVE  DataInv'
<1> USE DEF crash, Booted
<1>1. BootClean' /\ BootUnpinned'
  BY DEF BootClean, BootUnpinned, Content
<1>2. HeaderValid'
  BY SMTT(30) DEF DataInv, HeaderValid, Injective
<1>3. CopiedSoFar' /\ PanicInOp' /\ PinnedWhilePending'
  BY DEF CopiedSoFar, PanicInOp, PinnedWhilePending
<1> QED
  BY <1>1, <1>2, <1>3 DEF DataInv

\* Every step, a crash at any point included, keeps the data part.
LEMMA NextData == TypeOK /\ Control /\ DataInv /\ [Next]_vars => DataInv'
<1> SUFFICES ASSUME TypeOK, Control, DataInv, [Next]_vars PROVE DataInv'
  OBVIOUS
<1>1. CASE Recover
  BY <1>1, RecoverData
<1>2. ASSUME NEW p \in Procs, call_op(p) \/ Step(p) PROVE DataInv'
  BY <1>2, OpData, WriteLogData, WriteHeadData, InstallData, EraseData DEF Step
<1>3. ASSUME NEW p \in Procs, NEW b \in Blocks, NEW v \in Vals, log_write(p, b, v)
      PROVE  DataInv'
  BY <1>3, WriteData
<1>4. ASSUME NEW b \in Blocks, bread(b) \/ recycle(b) PROVE DataInv'
  BY <1>4, CacheData
<1>5. CASE crash
  BY <1>5, CrashData
<1>6. CASE UNCHANGED vars
  <2>1. UNCHANGED <<home, hdr, ldata, cache, pin, lh, pc, tail, phase, rtail, panic>>
    BY <1>6 DEF vars, disk, bcache, log, procs, boot
  <2>2. Pending' = Pending /\ Active' = Active /\ \A k : Content(k)' = Content(k)
    BY <2>1 DEF Pending, Active, Content
  <2>3. BootClean' /\ BootUnpinned' /\ PanicInOp'
    BY <2>1, <2>2 DEF DataInv, BootClean, BootUnpinned, PanicInOp
  <2>4. HeaderValid'
    BY <2>1 DEF DataInv, HeaderValid, Injective
  <2>5. CopiedSoFar'
    BY <2>1, <2>2 DEF DataInv, CopiedSoFar
  <2>6. (~panic => PinnedWhilePending)'
    BY <2>1, <2>2 DEF DataInv, PinnedWhilePending
  <2> QED
    BY <2>3, <2>4, <2>5, <2>6 DEF DataInv
<1> QED
  BY <1>1, <1>2, <1>3, <1>4, <1>5, <1>6 DEF Next

\* The types, the control part and the data part hold in every behaviour.
LEMMA DataInvariant == Spec => [](TypeOK /\ Control /\ DataInv)
<1>1. TypeOK /\ Control /\ DataInv /\ [Next]_vars => DataInv'
  BY NextData
<1> QED
  BY <1>1, InitData, ControlInvariant, PTL DEF Spec

\* If operations stay strictly below the MAXOPBLOCKS distinct blocks begin_op()
\* reserves for them, the whole inductive invariant of log.c holds: who is in
\* the log, and what is on disk and in the cache at each step of commit() and
\* of recovery.
THEOREM LogInvariant == ASSUME OpBlocks < MAXOPBLOCKS PROVE Spec => []LogInv
<1>1. TypeOK /\ Control /\ DataInv /\ NoPanic => LogInv
  BY DEF DataInv, NoPanic, LogInv, Data
<1> QED
  BY <1>1, DataInvariant, PanicFree, PTL

\* With an empty header the disk itself is what recovery restores.
LEMMA DurableHome ==
  ASSUME hdr = <<>> PROVE \A b \in Blocks : Durable[b] = home[b]
BY SMTT(30) DEF Durable

\* A block the header names is restored from its slot, the only one it has.
LEMMA DurableSlot ==
  ASSUME TypeOK, Injective(hdr), NEW i \in 1..Len(hdr)
  PROVE  Durable[hdr[i]] = ldata[i]
<1>1. hdr[i] \in Blocks
  BY ONLY SMTT(30), TypeOK DEF TypeOK
<1>2. (CHOOSE j \in 1..Len(hdr) : hdr[j] = hdr[i]) = i
  BY DEF Injective
<1> QED
  BY <1>1, <1>2 DEF Durable

\* The others keep what their home block holds.
LEMMA DurableRest ==
  ASSUME NEW b \in Blocks, \A i \in 1..Len(hdr) : hdr[i] # b
  PROVE  Durable[b] = home[b]
BY DEF Durable

\* When end_op() returns from commit(), a crash can no longer undo anything
\* the operations of the transaction wrote.
THEOREM DurableAtReturn == Spec => []DurableOnReturn
<1>1. TypeOK /\ Control /\ DataInv => DurableOnReturn
  <2> SUFFICES ASSUME TypeOK, Control, DataInv, NEW p \in Procs, pc[p] = "end"
               PROVE  Durable = Volatile
    BY DEF DurableOnReturn
  <2>1. Active = {} /\ phase = "up" /\ \A q \in Procs : pc[q] # "install" /\ pc[q] # "commit"
    BY DEF Control, CommitAlone, Committers, BootIdle
  <2>2. ~panic /\ hdr = <<>>
    BY <2>1 DEF DataInv, PanicInOp, HeaderValid
  <2>3. lh = <<>>
    BY <2>1 DEF Control, LogOwned, CommitAlone, Committers
  <2>4. Pending = {}
    BY ONLY SMTT(30), <2>3 DEF Pending
  <2>5. \A b \in Blocks : Content(b) = home[b]
    BY <2>1, <2>2, <2>4 DEF DataInv, PinnedWhilePending
  <2>6. \A b \in Blocks : Durable[b] = Volatile[b]
    BY <2>1, <2>2, <2>5, DurableHome DEF Volatile
  <2> QED
    BY <2>6 DEF Durable, Volatile
<1> QED
  BY <1>1, DataInvariant, PTL

-----------------------------------------------------------------------------
(* Refinement: the abstract disk changes at write_head() and nowhere else. *)

\* The durable contents are the same when those of every block are.
LEMMA SameDurable ==
  ASSUME \A b \in Blocks : Durable'[b] = Durable[b] PROVE Durable' = Durable
BY DEF Durable

\* So are the contents that the file system reads.
LEMMA SameVolatile ==
  ASSUME \A b \in Blocks : Volatile'[b] = Volatile[b] PROVE Volatile' = Volatile
BY DEF Volatile

\* The log starts as the abstract disk does.
LEMMA InitRefines == Init => AD!Init
<1> SUFFICES ASSUME Init PROVE AD!Init
  OBVIOUS
<1>1. Durable = home
  <2>1. \A b \in Blocks : Durable[b] = home[b]
    BY DurableHome DEF Init
  <2> QED
    BY SMTT(30), <2>1 DEF Init, Durable
<1>2. Volatile = Durable
  BY DEF Init, Volatile, Durable
<1>3. Active = {}
  BY DEF Init, Active
<1> QED
  BY <1>1, <1>2, <1>3 DEF Init, AD!Init

\* recover_from_log() only moves to the home blocks what a second crash would
\* find in the log again.
LEMMA RecoverRefines ==
  ASSUME TypeOK, Control, DataInv, Recover
  PROVE  UNCHANGED AD!vars
<1>1. Active' = Active /\ phase # "up"
  BY DEF Recover, read_head, recover_install, recover_clear, procs, Active
<1>2. CASE read_head
  <2>1. Durable' = Durable /\ phase' # "up"
    BY <1>2 DEF read_head, disk, Durable
  <2>2. Volatile' = Volatile
    BY <1>1, <2>1 DEF Volatile
  <2> QED
    BY <1>1, <2>1, <2>2 DEF AD!vars
<1>3. CASE recover_install
  <2>1. /\ lh = hdr /\ hdr' = hdr /\ ldata' = ldata /\ phase' # "up"
        /\ rtail \in Nat /\ rtail < Len(lh) /\ Len(lh) \in Nat
    BY ONLY SMTT(30), TypeOK, DataInv, <1>3 DEF recover_install, TypeOK, DataInv, HeaderValid
  <2>2. rtail + 1 \in 1..Len(hdr)
    BY ONLY SMTT(30), <2>1
  <2>3. \A b \in Blocks : (\A i \in 1..Len(hdr) : hdr[i] # b) => home'[b] = home[b]
    BY <1>3, <2>1, <2>2 DEF recover_install, TypeOK
  <2>4. Durable' = Durable
    BY <2>1, <2>3 DEF Durable
  <2>5. Volatile' = Volatile
    BY <1>1, <2>1, <2>4 DEF Volatile
  <2> QED
    BY <1>1, <2>4, <2>5 DEF AD!vars
<1>4. CASE recover_clear
  <2>1. /\ lh = hdr /\ hdr' = <<>> /\ home' = home /\ cache' = cache /\ phase' = "up"
        /\ rtail = Len(lh)
    BY <1>4 DEF recover_clear, bcache, DataInv, HeaderValid
  <2>2. \A b \in Blocks : Durable[b] = home[b]
    <3> SUFFICES ASSUME NEW b \in Blocks PROVE Durable[b] = home[b]
      OBVIOUS
    <3>1. CASE \E i \in 1..Len(hdr) : hdr[i] = b
      <4>1. PICK i \in 1..Len(hdr) : hdr[i] = b
        BY <3>1
      <4>2. home[hdr[i]] = ldata[i]
        BY <2>1, <1>4 DEF recover_clear, DataInv, HeaderValid
      <4> QED
        BY <4>1, <4>2, DurableSlot DEF DataInv, HeaderValid
    <3> QED
      BY <3>1, DurableRest
  <2>3. \A b \in Blocks : Durable'[b] = home[b]
    BY ONLY SMTT(30), <2>1 DEF Durable
  <2>4. \A b \in Blocks : Volatile'[b] = home[b]
    BY <1>1, <2>1 DEF Volatile, Content, DataInv, BootClean
  <2>5. \A b \in Blocks : Volatile[b] = home[b]
    BY <1>1, <2>2 DEF Volatile
  <2> QED
    BY <1>1, <2>2, <2>3, <2>4, <2>5, SameDurable, SameVolatile DEF AD!vars
<1> QED
  BY <1>2, <1>3, <1>4 DEF Recover

\* A step that touches no block, no header and no phase changes neither.
LEMMA FrameRefines ==
  ASSUME UNCHANGED <<home, hdr, ldata, cache, phase>>
  PROVE  Durable' = Durable /\ Volatile' = Volatile
<1>1. Durable' = Durable
  BY DEF Durable
<1>2. \A b \in Blocks : Content(b)' = Content(b)
  BY DEF Content
<1> QED
  BY <1>1, <1>2 DEF Volatile

\* begin_op() and end_op() only enter and leave an operation.
LEMMA OpRefines ==
  ASSUME TypeOK, Control, NEW p \in Procs,
         call_op(p) \/ begin_op(p) \/ end_op(p) \/ end_commit(p)
  PROVE  AD!Begin(p) \/ AD!End(p) \/ UNCHANGED AD!vars
<1> USE DEF Goto, disk, bcache, boot, Running
<1>1. Durable' = Durable /\ Volatile' = Volatile
  <2>1. UNCHANGED <<home, hdr, ldata, cache, phase>>
    BY DEF call_op, begin_op, end_op, end_commit
  <2> QED
    BY <2>1, FrameRefines
<1>2. CASE call_op(p)
  <2>1. Active' = Active
    BY <1>2 DEF call_op, Active, TypeOK
  <2> QED
    BY <1>1, <2>1 DEF AD!vars
<1>3. CASE begin_op(p)
  <2>1. CASE pc' = [pc EXCEPT ![p] = "sleep"]
    <3>1. Active' = Active
      BY <1>3, <2>1 DEF begin_op, Active, TypeOK
    <3> QED
      BY <1>1, <3>1 DEF AD!vars
  <2>2. CASE pc' = [pc EXCEPT ![p] = "op"]
    <3>1. p \notin Active /\ Active' = Active \cup {p}
      BY ONLY SMTT(30), TypeOK, <1>3, <2>2 DEF begin_op, Active, TypeOK
    <3> QED
      BY <1>1, <3>1 DEF AD!Begin
  <2> QED
    BY <1>3, <2>1, <2>2 DEF begin_op
<1>4. CASE end_op(p)
  <2>1. ~committing
    BY <1>4, RoomToWrite DEF end_op
  <2>2. p \in Active /\ Active' = Active \ {p}
    BY <1>4, <2>1 DEF end_op, Woken, Active, TypeOK
  <2> QED
    BY <1>1, <2>2 DEF AD!End
<1>5. CASE end_commit(p)
  <2>1. Active' = Active
    BY <1>5 DEF end_commit, Woken, Active, TypeOK
  <2> QED
    BY <1>1, <2>1 DEF AD!vars
<1> QED
  BY <1>2, <1>3, <1>4, <1>5

\* log_write() changes what readers see, and not the disk.
LEMMA WriteRefines ==
  ASSUME TypeOK, NEW p \in Procs, NEW b \in Blocks, NEW v \in Vals, log_write(p, b, v)
  PROVE  AD!Write(p, b, v)
<1> USE DEF log_write, Running, boot, disk
<1>1. p \in Active /\ Active' = Active
  BY DEF Active
<1>2. Durable' = Durable
  BY DEF Durable
<1>3. phase = "up" /\ phase' = "up" /\ home' = home
  OBVIOUS
<1>4. \A k \in Blocks : Volatile'[k] = IF k = b THEN v ELSE Volatile[k]
  <2>1. \A k \in Blocks : cache'[k] = IF k = b THEN v ELSE cache[k]
    BY DEF TypeOK
  <2>2. v # NotCached
    BY LogAssumption
  <2> QED
    BY <1>3, <2>1, <2>2 DEF Volatile, Content
<1>5. Volatile' = [Volatile EXCEPT ![b] = v]
  BY <1>4 DEF Volatile
<1> QED
  BY <1>1, <1>2, <1>5 DEF AD!Write

\* Filling the log changes nothing a reader or a recovery would see.
LEMMA WriteLogRefines ==
  ASSUME TypeOK, Control, DataInv, NEW p \in Procs, write_log(p)
  PROVE  UNCHANGED AD!vars
<1> USE DEF write_log, Running, boot, log
<1>1. phase = "up" /\ phase' = "up" /\ home' = home /\ hdr' = hdr /\ Active' = Active
  BY DEF Active
<1>2. hdr = <<>>
  BY <1>1 DEF Control, CommitAlone, Committers, DataInv, HeaderValid
<1>3. Durable' = Durable
  BY ONLY SMTT(30), <1>1, <1>2 DEF Durable
<1>4. tail[p] \in Nat /\ tail[p] < Len(lh) /\ Len(lh) \in Nat
  BY SMTT(30) DEF TypeOK
<1>5. tail[p] + 1 \in 1..Len(lh)
  BY ONLY SMTT(30), <1>4
<1>6. lh[tail[p] + 1] \in Blocks
  BY ONLY SMTT(30), TypeOK, <1>5 DEF TypeOK
<1>7. \A k \in Blocks : cache'[k] = IF k = lh[tail[p] + 1] THEN Content(k) ELSE cache[k]
  BY <1>6 DEF TypeOK
<1>8. \A k \in Blocks : Content(k)' = Content(k)
  BY <1>1, <1>7 DEF Content
<1>9. Volatile' = Volatile
  BY <1>1, <1>8 DEF Volatile
<1> QED
  BY <1>1, <1>3, <1>9 DEF AD!vars

\* write_head() is the commit point.
LEMMA WriteHeadRefines ==
  ASSUME TypeOK, Control, DataInv, NEW p \in Procs, write_head(p)
  PROVE  AD!Commit
<1> USE DEF write_head, Running, boot, log, bcache, Goto
<1>1. /\ phase = "up" /\ phase' = "up" /\ ~panic /\ home' = home /\ hdr' = lh /\ ldata' = ldata
      /\ cache' = cache /\ Injective(lh)
  BY DEF DataInv, HeaderValid
<1>2. Active = {} /\ \A q \in Procs : pc[q] # "install"
  BY DEF Control, CommitAlone, Committers
<1>3. Active' = {}
  BY <1>2 DEF Active, TypeOK
<1>4. \A k \in Blocks : Content(k)' = Content(k)
  BY <1>1 DEF Content
<1>5. Volatile' = Volatile
  BY <1>1, <1>4 DEF Volatile
<1>6. Pending = Logged
  BY <1>2, PendingAll
<1>7. \A b \in Blocks : Durable'[b] = Volatile[b]
  <2> SUFFICES ASSUME NEW b \in Blocks PROVE Durable'[b] = Content(b)
    BY <1>1 DEF Volatile
  <2>1. /\ pin[b] = IF b \in Logged THEN 1 ELSE 0
        /\ pin[b] = 0 => Content(b) = home[b]
        /\ pin[b] > 0 => cache[b] # NotCached
    BY <1>1, <1>6 DEF DataInv, PinnedWhilePending
  <2>2. CASE b \in Logged
    <3>1. PICK i \in 1..Len(lh) : lh[i] = b
      BY <2>2 DEF Logged
    <3>2. (CHOOSE j \in 1..Len(lh) : lh[j] = b) = i
      BY <1>1, <3>1 DEF Injective
    <3>3. Durable'[b] = ldata[i]
      BY <1>1, <3>1, <3>2 DEF Durable
    <3>4. ldata[i] = cache[b]
      BY <3>1 DEF DataInv, CopiedSoFar
    <3> QED
      BY ONLY SMTT(30), <2>1, <2>2, <3>3, <3>4 DEF Content
  <2>3. CASE b \notin Logged
    <3>1. \A i \in 1..Len(lh) : lh[i] # b
      BY <2>3 DEF Logged
    <3>2. Durable'[b] = home[b]
      BY <1>1, <3>1 DEF Durable
    <3> QED
      BY <2>1, <2>3, <3>2
  <2> QED
    BY <2>2, <2>3
<1>8. Durable' = Volatile
  BY SMTT(30), <1>7 DEF Durable, Volatile
<1> QED
  BY <1>2, <1>3, <1>5, <1>8 DEF AD!Commit

\* A home block is overwritten only while the header still names it, and with
\* what readers see already.
LEMMA InstallRefines ==
  ASSUME TypeOK, Control, DataInv, NEW p \in Procs, install_trans(p)
  PROVE  UNCHANGED AD!vars
<1> USE DEF install_trans, Running, boot, log
<1>1. /\ phase = "up" /\ phase' = "up" /\ hdr' = hdr /\ hdr = lh /\ ldata' = ldata
      /\ Active' = Active
  BY DEF Active, DataInv, HeaderValid
<1>2. tail[p] \in Nat /\ tail[p] < Len(lh) /\ Len(lh) \in Nat
  BY SMTT(30) DEF TypeOK
<1>3. tail[p] + 1 \in 1..Len(lh)
  BY SMTT(30), <1>2
<1>4. lh[tail[p] + 1] \in Blocks /\ ldata[tail[p] + 1] = Content(lh[tail[p] + 1])
  BY SMTT(30), <1>3 DEF TypeOK, DataInv, CopiedSoFar
<1>5. \A k \in Blocks :
        IF k = lh[tail[p] + 1] THEN cache'[k] = Content(k)
                               ELSE cache'[k] = cache[k] /\ home'[k] = home[k]
  BY <1>4 DEF TypeOK
<1>6. \A k \in Blocks : Content(k) # NotCached
  BY LogAssumption DEF TypeOK, Content
<1>7. \A k \in Blocks : Content(k)' = Content(k)
  BY ONLY SMTT(30), <1>5, <1>6 DEF Content
<1>8. Volatile' = Volatile
  BY <1>1, <1>7 DEF Volatile
<1>9. \A k \in Blocks : (\A i \in 1..Len(hdr) : hdr[i] # k) => home'[k] = home[k]
  BY <1>1, <1>3, <1>5
<1>10. Durable' = Durable
  BY ONLY SMTT(30), <1>1, <1>9 DEF Durable
<1> QED
  BY <1>1, <1>8, <1>10 DEF AD!vars

\* The header is emptied only when every block it names is home.
LEMMA EraseRefines ==
  ASSUME TypeOK, Control, DataInv, NEW p \in Procs, erase_log(p)
  PROVE  UNCHANGED AD!vars
<1> USE DEF erase_log, Running, boot, bcache, Goto
<1>1. /\ phase = "up" /\ phase' = "up" /\ hdr = lh /\ hdr' = <<>> /\ home' = home
      /\ cache' = cache /\ Injective(hdr)
  BY DEF DataInv, HeaderValid
<1>2. Active' = Active
  BY DEF Active, TypeOK
<1>3. \A k \in Blocks : Content(k)' = Content(k)
  BY <1>1 DEF Content
<1>4. Volatile' = Volatile
  BY <1>1, <1>3 DEF Volatile
<1>5. \A b \in Blocks : Durable[b] = home[b]
  <2> SUFFICES ASSUME NEW b \in Blocks PROVE Durable[b] = home[b]
    OBVIOUS
  <2>1. CASE \E i \in 1..Len(hdr) : hdr[i] = b
    <3>1. PICK i \in 1..Len(hdr) : hdr[i] = b
      BY <2>1
    <3>2. home[hdr[i]] = ldata[i]
      BY <1>1 DEF DataInv, CopiedSoFar
    <3> QED
      BY <1>1, <3>1, <3>2, DurableSlot
  <2> QED
    BY <2>1, DurableRest
<1>6. \A b \in Blocks : Durable'[b] = home[b]
  BY ONLY SMTT(30), <1>1 DEF Durable
<1> QED
  BY <1>2, <1>4, <1>5, <1>6, SameDurable DEF AD!vars

\* Reading a block into the cache, or recycling its buffer, is no step of the
\* disk.
LEMMA CacheRefines ==
  ASSUME TypeOK, Control, DataInv, NEW b \in Blocks, bread(b) \/ recycle(b)
  PROVE  UNCHANGED AD!vars
<1>1. UNCHANGED <<home, hdr, ldata, phase, pc>>
  BY DEF bread, recycle, disk, boot, procs
<1>2. Durable' = Durable /\ Active' = Active
  BY <1>1 DEF Durable, Active
<1>3. Volatile' = Volatile
  BY <1>1, <1>2, CacheData DEF Volatile
<1> QED
  BY <1>2, <1>3 DEF AD!vars

\* A crash tears only what recovery rewrites or never looks at: a home block
\* the header names, or a slot of a log whose header is empty.
LEMMA CrashRefines ==
  ASSUME TypeOK, Control, DataInv, crash
  PROVE  AD!Crash
<1> USE DEF crash, Booted
<1>1. Active' = {} /\ phase' # "up" /\ hdr' = hdr
  BY DEF Active
<1>2. \A b \in TornHome : \E i \in 1..Len(hdr) : hdr[i] = b
  <2>1. ASSUME NEW q \in Procs, pc[q] = "install", tail[q] < Len(lh)
        PROVE  hdr = lh /\ tail[q] + 1 \in 1..Len(lh)
    BY ONLY SMTT(30), TypeOK, Control, DataInv, <2>1 DEF TypeOK, Control, BootIdle, DataInv, HeaderValid
  <2>2. ASSUME phase = "install", rtail < Len(lh)
        PROVE  hdr = lh /\ rtail + 1 \in 1..Len(lh)
    BY ONLY SMTT(30), TypeOK, DataInv, <2>2 DEF TypeOK, DataInv, HeaderValid
  <2> QED
    BY <2>1, <2>2 DEF TornHome
<1>3. TornSlot # {} => hdr = <<>>
  <2> SUFFICES ASSUME NEW q \in Procs, pc[q] = "commit" PROVE hdr = <<>>
    BY DEF TornSlot
  <2>1. phase = "up" /\ \A r \in Procs : pc[r] # "install"
    BY DEF Control, CommitAlone, Committers, BootIdle
  <2> QED
    BY <2>1 DEF DataInv, HeaderValid
<1>4. Durable' = Durable
  <2>1. CASE UNCHANGED <<home, ldata>>
    BY <2>1, <1>1 DEF Durable
  <2>2. ASSUME NEW b \in TornHome, NEW v \in Vals,
               home' = [home EXCEPT ![b] = v], UNCHANGED ldata
        PROVE  Durable' = Durable
    <3>1. \A k \in Blocks : k # b => home'[k] = home[k]
      BY <2>2 DEF TypeOK
    <3>2. \A k \in Blocks : (\A i \in 1..Len(hdr) : hdr[i] # k) => home'[k] = home[k]
      BY <1>2, <3>1
    <3> QED
      BY ONLY SMTT(30), <1>1, <2>2, <3>2 DEF Durable
  <2>3. ASSUME NEW i \in TornSlot, UNCHANGED home
        PROVE  Durable' = Durable
    BY ONLY SMTT(30), <1>1, <1>3, <2>3 DEF Durable
  <2> QED
    BY <2>1, <2>2, <2>3
<1>5. Volatile' = Durable
  BY <1>1, <1>4 DEF Volatile, Durable
<1> QED
  BY <1>1, <1>4, <1>5 DEF AD!Crash

\* Every step of log.c is a step of AtomicDisk or changes nothing it shows:
\* through commits and crashes at any disk write, what recovery restores is
\* the state after a whole group of finished operations.
THEOREM LogImplementsAtomicDisk == Spec => ImplementsAtomicDisk
<1>1. TypeOK /\ Control /\ DataInv /\ [Next]_vars => [AD!Next]_AD!vars
  <2> SUFFICES ASSUME TypeOK, Control, DataInv, [Next]_vars
               PROVE  AD!Next \/ UNCHANGED AD!vars
    OBVIOUS
  <2>1. CASE Recover
    BY <2>1, RecoverRefines
  <2>2. ASSUME NEW p \in Procs, call_op(p) \/ Step(p)
        PROVE  AD!Next \/ UNCHANGED AD!vars
    BY <2>2, OpRefines, WriteLogRefines, WriteHeadRefines, InstallRefines, EraseRefines
       DEF Step, AD!Next
  <2>3. ASSUME NEW p \in Procs, NEW b \in Blocks, NEW v \in Vals, log_write(p, b, v)
        PROVE  AD!Next
    BY <2>3, WriteRefines DEF AD!Next
  <2>4. ASSUME NEW b \in Blocks, bread(b) \/ recycle(b) PROVE UNCHANGED AD!vars
    BY <2>4, CacheRefines
  <2>5. CASE crash
    BY <2>5, CrashRefines DEF AD!Next
  <2>6. CASE UNCHANGED vars
    <3>1. UNCHANGED <<home, hdr, ldata, cache, phase, pc>>
      BY <2>6 DEF vars, disk, bcache, boot, procs
    <3>2. Active' = Active
      BY <3>1 DEF Active
    <3> QED
      BY <3>1, <3>2, FrameRefines DEF AD!vars
  <2> QED
    BY <2>1, <2>2, <2>3, <2>4, <2>5, <2>6 DEF Next
<1>2. Init => AD!Init
  BY InitRefines
<1> QED
  BY <1>1, <1>2, DataInvariant, PTL DEF Spec, ImplementsAtomicDisk, AD!Spec
=============================================================================
