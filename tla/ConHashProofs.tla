--------------------------- MODULE ConHashProofs ---------------------------
(***************************************************************************)
(* Proofs about ConHash, for any number of processes, blocks and words,    *)
(* with processes that die at any point.  All of them need that no process *)
(* calls Init when others already use the table: Init sets the semaphore   *)
(* whatever its value, and two processes would be inside SafeSet.          *)
(***************************************************************************)
EXTENDS ConHash, FiniteSetTheorems, TLAPS

-----------------------------------------------------------------------------
(***************************************************************************)
(* The semaphore.                                                          *)
(***************************************************************************)
\* The process is inside SafeSet, from Lock to Unlock, or writes the block.
Locked(p) == th[p] # Nil /\ th[p].op = "SafeSet" /\ th[p].pc # "lock"
Writing(p) == Locked(p) /\ th[p].pc \in {"write", "even"}

Placed(p) ==
    th[p] # Nil =>
        /\ ops[p] > 0
        /\ th[p].pc \in IF th[p].op = "SafeSet"
                        THEN {"lock", "compare", "odd", "write", "even", "unlock", "refuse"}
                        ELSE {"version", "compare", "copy", "recheck"}
Mutex ==
    /\ \A p \in Procs : Locked(p) => sem = 0
    /\ \A p, q \in Procs : Locked(p) /\ Locked(q) => p = q

LockInv == TypeOK /\ (\A p \in Procs : Placed(p)) /\ Mutex

LEMMA PositiveMod == VersionMod \in Nat /\ 0 < VersionMod
<1>1. Cardinality(Procs) \in Nat /\ MaxOps \in Nat
  BY FS_CardinalityType, SizeAssumption DEF SizeAssumption
<1>2. 2 * MaxOps * Cardinality(Procs) \in Nat
  <2>1. \A i, j \in Nat : 2 * i * j \in Nat
    OBVIOUS
  <2> QED BY <1>1, <2>1
<1>3. \A i, j \in Nat : i < j => 0 < j
  OBVIOUS
<1> QED BY <1>2, <1>3, VersionAssumption DEF VersionAssumption

\* A step of an operation, by what it does to the process.
Moves(p, t) == th[p] # Nil /\ t \in Threads /\ th' = [th EXCEPT ![p] = t]
Ends(p) == th[p] # Nil /\ th' = [th EXCEPT ![p] = Nil]

LEMMA ThreadTypes ==
    ASSUME TypeOK, NEW p \in Procs, th[p] # Nil
    PROVE  /\ th[p] \in Threads
           /\ th[p].op \in Ops /\ th[p].pc \in Places /\ th[p].off \in Offsets
           /\ th[p].buf \in Blocks /\ th[p].word \in WordIdx
           /\ th[p].vs \in 0 .. VersionMod - 1 /\ th[p].late \in BOOLEAN
BY DEF TypeOK, Threads

\* What Goto makes of a process.
Gone(t, place) == [t EXCEPT !.pc = place, !.word = 1]

LEMMA GotoMoves ==
    ASSUME TypeOK, NEW p \in Procs, th[p] # Nil, NEW place \in Places, Goto(p, place)
    PROVE  /\ Moves(p, Gone(th[p], place))
           /\ th'[p] = Gone(th[p], place)
<1>1. 1 \in WordIdx
  BY SizeAssumption DEF SizeAssumption, WordIdx
<1>2. Gone(th[p], place) \in Threads
  BY <1>1, ThreadTypes DEF Gone, Threads
<1>3. th' = [th EXCEPT ![p] = Gone(th[p], place)]
  BY DEF Goto, Gone, TypeOK
<1> QED BY <1>2, <1>3 DEF Moves, TypeOK

LEMMA NextWordMoves ==
    ASSUME TypeOK, NEW p \in Procs, th[p] # Nil, th[p].word # WordNum,
           th' = [th EXCEPT ![p].word = @ + 1]
    PROVE  Moves(p, [th[p] EXCEPT !.word = @ + 1])
<1>1. th[p].word + 1 \in WordIdx
  BY ThreadTypes, SizeAssumption DEF SizeAssumption, WordIdx
<1>2. [th[p] EXCEPT !.word = @ + 1] \in Threads
  BY <1>1, ThreadTypes DEF Threads
<1> QED BY <1>2 DEF Moves, TypeOK

\* Another process sees nothing of a step that leaves the semaphore alone.
LEMMA KeepsMutex ==
    ASSUME LockInv, NEW p \in Procs, sem' = sem, Locked(p)' => Locked(p),
           \A q \in Procs \ {p} : th'[q] = th[q]
    PROVE  Mutex'
<1>1. \A q \in Procs : Locked(q)' => Locked(q)
  BY DEF Locked
<1> QED BY <1>1 DEF LockInv, Mutex

LEMMA KeepsPlaced ==
    ASSUME LockInv, NEW p \in Procs, ops' = ops, Placed(p)',
           \A q \in Procs \ {p} : th'[q] = th[q]
    PROVE  \A q \in Procs : Placed(q)'
BY DEF LockInv, Placed

\* A step within an operation.
LEMMA MoveStep ==
    ASSUME LockInv, NEW p \in Procs, NEW t, Moves(p, t), ops' = ops, up' = up, sem' = sem,
           t.op = th[p].op,
           t.pc \in IF t.op = "SafeSet" THEN {"compare", "odd", "write", "even", "unlock", "refuse"}
                    ELSE {"version", "compare", "copy", "recheck"},
           th[p].pc # "lock"
    PROVE  (\A q \in Procs : Placed(q)') /\ Mutex'
<1>1. th'[p] = t /\ t # Nil /\ \A q \in Procs \ {p} : th'[q] = th[q]
  BY NilAssumption DEF NilAssumption, Moves, LockInv, TypeOK
<1>2. Placed(p)'
  BY <1>1 DEF LockInv, Placed, Moves
<1>3. Locked(p)' => Locked(p)
  BY <1>1 DEF Locked, Moves
<1> QED BY <1>1, <1>2, <1>3, KeepsMutex, KeepsPlaced

LEMMA GetEnds ==
    ASSUME LockInv, NEW p \in Procs, Ends(p), ops' = ops, sem' = sem
    PROVE  (\A q \in Procs : Placed(q)') /\ Mutex'
<1>1. th'[p] = Nil /\ \A q \in Procs \ {p} : th'[q] = th[q]
  BY DEF Ends, LockInv, TypeOK
<1>2. Placed(p)' /\ ~Locked(p)'
  BY <1>1 DEF Placed, Locked
<1> QED BY <1>1, <1>2, KeepsMutex, KeepsPlaced

\* What Return leaves.
LEMMA ReturnTypes ==
    ASSUME TypeOK, NEW p \in Procs, th[p] # Nil, NEW ok \in BOOLEAN, Return(p, ok)
    PROVE  /\ Ends(p) /\ th' \in [Procs -> Threads \cup {Nil}]
           /\ res' \in [Procs -> Results \cup {Nil}]
           /\ res'[p].op = th[p].op /\ res'[p].off = th[p].off /\ res'[p].ok = ok
           /\ res'[p].buf = th[p].buf /\ res'[p].late = th[p].late
           /\ \A q \in Procs \ {p} : res'[q] = res[q]
<1> DEFINE r == [op |-> th[p].op, off |-> th[p].off, ok |-> ok,
                 buf |-> th[p].buf, late |-> th[p].late]
<1>1. r \in Results
  BY ThreadTypes DEF Results
<1>2. res' = [res EXCEPT ![p] = r] /\ th' = [th EXCEPT ![p] = Nil]
  BY DEF Return
<1>r. /\ r.op = th[p].op /\ r.off = th[p].off /\ r.ok = ok
      /\ r.buf = th[p].buf /\ r.late = th[p].late
  BY Zenon
<1> HIDE DEF r
<1> USE DEF TypeOK
<1>3. res' \in [Procs -> Results \cup {Nil}] /\ res'[p] = r
      /\ \A q \in Procs \ {p} : res'[q] = res[q]
  BY <1>1, <1>2
<1> QED BY <1>r, <1>2, <1>3 DEF Ends

LEMMA BeginStep ==
    ASSUME LockInv, NEW p \in Procs, NEW op \in Ops, NEW o \in Offsets, NEW buf \in Blocks,
           NEW place \in {"lock", "version"}, place = "lock" <=> op = "SafeSet",
           Begin(p, op, place, o, buf)
    PROVE  LockInv'
<1> DEFINE t == [op |-> op, pc |-> place, off |-> o, buf |-> buf,
                 word |-> 1, vs |-> 0, late |-> o \in done]
<1>1. /\ TypeOK /\ th[p] = Nil /\ ops' = [ops EXCEPT ![p] = ops[p] + 1] /\ ops[p] < MaxOps
      /\ th' = [th EXCEPT ![p] = t] /\ res' = [res EXCEPT ![p] = Nil]
      /\ block' = block /\ ver' = ver /\ sem' = sem /\ up' = up /\ stored' = stored /\ done' = done
  BY DEF LockInv, Begin, memory
<1>2. t \in Threads /\ t # Nil
  <2>1. 1 \in WordIdx
    BY SizeAssumption DEF SizeAssumption, WordIdx
  <2>2. ver[o] \in 0 .. VersionMod - 1
    BY <1>1 DEF TypeOK
  <2>3. 0 \in 0 .. VersionMod - 1
    BY <2>2, VersionAssumption DEF VersionAssumption
  <2>4. (o \in done) \in BOOLEAN
    OBVIOUS
  <2>5. place \in Places
    BY DEF Places
  <2>6. \A b \in BOOLEAN : [op |-> op, pc |-> place, off |-> o, buf |-> buf, word |-> 1,
                            vs |-> 0, late |-> b] \in Threads
    BY <2>1, <2>3, <2>5 DEF Threads
  <2>7. t \in Threads
    BY <2>4, <2>6, Zenon
  <2> QED BY <2>7, NilAssumption DEF NilAssumption
<1>3. t.op = op /\ t.pc = place
  OBVIOUS
<1> HIDE DEF t
<1>4. TypeOK'
  <2>1. ops[p] + 1 \in 0 .. MaxOps
    BY <1>1, SizeAssumption DEF SizeAssumption, TypeOK
  <2> QED BY <1>1, <1>2, <2>1 DEF TypeOK
<1>5. th'[p] = t /\ ops'[p] > 0
      /\ \A q \in Procs \ {p} : th'[q] = th[q] /\ ops'[q] = ops[q]
  BY <1>1 DEF TypeOK
<1>6. ~Locked(p)' /\ Placed(p)' /\ \A q \in Procs \ {p} : Placed(q)'
  BY <1>3, <1>5 DEF Locked, Placed, LockInv
<1>7. Mutex'
  BY <1>1, <1>5, <1>6, KeepsMutex
<1> QED BY <1>4, <1>6, <1>7 DEF LockInv

LEMMA InitStep ==
    ASSUME LockInv, ~LateInit, NEW p \in Procs, Init(p)
    PROVE  LockInv' /\ \A q \in Procs : th[q] = Nil /\ ops[q] = 0
<1>1. \A q \in Procs : th[q] = Nil /\ ops[q] = 0
  BY DEF LockInv, Placed, Init
<1>2. TypeOK'
  BY DEF LockInv, TypeOK, Init
<1>3. (\A q \in Procs : Placed(q)') /\ Mutex'
  BY <1>1 DEF Init, Placed, Mutex, Locked
<1> QED BY <1>1, <1>2, <1>3 DEF LockInv

LEMMA LockStep ==
    ASSUME LockInv, NEW p \in Procs, Lock(p)
    PROVE  LockInv'
<1>1. /\ TypeOK /\ th[p] # Nil /\ th[p].pc = "lock" /\ sem = 1 /\ sem' = 0 /\ Goto(p, "compare")
      /\ block' = block /\ ver' = ver /\ up' = up /\ res' = res /\ ops' = ops
      /\ stored' = stored /\ done' = done
  BY DEF LockInv, TypeOK, Lock, At
<1>2. Moves(p, Gone(th[p], "compare")) /\ th'[p] = Gone(th[p], "compare")
  BY <1>1, GotoMoves DEF Places
<1>3. TypeOK' /\ \A q \in Procs \ {p} : th'[q] = th[q]
  BY <1>1, <1>2 DEF Moves, TypeOK
<1>4. th[p].op = "SafeSet"
  BY <1>1 DEF LockInv, Placed
<1>5. th'[p].op = "SafeSet" /\ th'[p].pc = "compare"
  BY <1>1, <1>2, <1>4, ThreadTypes DEF Gone, Threads
<1>6. Placed(p)'
  BY <1>1, <1>5 DEF LockInv, Placed
<1>7. \A q \in Procs : ~Locked(q)
  BY <1>1 DEF LockInv, Mutex
<1>8. \A q \in Procs \ {p} : ~Locked(q)'
  BY <1>3, <1>7 DEF Locked
<1>9. Mutex'
  BY <1>1, <1>8 DEF Mutex
<1> QED BY <1>1, <1>3, <1>6, <1>9, KeepsPlaced DEF LockInv

\* Outside Lock and Unlock a step goes on to a place of the same operation.
LEMMA GotoStep ==
    ASSUME LockInv, NEW p \in Procs, th[p] # Nil, th[p].pc # "lock", NEW place, Goto(p, place),
           place \in IF th[p].op = "SafeSet" THEN {"compare", "odd", "write", "even", "unlock", "refuse"}
                     ELSE {"version", "compare", "copy", "recheck"},
           ops' = ops, up' = up, sem' = sem
    PROVE  /\ (\A q \in Procs : Placed(q)') /\ Mutex'
           /\ Moves(p, Gone(th[p], place)) /\ th' \in [Procs -> Threads \cup {Nil}]
<1>1. place \in Places
  BY DEF Places
<1>2. Moves(p, Gone(th[p], place))
  BY <1>1, GotoMoves DEF LockInv
<1>3. Gone(th[p], place).op = th[p].op /\ Gone(th[p], place).pc = place
  BY ThreadTypes DEF Gone, Threads, LockInv
<1>4. th' \in [Procs -> Threads \cup {Nil}]
  BY <1>2 DEF Moves, LockInv, TypeOK
<1> QED BY <1>2, <1>3, <1>4, MoveStep

LEMMA NextWordStep ==
    ASSUME LockInv, NEW p \in Procs, th[p] # Nil, th[p].word # WordNum, th[p].pc # "lock",
           th' = [th EXCEPT ![p].word = @ + 1], ops' = ops, up' = up, sem' = sem,
           th[p].pc \notin {"version"}
    PROVE  /\ (\A q \in Procs : Placed(q)') /\ Mutex'
           /\ Moves(p, [th[p] EXCEPT !.word = @ + 1]) /\ th' \in [Procs -> Threads \cup {Nil}]
<1>1. Moves(p, [th[p] EXCEPT !.word = @ + 1])
  BY NextWordMoves DEF LockInv
<1> DEFINE t == [th[p] EXCEPT !.word = @ + 1]
<1>2. t.op = th[p].op /\ t.pc = th[p].pc
  BY ThreadTypes DEF Threads, LockInv
<1>3. th' \in [Procs -> Threads \cup {Nil}]
  BY <1>1 DEF Moves, LockInv, TypeOK
<1> HIDE DEF t
<1>4. t.pc \in IF t.op = "SafeSet" THEN {"compare", "odd", "write", "even", "unlock", "refuse"}
              ELSE {"version", "compare", "copy", "recheck"}
  BY <1>2 DEF LockInv, Placed
<1> QED BY <1>1, <1>2, <1>3, <1>4, MoveStep DEF t

LEMMA CompareStep ==
    ASSUME LockInv, NEW p \in Procs, Compare(p)
    PROVE  LockInv'
<1>1. /\ TypeOK /\ th[p] # Nil /\ th[p].pc = "compare"
      /\ block' = block /\ ver' = ver /\ sem' = sem /\ up' = up /\ ops' = ops
      /\ stored' = stored /\ done' = done
  BY DEF LockInv, Compare, At, memory
<1>2. \/ Goto(p, IF th[p].op = "SafeSet" THEN "refuse" ELSE "copy") /\ res' = res
      \/ th[p].word # WordNum /\ th' = [th EXCEPT ![p].word = @ + 1] /\ res' = res
      \/ th[p].op = "SafeSet" /\ Goto(p, "odd") /\ res' = res
      \/ th[p].op # "SafeSet" /\ Return(p, FALSE)
  BY DEF Compare, LastWord
<1>3. CASE Goto(p, IF th[p].op = "SafeSet" THEN "refuse" ELSE "copy") /\ res' = res
  BY <1>1, <1>3, GotoStep DEF LockInv, TypeOK
<1>4. CASE th[p].word # WordNum /\ th' = [th EXCEPT ![p].word = @ + 1] /\ res' = res
  BY <1>1, <1>4, NextWordStep DEF LockInv, TypeOK
<1>5. CASE th[p].op = "SafeSet" /\ Goto(p, "odd") /\ res' = res
  BY <1>1, <1>5, GotoStep DEF LockInv, TypeOK
<1>6. CASE th[p].op # "SafeSet" /\ Return(p, FALSE)
  BY <1>1, <1>6, ReturnTypes, GetEnds DEF LockInv, TypeOK
<1> QED BY <1>2, <1>3, <1>4, <1>5, <1>6

LEMMA CountStep ==
    ASSUME LockInv, NEW p \in Procs, CountOdd(p) \/ CountEven(p)
    PROVE  LockInv'
<1>1. /\ TypeOK /\ th[p] # Nil /\ th[p].pc \in {"odd", "even"}
      /\ ver' = [ver EXCEPT ![th[p].off] = (@ + 1) % VersionMod]
      /\ block' = block /\ sem' = sem /\ up' = up /\ res' = res /\ ops' = ops
      /\ Goto(p, "write") \/ Goto(p, "unlock")
  BY DEF LockInv, CountOdd, CountEven, Count, At
<1>2. ver' \in [Offsets -> 0 .. VersionMod - 1]
  <2>1. th[p].off \in Offsets
    BY <1>1, ThreadTypes
  <2>2. ver[th[p].off] + 1 \in Nat /\ VersionMod \in Nat /\ VersionMod > 0
    BY <1>1, <2>1, VersionAssumption DEF VersionAssumption, TypeOK
  <2>3. (ver[th[p].off] + 1) % VersionMod \in 0 .. VersionMod - 1
    BY <2>2
  <2> QED BY <1>1, <2>3 DEF TypeOK
<1>3. stored' \in [Offsets -> SUBSET Blocks] /\ done' \subseteq Offsets
  BY <1>1, ThreadTypes DEF CountOdd, CountEven, TypeOK
<1>4. th[p].op = "SafeSet"
  BY <1>1 DEF LockInv, Placed
<1>5. (\A q \in Procs : Placed(q)') /\ Mutex' /\ th' \in [Procs -> Threads \cup {Nil}]
  BY <1>1, <1>4, GotoStep
<1> QED BY <1>1, <1>2, <1>3, <1>5 DEF LockInv, TypeOK

LEMMA WriteWordStep ==
    ASSUME LockInv, NEW p \in Procs, WriteWord(p)
    PROVE  LockInv'
<1>1. /\ TypeOK /\ th[p] # Nil /\ th[p].pc = "write"
      /\ block' = [block EXCEPT ![th[p].off][th[p].word] = th[p].buf[th[p].word]]
      /\ ver' = ver /\ sem' = sem /\ up' = up /\ res' = res /\ ops' = ops
      /\ stored' = stored /\ done' = done
      /\ IF th[p].word < WordNum THEN th' = [th EXCEPT ![p].word = @ + 1] ELSE Goto(p, "even")
  BY DEF LockInv, WriteWord, At
<1>2. block' \in [Offsets -> Blocks]
  <2>1. /\ th[p].off \in Offsets /\ th[p].word \in WordIdx
        /\ th[p].buf[th[p].word] \in Nat
    BY <1>1, ThreadTypes DEF Blocks
  <2> QED BY <1>1, <2>1 DEF TypeOK, Blocks
<1>3. th[p].op = "SafeSet"
  BY <1>1 DEF LockInv, Placed
<1>4. (\A q \in Procs : Placed(q)') /\ Mutex' /\ th' \in [Procs -> Threads \cup {Nil}]
  <2>1. CASE th[p].word < WordNum
    <3>1. th[p].word # WordNum /\ th' = [th EXCEPT ![p].word = @ + 1]
      BY <1>1, <2>1, ThreadTypes, SizeAssumption DEF SizeAssumption, WordIdx
    <3> QED BY <1>1, <3>1, NextWordStep
  <2>2. CASE ~(th[p].word < WordNum)
    BY <1>1, <1>3, <2>2, GotoStep
  <2> QED BY <2>1, <2>2
<1> QED BY <1>1, <1>2, <1>4 DEF LockInv, TypeOK

LEMMA UnlockStep ==
    ASSUME LockInv, NEW p \in Procs, Unlock(p)
    PROVE  LockInv' /\ Locked(p) /\ \A q \in Procs : ~Locked(q)'
<1>1. /\ TypeOK /\ th[p] # Nil /\ th[p].pc \in {"unlock", "refuse"} /\ sem' = sem + 1
      /\ block' = block /\ ver' = ver /\ up' = up /\ ops' = ops
      /\ stored' = stored /\ done' = done /\ \E ok \in BOOLEAN : Return(p, ok)
  BY DEF LockInv, Unlock, At
<1>2. Locked(p) /\ sem = 0
  BY <1>1 DEF LockInv, Placed, Locked, Mutex
<1>3. Ends(p) /\ th' \in [Procs -> Threads \cup {Nil}] /\ res' \in [Procs -> Results \cup {Nil}]
  BY <1>1, ReturnTypes
<1>4. th'[p] = Nil /\ \A q \in Procs \ {p} : th'[q] = th[q]
  BY <1>1, <1>3 DEF Ends, TypeOK
<1>5. \A q \in Procs : ~Locked(q)'
  BY <1>2, <1>4 DEF LockInv, Mutex, Locked
<1>6. TypeOK' /\ Mutex'
  BY <1>1, <1>2, <1>3, <1>5 DEF TypeOK, Mutex
<1>7. \A q \in Procs : Placed(q)'
  BY <1>1, <1>4 DEF LockInv, Placed
<1> QED BY <1>2, <1>5, <1>6, <1>7 DEF LockInv

LEMMA ReadVersionStep ==
    ASSUME LockInv, NEW p \in Procs, ReadVersion(p)
    PROVE  LockInv'
<1> DEFINE t == [th[p] EXCEPT !.vs = ver[th[p].off], !.word = 1,
                              !.pc = IF th[p].op = "SafeGet" THEN "compare" ELSE "copy"]
<1>1. /\ TypeOK /\ th[p] # Nil /\ th[p].pc = "version" /\ th' = [th EXCEPT ![p] = t]
      /\ block' = block /\ ver' = ver /\ sem' = sem /\ up' = up /\ res' = res /\ ops' = ops
      /\ stored' = stored /\ done' = done
  BY DEF LockInv, TypeOK, ReadVersion, At, memory
<1>2. t \in Threads
  <2>1. ver[th[p].off] \in 0 .. VersionMod - 1 /\ 1 \in WordIdx
    BY <1>1, ThreadTypes, SizeAssumption DEF SizeAssumption, WordIdx, TypeOK
  <2> QED BY <1>1, <2>1, ThreadTypes DEF Threads, Places
<1>3. /\ t.op = th[p].op /\ th[p].op # "SafeSet" /\ t.pc \in {"compare", "copy"}
  BY <1>1, ThreadTypes DEF Threads, LockInv, Placed
<1> HIDE DEF t
<1>4. Moves(p, t)
  BY <1>1, <1>2 DEF Moves
<1> QED BY <1>1, <1>2, <1>3, <1>4, MoveStep DEF LockInv, TypeOK

LEMMA CopyWordStep ==
    ASSUME LockInv, NEW p \in Procs, CopyWord(p)
    PROVE  LockInv'
<1> DEFINE last == ~(th[p].word < WordNum)
           t == [th[p] EXCEPT !.buf[th[p].word] = block[th[p].off][th[p].word],
                              !.word = IF last THEN 1 ELSE th[p].word + 1,
                              !.pc = IF last THEN "recheck" ELSE th[p].pc]
<1>1. /\ TypeOK /\ th[p] # Nil /\ th[p].pc = "copy" /\ th' = [th EXCEPT ![p] = t]
      /\ block' = block /\ ver' = ver /\ sem' = sem /\ up' = up /\ res' = res /\ ops' = ops
      /\ stored' = stored /\ done' = done
  BY DEF LockInv, TypeOK, CopyWord, At, memory
<1>2. t \in Threads
  <2>1. /\ th[p].off \in Offsets /\ th[p].word \in WordIdx /\ th[p].buf \in Blocks
        /\ th[p] \in Threads
    BY <1>1, ThreadTypes
  <2>2. block[th[p].off][th[p].word] \in Nat
    BY <1>1, <2>1 DEF TypeOK, Blocks
  <2>3. [th[p].buf EXCEPT ![th[p].word] = block[th[p].off][th[p].word]] \in Blocks
    BY <2>1, <2>2 DEF Blocks
  <2>4. (IF last THEN 1 ELSE th[p].word + 1) \in WordIdx
    BY <2>1, SizeAssumption DEF SizeAssumption, WordIdx
  <2>5. (IF last THEN "recheck" ELSE th[p].pc) \in Places
    BY <1>1 DEF Places
  <2> HIDE DEF last
  <2> QED BY <2>1, <2>3, <2>4, <2>5 DEF Threads
<1>3. t.op = th[p].op /\ th[p].op # "SafeSet" /\ t.pc \in {"recheck", "copy"}
  BY <1>1, ThreadTypes DEF Threads, LockInv, Placed
<1> HIDE DEF t
<1>4. Moves(p, t)
  BY <1>1, <1>2 DEF Moves
<1> QED BY <1>1, <1>2, <1>3, <1>4, MoveStep DEF LockInv, TypeOK

LEMMA RecheckStep ==
    ASSUME LockInv, NEW p \in Procs, Recheck(p)
    PROVE  LockInv'
<1>1. /\ TypeOK /\ th[p] # Nil /\ th[p].pc = "recheck"
      /\ block' = block /\ ver' = ver /\ sem' = sem /\ up' = up /\ ops' = ops
      /\ stored' = stored /\ done' = done
      /\ (\E ok \in BOOLEAN : Return(p, ok)) \/ (Goto(p, "version") /\ res' = res)
  BY DEF LockInv, Recheck, At, memory
<1>2. th[p].op # "SafeSet"
  BY <1>1 DEF LockInv, Placed
<1>3. CASE \E ok \in BOOLEAN : Return(p, ok)
  BY <1>1, <1>3, ReturnTypes, GetEnds DEF LockInv, TypeOK
<1>4. CASE Goto(p, "version") /\ res' = res
  BY <1>1, <1>2, <1>4, GotoStep DEF LockInv, TypeOK
<1> QED BY <1>1, <1>3, <1>4

LEMMA CrashStep ==
    ASSUME LockInv, NEW p \in Procs, Crash(p)
    PROVE  LockInv'
<1>1. /\ TypeOK /\ up' = [up EXCEPT ![p] = "gone"] /\ th' = [th EXCEPT ![p] = Nil]
      /\ res' = [res EXCEPT ![p] = Nil] /\ sem' = sem /\ ops' = ops
      /\ block' = block /\ ver' = ver /\ stored' = stored /\ done' = done
  BY DEF LockInv, Crash, memory
<1>2. TypeOK'
  BY <1>1 DEF TypeOK
<1>3. th'[p] = Nil /\ \A q \in Procs \ {p} : th'[q] = th[q]
  BY <1>1 DEF TypeOK
<1>4. Placed(p)' /\ ~Locked(p)'
  BY <1>3 DEF Placed, Locked
<1> QED BY <1>1, <1>2, <1>3, <1>4, KeepsMutex, KeepsPlaced DEF LockInv

LEMMA StartLockInv == Start => LockInv
<1> SUFFICES ASSUME Start PROVE LockInv
  OBVIOUS
<1>1. Zero \in Blocks /\ \A o \in Offsets : 0 \in 0 .. VersionMod - 1
  <2>1. 0 \in 0 .. VersionMod - 1
    BY PositiveMod
  <2> QED BY <2>1 DEF Zero, Blocks
<1>2. TypeOK
  BY <1>1, SizeAssumption DEF SizeAssumption, Start, TypeOK
<1>3. \A p \in Procs : Placed(p) /\ ~Locked(p)
  BY DEF Start, Placed, Locked
<1> QED BY <1>2, <1>3 DEF LockInv, Mutex

\* The operations by what they begin with.
LEMMA BeginOf ==
    ASSUME NEW p \in Procs, SafeSet(p) \/ SafeGet(p)
    PROVE  \E op \in Ops, o \in Offsets, buf \in Blocks :
             \E place \in {"lock", "version"} :
               (place = "lock" <=> op = "SafeSet") /\ Begin(p, op, place, o, buf)
<1>1. Zero \in Blocks /\ Data \subseteq Blocks
  BY SizeAssumption DEF SizeAssumption, Zero, Blocks
<1> QED BY <1>1 DEF SafeSet, SafeGet, Ops

LEMMA NextLockInv == ~LateInit /\ LockInv /\ [Next]_vars => LockInv'
<1> SUFFICES ASSUME ~LateInit, LockInv, [Next]_vars PROVE LockInv'
  OBVIOUS
<1>1. ASSUME NEW p \in Procs, SafeSet(p) \/ SafeGet(p) PROVE LockInv'
  BY <1>1, BeginOf, BeginStep
<1>2. ASSUME NEW p \in Procs, Continue(p) PROVE LockInv'
  BY <1>2, LockStep, CompareStep, CountStep, WriteWordStep, UnlockStep, ReadVersionStep,
     CopyWordStep, RecheckStep DEF Continue
<1>3. ASSUME UNCHANGED vars PROVE LockInv'
  BY <1>3 DEF vars, memory, LockInv, TypeOK, Placed, Mutex, Locked
<1> QED BY <1>1, <1>2, <1>3, InitStep, CrashStep DEF Next

\* Under the semaphore one process at a time, and every variable of its type.
THEOREM LockInvariant == ASSUME ~LateInit PROVE Spec => []LockInv
<1>1. LockInv /\ [Next]_vars => LockInv'
  BY NextLockInv
<1> QED BY <1>1, StartLockInv, PTL DEF Spec

\* Blocks, counters, the semaphore and the operations keep their types; the
\* semaphore is a mutex, whoever dies, once no process calls Init late.
THEOREM TypeCorrect == ASSUME ~LateInit PROVE Spec => []TypeOK
<1>1. LockInv => TypeOK
  BY DEF LockInv
<1> QED BY <1>1, LockInvariant, PTL

-----------------------------------------------------------------------------
(***************************************************************************)
(* The version counters.                                                   *)
(***************************************************************************)
Even(n) == n % 2 = 0

\* A counter is odd while its block is written; a process that dies then
\* leaves it odd and keeps the semaphore.
Parity ==
    \A o \in Offsets :
        /\ sem = 1 => Even(ver[o])
        /\ \A p \in Procs :
            Locked(p) => (Even(ver[o]) <=> ~(Writing(p) /\ th[p].off = o))
Fresh == (\A p \in Procs : ops[p] = 0) => \A o \in Offsets : ver[o] = 0

\* What the operations may still add to a counter: two for each that has not
\* begun and for each SafeSet before the first count, one between the counts.
CanCount(p, k) ==
    /\ th[p] # Nil /\ th[p].op = "SafeSet"
    /\ \/ th[p].pc \in {"lock", "compare", "odd"}
       \/ th[p].pc \in {"write", "even"} /\ k = 2
Slots == (Procs \X (1 .. MaxOps)) \X (1 .. 2)
MayCount(p, i, k) == i > ops[p] \/ (i = ops[p] /\ CanCount(p, k))
Unspent == {x \in Slots : MayCount(x[1][1], x[1][2], x[2])}
Most == 2 * MaxOps * Cardinality(Procs)
Bounded == \A o \in Offsets : ver[o] + Cardinality(Unspent) <= Most

CountInv == Parity /\ Fresh /\ Bounded

LEMMA SlotsFinite ==
    /\ IsFiniteSet(Slots) /\ Cardinality(Slots) = Most
    /\ Most \in Nat /\ Most < VersionMod
<1>1. IsFiniteSet(Procs) /\ MaxOps \in Nat
  BY SizeAssumption DEF SizeAssumption
<1>2. IsFiniteSet(1 .. MaxOps) /\ Cardinality(1 .. MaxOps) = MaxOps
  BY <1>1, FS_Interval
<1>n. 2 \in Nat
  OBVIOUS
<1>3. IsFiniteSet(1 .. 2) /\ Cardinality(1 .. 2) = 2
  <2>1. ASSUME NEW n \in Nat PROVE IsFiniteSet(1 .. n) /\ Cardinality(1 .. n) = n
    BY FS_Interval
  <2> QED BY <1>n, <2>1, Zenon
<1>4. /\ IsFiniteSet(Procs \X (1 .. MaxOps))
      /\ Cardinality(Procs \X (1 .. MaxOps)) = Cardinality(Procs) * MaxOps
  BY <1>1, <1>2, FS_Product
<1>5. IsFiniteSet(Slots) /\ Cardinality(Slots) = (Cardinality(Procs) * MaxOps) * 2
  BY <1>3, <1>4, FS_Product DEF Slots
<1>6. Cardinality(Procs) \in Nat
  BY <1>1, FS_CardinalityType
<1>7. \A i, j \in Nat : (i * j) * 2 = 2 * j * i /\ 2 * j * i \in Nat
  OBVIOUS
<1> QED BY <1>1, <1>5, <1>6, <1>7, VersionAssumption DEF VersionAssumption, Most

LEMMA UnspentFinite ==
    IsFiniteSet(Unspent) /\ Cardinality(Unspent) \in Nat /\ Unspent \in SUBSET Slots
<1>1. Unspent \in SUBSET Slots
  BY DEF Unspent
<1> QED BY <1>1, SlotsFinite, FS_Subset, FS_CardinalityType

\* Counters do not come around.
LEMMA NoWrap ==
    ASSUME LockInv, Bounded, NEW p \in Procs, th[p] # Nil, th[p].op = "SafeSet",
           th[p].pc \in {"odd", "even"}
    PROVE  LET k == IF th[p].pc = "odd" THEN 1 ELSE 2
               o == th[p].off IN
           /\ <<<<p, ops[p]>>, k>> \in Unspent
           /\ ver[o] \in Nat /\ (ver[o] + 1) % VersionMod = ver[o] + 1
           /\ ver[o] + 1 + Cardinality(Unspent \ {<<<<p, ops[p]>>, k>>}) <= Most
<1> DEFINE k == IF th[p].pc = "odd" THEN 1 ELSE 2
           o == th[p].off
           x == <<<<p, ops[p]>>, k>>
<1>1. ops[p] \in 1 .. MaxOps /\ o \in Offsets /\ ver[o] \in Nat
  BY ThreadTypes DEF LockInv, Placed, TypeOK
<1>2. x \in Slots /\ CanCount(p, k)
  BY <1>1 DEF Slots, CanCount
<1>3. x \in Unspent
  BY <1>2 DEF Unspent, MayCount
<1> HIDE DEF k, o, x
<1>4. Cardinality(Unspent \ {x}) = Cardinality(Unspent) - 1 /\ Cardinality(Unspent) \in Nat
  BY <1>3, UnspentFinite, FS_RemoveElement
<1>5. ver[o] + Cardinality(Unspent) <= Most /\ Cardinality(Unspent \ {x}) \in Nat
  <2>1. Cardinality(Unspent \ {x}) \in Nat
    BY UnspentFinite, FS_RemoveElement, FS_CardinalityType
  <2> QED BY <1>1, <2>1 DEF Bounded
<1>6. ver[o] + 1 + Cardinality(Unspent \ {x}) <= Most /\ ver[o] + 1 < VersionMod
  <2>1. \A v, u, w, m \in Nat : v + u <= m /\ w = u - 1 => v + 1 + w <= m /\ v + 1 <= m
    OBVIOUS
  <2>2. ver[o] + 1 + Cardinality(Unspent \ {x}) <= Most /\ ver[o] + 1 <= Most
    BY <1>1, <1>4, <1>5, <2>1, SlotsFinite
  <2> QED BY <1>1, <2>2, SlotsFinite, PositiveMod
<1>7. (ver[o] + 1) % VersionMod = ver[o] + 1
  BY <1>1, <1>6, PositiveMod
<1> QED BY <1>1, <1>3, <1>6, <1>7 DEF k, o, x

\* A step that counts nothing.
LEMMA KeepsBound ==
    ASSUME LockInv, Bounded, ver' = ver, LockInv',
           \A p \in Procs : \A i \in 1 .. MaxOps : \A k \in 1 .. 2 :
               MayCount(p, i, k)' => MayCount(p, i, k)
    PROVE  Bounded'
<1>1. Unspent' \subseteq Unspent
  BY DEF Unspent, Slots
<1>2. Cardinality(Unspent') <= Cardinality(Unspent) /\ Cardinality(Unspent') \in Nat
  BY <1>1, UnspentFinite, FS_Subset, FS_CardinalityType
<1>3. ASSUME NEW o \in Offsets PROVE ver[o] + Cardinality(Unspent') <= Most
  <2>1. ver[o] + Cardinality(Unspent) <= Most /\ ver[o] \in Nat
    BY DEF Bounded, LockInv, TypeOK
  <2> QED BY <1>2, <2>1, UnspentFinite, SlotsFinite
<1> QED BY <1>3 DEF Bounded

\* A step of one process that neither counts nor begins an operation.
LEMMA KeepsCount ==
    ASSUME LockInv, CountInv, LockInv', NEW p \in Procs, ver' = ver, sem' = sem, ops' = ops,
           \A q \in Procs \ {p} : th'[q] = th[q],
           \A k \in 1 .. 2 : CanCount(p, k)' => CanCount(p, k),
           Locked(p)' => Locked(p) /\ (Writing(p)' <=> Writing(p)) /\ th'[p].off = th[p].off
    PROVE  CountInv'
<1>1. Bounded'
  <2>1. \A q \in Procs, k \in 1 .. 2 : CanCount(q, k)' => CanCount(q, k)
    BY DEF CanCount
  <2> QED BY <2>1, KeepsBound DEF MayCount, CountInv
<1>2. Parity'
  <2>1. \A q \in Procs : Locked(q)' => /\ Locked(q) /\ (Writing(q)' <=> Writing(q))
                                       /\ th'[q].off = th[q].off
    BY DEF Locked, Writing
  <2> QED BY <2>1 DEF CountInv, Parity
<1>3. Fresh'
  BY DEF CountInv, Fresh
<1> QED BY <1>1, <1>2, <1>3 DEF CountInv

\* The fields of a process after a step.
SameFields(p) ==
    /\ th[p] # Nil /\ th'[p] # Nil
    /\ th'[p].op = th[p].op /\ th'[p].off = th[p].off /\ th'[p].late = th[p].late

LEMMA GotoFields ==
    ASSUME TypeOK, NEW p \in Procs, th[p] # Nil, NEW place \in Places, Goto(p, place)
    PROVE  /\ SameFields(p) /\ th'[p].pc = place /\ th'[p].word = 1
           /\ th'[p].buf = th[p].buf /\ th'[p].vs = th[p].vs
           /\ \A q \in Procs \ {p} : th'[q] = th[q]
<1>1. th'[p] = Gone(th[p], place) /\ th' = [th EXCEPT ![p] = Gone(th[p], place)]
  BY GotoMoves DEF Moves
<1>2. th[p] \in Threads /\ Gone(th[p], place) \in Threads
  BY ThreadTypes, GotoMoves DEF Moves
<1> QED BY <1>1, <1>2, NilAssumption DEF NilAssumption, SameFields, Gone, Threads, TypeOK

LEMMA NextWordFields ==
    ASSUME TypeOK, NEW p \in Procs, th[p] # Nil, th[p].word # WordNum,
           th' = [th EXCEPT ![p].word = @ + 1]
    PROVE  /\ SameFields(p) /\ th'[p].pc = th[p].pc /\ th'[p].word = th[p].word + 1
           /\ th'[p].buf = th[p].buf /\ th'[p].vs = th[p].vs
           /\ \A q \in Procs \ {p} : th'[q] = th[q]
<1> DEFINE t == [th[p] EXCEPT !.word = @ + 1]
<1>1. th[p] \in Threads /\ t \in Threads /\ th' = [th EXCEPT ![p] = t]
  BY ThreadTypes, NextWordMoves DEF Moves
<1>2. /\ t.op = th[p].op /\ t.off = th[p].off /\ t.late = th[p].late /\ t.pc = th[p].pc
      /\ t.word = th[p].word + 1 /\ t.buf = th[p].buf /\ t.vs = th[p].vs
  BY <1>1 DEF Threads
<1> HIDE DEF t
<1>3. th'[p] = t /\ t # Nil
  BY <1>1, NilAssumption DEF NilAssumption, TypeOK
<1> QED BY <1>1, <1>2, <1>3 DEF SameFields, TypeOK

LEMMA EndFields ==
    ASSUME TypeOK, NEW p \in Procs, Ends(p)
    PROVE  th[p] # Nil /\ th'[p] = Nil /\ \A q \in Procs \ {p} : th'[q] = th[q]
BY DEF Ends, TypeOK

LEMMA ReadVersionFields ==
    ASSUME TypeOK, NEW p \in Procs, ReadVersion(p)
    PROVE  /\ SameFields(p) /\ th[p].pc = "version" /\ th'[p].word = 1
           /\ th'[p].pc = IF th[p].op = "SafeGet" THEN "compare" ELSE "copy"
           /\ th'[p].vs = ver[th[p].off]
           /\ \A q \in Procs \ {p} : th'[q] = th[q]
<1> DEFINE t == [th[p] EXCEPT !.vs = ver[th[p].off], !.word = 1,
                              !.pc = IF th[p].op = "SafeGet" THEN "compare" ELSE "copy"]
<1>1. th[p] # Nil /\ th[p].pc = "version" /\ th' = [th EXCEPT ![p] = t]
  BY DEF TypeOK, ReadVersion, At
<1>2. /\ t.op = th[p].op /\ t.off = th[p].off /\ t.late = th[p].late
      /\ t.pc = (IF th[p].op = "SafeGet" THEN "compare" ELSE "copy")
      /\ t.word = 1 /\ t.vs = ver[th[p].off]
  BY <1>1, ThreadTypes DEF Threads
<1>3. t \in Threads
  <2>1. ver[th[p].off] \in 0 .. VersionMod - 1 /\ 1 \in WordIdx
    BY <1>1, ThreadTypes, SizeAssumption DEF SizeAssumption, WordIdx, TypeOK
  <2> QED BY <1>1, <2>1, ThreadTypes DEF Threads, Places
<1> HIDE DEF t
<1>4. th'[p] = t /\ t # Nil
  BY <1>1, <1>3, NilAssumption DEF NilAssumption, TypeOK
<1> QED BY <1>1, <1>2, <1>4 DEF SameFields, TypeOK

LEMMA CopyWordFields ==
    ASSUME TypeOK, NEW p \in Procs, CopyWord(p)
    PROVE  /\ SameFields(p) /\ th[p].pc = "copy" /\ th'[p].vs = th[p].vs
           /\ th'[p].buf = [th[p].buf EXCEPT ![th[p].word] = block[th[p].off][th[p].word]]
           /\ th'[p].word = IF th[p].word < WordNum THEN th[p].word + 1 ELSE 1
           /\ th'[p].pc = IF th[p].word < WordNum THEN "copy" ELSE "recheck"
           /\ \A q \in Procs \ {p} : th'[q] = th[q]
<1> DEFINE more == th[p].word < WordNum
           x == block[th[p].off][th[p].word]
           t == [th[p] EXCEPT !.buf = [th[p].buf EXCEPT ![th[p].word] = x],
                              !.word = IF more THEN th[p].word + 1 ELSE 1,
                              !.pc = IF more THEN "copy" ELSE "recheck"]
<1>1. th[p] # Nil /\ th[p].pc = "copy" /\ th[p] \in Threads
  BY ThreadTypes DEF CopyWord, At
<1>2. th' = [th EXCEPT ![p] = t]
  BY <1>1 DEF TypeOK, CopyWord
<1>3. /\ t.op = th[p].op /\ t.off = th[p].off /\ t.late = th[p].late /\ t.vs = th[p].vs
      /\ t.buf = [th[p].buf EXCEPT ![th[p].word] = x]
      /\ t.word = (IF more THEN th[p].word + 1 ELSE 1)
      /\ t.pc = (IF more THEN "copy" ELSE "recheck")
  BY <1>1 DEF Threads
<1>4. t # Nil
  <2>1. th[p].word \in WordIdx /\ th[p].off \in Offsets /\ th[p].buf \in Blocks
    BY <1>1, ThreadTypes
  <2>2. x \in Nat
    BY <2>1 DEF TypeOK, Blocks
  <2>3. [th[p].buf EXCEPT ![th[p].word] = x] \in Blocks
    BY <2>1, <2>2 DEF Blocks
  <2>4. (IF more THEN th[p].word + 1 ELSE 1) \in WordIdx
    BY <2>1, SizeAssumption DEF SizeAssumption, WordIdx
  <2> HIDE DEF more
  <2>5. t \in Threads
    BY <1>1, <2>3, <2>4 DEF Threads, Places
  <2> QED BY <2>5, NilAssumption DEF NilAssumption
<1> HIDE DEF t
<1>5. th'[p] = t
  BY <1>2 DEF TypeOK
<1> QED BY <1>1, <1>2, <1>3, <1>4, <1>5 DEF SameFields, TypeOK

\* What Compare may do.
LEMMA CompareCases ==
    ASSUME LockInv, NEW p \in Procs, Compare(p)
    PROVE  /\ th[p] # Nil /\ th[p].pc = "compare" /\ th[p].off \in Offsets
           /\ th[p].word \in WordIdx
           /\ \A q \in Procs \ {p} : th'[q] = th[q]
           /\ \/ /\ SameFields(p) /\ res' = res
                 /\ th'[p].pc = IF th[p].op = "SafeSet" THEN "refuse" ELSE "copy"
                 /\ th'[p].word = 1 /\ th'[p].vs = th[p].vs
              \/ /\ SameFields(p) /\ res' = res /\ th'[p].pc = "compare"
                 /\ th[p].word # WordNum /\ th'[p].word = th[p].word + 1
                 /\ block[th[p].off][th[p].word] = 0 /\ th'[p].vs = th[p].vs
              \/ /\ SameFields(p) /\ res' = res /\ th[p].op = "SafeSet" /\ th'[p].pc = "odd"
                 /\ th[p].word = WordNum /\ block[th[p].off][th[p].word] = 0
              \/ /\ th[p].op # "SafeSet" /\ Return(p, FALSE) /\ th'[p] = Nil
                 /\ th[p].word = WordNum /\ block[th[p].off][th[p].word] = 0
<1>1. TypeOK /\ th[p] # Nil /\ th[p].pc = "compare"
  BY DEF LockInv, Compare, At
<1>2. th[p].off \in Offsets /\ th[p].word \in WordIdx
  BY <1>1, ThreadTypes
<1>3. CASE block[th[p].off][th[p].word] # 0
  <2>1. Goto(p, IF th[p].op = "SafeSet" THEN "refuse" ELSE "copy") /\ res' = res
    BY <1>3 DEF Compare
  <2> QED BY <1>1, <1>2, <2>1, GotoFields DEF Places
<1>4. CASE block[th[p].off][th[p].word] = 0 /\ th[p].word # WordNum
  <2>1. th' = [th EXCEPT ![p].word = @ + 1] /\ res' = res
    BY <1>4 DEF Compare, LastWord
  <2> QED BY <1>1, <1>2, <1>4, <2>1, NextWordFields
<1>5. CASE block[th[p].off][th[p].word] = 0 /\ th[p].word = WordNum /\ th[p].op = "SafeSet"
  <2>1. Goto(p, "odd") /\ res' = res
    BY <1>5 DEF Compare, LastWord
  <2> QED BY <1>1, <1>2, <1>5, <2>1, GotoFields DEF Places
<1>6. CASE block[th[p].off][th[p].word] = 0 /\ th[p].word = WordNum /\ th[p].op # "SafeSet"
  <2>1. Return(p, FALSE)
    BY <1>6 DEF Compare, LastWord
  <2> QED BY <1>1, <1>2, <1>6, <2>1, ReturnTypes, EndFields
<1> QED BY <1>3, <1>4, <1>5, <1>6

LEMMA RecheckCases ==
    ASSUME LockInv, NEW p \in Procs, Recheck(p)
    PROVE  /\ th[p] # Nil /\ th[p].pc = "recheck" /\ th[p].op # "SafeSet"
           /\ th[p].off \in Offsets
           /\ \A q \in Procs \ {p} : th'[q] = th[q]
           /\ \/ Usable(th[p]) /\ Return(p, TRUE) /\ th'[p] = Nil
              \/ th[p].op # "SafeGet" /\ Return(p, FALSE) /\ th'[p] = Nil
              \/ SameFields(p) /\ th'[p].pc = "version" /\ res' = res
<1>1. TypeOK /\ th[p] # Nil /\ th[p].pc = "recheck" /\ th[p].off \in Offsets
  BY ThreadTypes DEF LockInv, Recheck, At
<1>2. th[p].op # "SafeSet"
  BY <1>1 DEF LockInv, Placed
<1>3. \/ Usable(th[p]) /\ Return(p, TRUE)
      \/ Goto(p, "version") /\ res' = res
      \/ th[p].op # "SafeGet" /\ Return(p, FALSE)
  BY DEF Recheck
<1>4. CASE Usable(th[p]) /\ Return(p, TRUE)
  BY <1>1, <1>2, <1>4, ReturnTypes, EndFields
<1>5. CASE Goto(p, "version") /\ res' = res
  BY <1>1, <1>2, <1>5, GotoFields DEF Places
<1>6. CASE th[p].op # "SafeGet" /\ Return(p, FALSE)
  BY <1>1, <1>2, <1>6, ReturnTypes, EndFields
<1> QED BY <1>3, <1>4, <1>5, <1>6

\* The steps that change no counter.
LEMMA QuietCount ==
    ASSUME LockInv, CountInv, LockInv', NEW p \in Procs,
           Compare(p) \/ WriteWord(p) \/ ReadVersion(p) \/ CopyWord(p) \/ Recheck(p) \/ Crash(p)
    PROVE  CountInv'
<1>0. TypeOK /\ ver' = ver /\ sem' = sem
  BY DEF LockInv, Compare, WriteWord, ReadVersion, CopyWord, Recheck, Crash, memory
<1>1. CASE Compare(p)
  <2>1. ops' = ops /\ th[p].pc = "compare" /\ \A q \in Procs \ {p} : th'[q] = th[q]
    BY <1>1, CompareCases DEF Compare
  <2>2. th'[p] # Nil => SameFields(p) /\ th'[p].pc \in {"refuse", "copy", "compare", "odd"}
    BY <1>1, CompareCases
  <2>3. CASE th'[p] = Nil
    BY <1>0, <2>1, <2>3, KeepsCount DEF Locked, CanCount
  <2>4. CASE th'[p] # Nil
    BY <1>0, <2>1, <2>2, <2>4, KeepsCount DEF Locked, Writing, CanCount, SameFields
  <2> QED BY <2>3, <2>4
<1>2. CASE WriteWord(p)
  <2>1. ops' = ops /\ th[p] # Nil /\ th[p].pc = "write"
    BY <1>2 DEF WriteWord, At
  <2>2. SameFields(p) /\ th'[p].pc \in {"write", "even"} /\ \A q \in Procs \ {p} : th'[q] = th[q]
    <3>1. CASE th[p].word < WordNum
      <4>1. th' = [th EXCEPT ![p].word = @ + 1] /\ th[p].word # WordNum
        BY <1>0, <1>2, <2>1, <3>1, ThreadTypes, SizeAssumption
        DEF SizeAssumption, WordIdx, WriteWord
      <4> QED BY <1>0, <2>1, <4>1, NextWordFields
    <3>2. CASE ~(th[p].word < WordNum)
      BY <1>0, <1>2, <2>1, <3>2, GotoFields DEF WriteWord, Places
    <3> QED BY <3>1, <3>2
  <2> QED BY <1>0, <2>1, <2>2, KeepsCount DEF Locked, Writing, CanCount, SameFields
<1>3. CASE ReadVersion(p) \/ CopyWord(p)
  <2>1. ops' = ops /\ SameFields(p) /\ th[p].pc \in {"version", "copy"}
        /\ \A q \in Procs \ {p} : th'[q] = th[q]
    BY <1>0, <1>3, ReadVersionFields, CopyWordFields DEF ReadVersion, CopyWord
  <2>2. th[p].op # "SafeSet"
    BY <2>1 DEF LockInv, Placed, SameFields
  <2> QED BY <1>0, <2>1, <2>2, KeepsCount DEF Locked, CanCount, SameFields
<1>4. CASE Recheck(p)
  <2>1. ops' = ops /\ th[p].op # "SafeSet" /\ (th'[p] = Nil \/ SameFields(p))
        /\ \A q \in Procs \ {p} : th'[q] = th[q]
    BY <1>4, RecheckCases DEF Recheck
  <2> QED BY <1>0, <2>1, KeepsCount DEF Locked, CanCount, SameFields
<1>5. CASE Crash(p)
  <2>1. ops' = ops /\ th'[p] = Nil /\ \A q \in Procs \ {p} : th'[q] = th[q]
    BY <1>0, <1>5 DEF Crash, TypeOK
  <2> QED BY <1>0, <2>1, KeepsCount DEF Locked, CanCount
<1> QED BY <1>1, <1>2, <1>3, <1>4, <1>5

LEMMA BeginCount ==
    ASSUME LockInv, CountInv, LockInv', NEW p \in Procs, NEW op \in Ops, NEW o \in Offsets,
           NEW buf \in Blocks, NEW place \in {"lock", "version"}, place = "lock" <=> op = "SafeSet",
           Begin(p, op, place, o, buf)
    PROVE  CountInv'
<1>1. /\ ver' = ver /\ sem' = sem /\ ops' = [ops EXCEPT ![p] = ops[p] + 1]
      /\ th[p] = Nil /\ TypeOK /\ \A q \in Procs \ {p} : th'[q] = th[q]
  BY DEF Begin, memory, LockInv, TypeOK
<1>2. ops'[p] = ops[p] + 1 /\ ops[p] \in Nat /\ \A q \in Procs \ {p} : ops'[q] = ops[q]
  BY <1>1 DEF TypeOK
<1>3. Bounded'
  <2>1. ASSUME NEW q \in Procs, NEW i \in 1 .. MaxOps, NEW k \in 1 .. 2, MayCount(q, i, k)'
        PROVE  MayCount(q, i, k)
    <3>1. CASE q = p
      BY <1>2, <2>1, <3>1 DEF MayCount
    <3>2. CASE q # p
      BY <1>1, <1>2, <2>1, <3>2 DEF MayCount, CanCount
    <3> QED BY <3>1, <3>2
  <2> QED BY <1>1, <2>1, KeepsBound DEF CountInv
<1>4. ~Locked(p)'
  <2>1. th'[p].op = op /\ th'[p].pc = place
    BY <1>1 DEF Begin, TypeOK
  <2> QED BY <2>1 DEF Locked
<1>5. Parity'
  BY <1>1, <1>4 DEF CountInv, Parity, Locked, Writing
<1>6. Fresh'
  BY <1>2 DEF Fresh
<1> QED BY <1>3, <1>5, <1>6 DEF CountInv

LEMMA LockCount ==
    ASSUME LockInv, CountInv, LockInv', NEW p \in Procs, Lock(p)
    PROVE  CountInv'
<1>1. /\ TypeOK /\ ver' = ver /\ ops' = ops /\ sem = 1 /\ sem' = 0
      /\ th[p] # Nil /\ th[p].pc = "lock" /\ Goto(p, "compare")
  BY DEF Lock, At, LockInv, TypeOK
<1>2. SameFields(p) /\ th'[p].pc = "compare" /\ \A q \in Procs \ {p} : th'[q] = th[q]
  BY <1>1, GotoFields DEF Places
<1>3. \A q \in Procs : ~Locked(q)
  BY <1>1 DEF LockInv, Mutex
<1>4. \A q \in Procs : ~Writing(q)'
  BY <1>2, <1>3 DEF Writing, Locked
<1>5. Parity'
  BY <1>1, <1>4 DEF CountInv, Parity
<1>6. Bounded'
  <2>1. \A q \in Procs, k \in 1 .. 2 : CanCount(q, k)' => CanCount(q, k)
    BY <1>1, <1>2 DEF CanCount, SameFields
  <2> QED BY <1>1, <2>1, KeepsBound DEF MayCount, CountInv
<1>7. Fresh'
  BY <1>1 DEF CountInv, Fresh
<1> QED BY <1>5, <1>6, <1>7 DEF CountInv

LEMMA UnlockCount ==
    ASSUME LockInv, CountInv, LockInv', NEW p \in Procs, Unlock(p)
    PROVE  CountInv'
<1>1. /\ TypeOK /\ ver' = ver /\ ops' = ops /\ th[p] # Nil /\ th[p].pc \in {"unlock", "refuse"}
      /\ \E ok \in BOOLEAN : Return(p, ok)
  BY DEF LockInv, Unlock, At
<1>2. Locked(p) /\ \A q \in Procs : ~Locked(q)'
  BY UnlockStep
<1>3. th'[p] = Nil /\ \A q \in Procs \ {p} : th'[q] = th[q]
  BY <1>1, ReturnTypes, EndFields
<1>4. \A o \in Offsets : Even(ver[o])
  BY <1>1, <1>2 DEF CountInv, Parity, Writing
<1>5. Parity'
  BY <1>1, <1>2, <1>4 DEF Parity
<1>6. Bounded'
  <2>1. \A q \in Procs, k \in 1 .. 2 : CanCount(q, k)' => CanCount(q, k)
    BY <1>3 DEF CanCount
  <2> QED BY <1>1, <2>1, KeepsBound DEF MayCount, CountInv
<1>7. Fresh'
  BY <1>1 DEF CountInv, Fresh
<1> QED BY <1>5, <1>6, <1>7 DEF CountInv

LEMMA EvenOdd == \A n \in Nat : Even(n + 1) <=> ~Even(n)
BY DEF Even

LEMMA CountCount ==
    ASSUME LockInv, CountInv, LockInv', NEW p \in Procs, CountOdd(p) \/ CountEven(p)
    PROVE  /\ CountInv'
           /\ ver' = [ver EXCEPT ![th[p].off] = ver[th[p].off] + 1]
           /\ th[p].off \in Offsets /\ Locked(p) /\ Locked(p)' /\ SameFields(p)
           /\ th'[p].buf = th[p].buf /\ th'[p].word = 1
           /\ \A q \in Procs \ {p} : th'[q] = th[q] /\ ~Locked(q)
<1>o. PICK o : o = th[p].off
  OBVIOUS
<1>1. /\ TypeOK /\ th[p] # Nil /\ th[p].pc \in {"odd", "even"} /\ ops' = ops /\ sem' = sem
      /\ ver' = [ver EXCEPT ![o] = (ver[o] + 1) % VersionMod]
      /\ Goto(p, IF th[p].pc = "odd" THEN "write" ELSE "unlock")
  BY <1>o DEF LockInv, CountOdd, CountEven, Count, At
<1>2. th[p].op = "SafeSet" /\ o \in Offsets
  BY <1>o, <1>1, ThreadTypes DEF LockInv, Placed
<1>3. /\ SameFields(p) /\ th'[p].pc = IF th[p].pc = "odd" THEN "write" ELSE "unlock"
      /\ th'[p].buf = th[p].buf /\ th'[p].word = 1
      /\ \A q \in Procs \ {p} : th'[q] = th[q]
  BY <1>1, GotoFields DEF Places
<1>4. Locked(p) /\ Locked(p)' /\ \A q \in Procs \ {p} : ~Locked(q) /\ ~Locked(q)'
  <2>1. Locked(p) /\ Locked(p)'
    BY <1>1, <1>2, <1>3 DEF Locked, SameFields
  <2> QED BY <1>3, <2>1 DEF LockInv, Mutex, Locked
<1> DEFINE k == IF th[p].pc = "odd" THEN 1 ELSE 2
           x == <<<<p, ops[p]>>, k>>
<1>5. /\ x \in Unspent /\ ver[o] \in Nat /\ (ver[o] + 1) % VersionMod = ver[o] + 1
      /\ ver[o] + 1 + Cardinality(Unspent \ {x}) <= Most
  BY <1>o, <1>1, <1>2, NoWrap DEF CountInv
<1>6. ver' = [ver EXCEPT ![o] = ver[o] + 1]
  BY <1>1, <1>5
<1>7. ver'[o] = ver[o] + 1 /\ \A u \in Offsets \ {o} : ver'[u] = ver[u]
  BY <1>1, <1>2, <1>6 DEF TypeOK
<1>8. Bounded'
  <2>1. Unspent' \subseteq Unspent \ {x}
    <3>1. ASSUME NEW q \in Procs, NEW i \in 1 .. MaxOps, NEW j \in 1 .. 2, MayCount(q, i, j)'
          PROVE  MayCount(q, i, j) /\ <<<<q, i>>, j>> # x
      <4>1. CASE q # p
        BY <1>1, <1>3, <3>1, <4>1 DEF MayCount, CanCount
      <4>2. CASE q = p /\ i > ops[p]
        BY <1>1, <3>1, <4>2 DEF MayCount, LockInv, TypeOK
      <4>3. CASE q = p /\ ~(i > ops[p])
        <5>1. i = ops[p] /\ th'[p].pc \in {"write", "even"} /\ j = 2
          BY <1>1, <1>3, <3>1, <4>3 DEF MayCount, CanCount
        <5>2. th[p].pc = "odd"
          BY <1>1, <1>3, <5>1
        <5> QED BY <1>1, <1>2, <4>3, <5>1, <5>2 DEF MayCount, CanCount
      <4> QED BY <4>1, <4>2, <4>3
    <3> HIDE DEF x
    <3> QED BY <3>1 DEF Unspent, Slots
  <2> HIDE DEF x
  <2>2. IsFiniteSet(Unspent \ {x}) /\ Cardinality(Unspent \ {x}) \in Nat
    BY UnspentFinite, FS_RemoveElement, FS_CardinalityType
  <2>3. Cardinality(Unspent') <= Cardinality(Unspent \ {x}) /\ Cardinality(Unspent') \in Nat
    BY <2>1, <2>2, FS_Subset, FS_CardinalityType
  <2>4. Cardinality(Unspent \ {x}) <= Cardinality(Unspent) /\ Cardinality(Unspent) \in Nat
    BY UnspentFinite, FS_Subset
  <2>5. ASSUME NEW u \in Offsets PROVE ver'[u] + Cardinality(Unspent') <= Most
    <3>1. CASE u = o
      <4>1. ver'[u] \in Nat /\ ver'[u] + Cardinality(Unspent \ {x}) <= Most
        BY <1>5, <1>7, <3>1
      <4> QED BY <2>2, <2>3, <4>1, SlotsFinite
    <3>2. CASE u # o
      <4>1. ver'[u] = ver[u] /\ ver[u] \in Nat /\ ver[u] + Cardinality(Unspent) <= Most
        BY <1>1, <1>7, <3>2 DEF CountInv, Bounded, TypeOK
      <4>2. \A v, a, b, c, m \in Nat : v + a <= m /\ b <= a /\ c <= b => v + c <= m
        OBVIOUS
      <4> QED BY <2>2, <2>3, <2>4, <4>1, <4>2, SlotsFinite
    <3> QED BY <3>1, <3>2
  <2> QED BY <2>5 DEF Bounded
<1>9. Parity'
  <2>1. sem' = 0 /\ sem = 0
    BY <1>1, <1>4 DEF LockInv, Mutex
  <2>2. ASSUME NEW u \in Offsets
        PROVE  Even(ver'[u]) <=> ~(Writing(p)' /\ th'[p].off = u)
    <3>1. Even(ver[u]) <=> ~(Writing(p) /\ th[p].off = u)
      BY <1>4 DEF CountInv, Parity
    <3>2. Writing(p)' <=> ~Writing(p)
      BY <1>1, <1>3, <1>4 DEF Writing
    <3>3. CASE u = o
      BY <1>o, <1>3, <1>5, <1>7, <3>1, <3>2, <3>3, EvenOdd DEF SameFields
    <3>4. CASE u # o
      BY <1>o, <1>3, <1>7, <3>1, <3>4 DEF SameFields
    <3> QED BY <3>3, <3>4
  <2> QED BY <1>4, <2>1, <2>2 DEF Parity
<1>10. Fresh'
  BY <1>1 DEF Fresh, LockInv, Placed
<1> QED BY <1>o, <1>2, <1>3, <1>4, <1>6, <1>8, <1>9, <1>10 DEF CountInv

LEMMA InitCount ==
    ASSUME LockInv, CountInv, LockInv', ~LateInit, NEW p \in Procs, Init(p)
    PROVE  CountInv'
<1>1. (\A q \in Procs : th[q] = Nil /\ ops[q] = 0) /\ ver' = ver /\ th' = th /\ ops' = ops
  BY InitStep DEF Init
<1>2. \A o \in Offsets : ver[o] = 0
  BY <1>1 DEF CountInv, Fresh
<1>3. Parity'
  <2>1. Even(0)
    BY DEF Even
  <2> QED BY <1>1, <1>2, <2>1 DEF Parity, Locked
<1>4. Bounded' /\ Fresh'
  BY <1>1, KeepsBound DEF CountInv, Fresh, MayCount, CanCount
<1> QED BY <1>3, <1>4 DEF CountInv

LEMMA StartCountInv == Start => CountInv
<1> SUFFICES ASSUME Start PROVE CountInv
  OBVIOUS
<1>1. \A o \in Offsets : ver[o] = 0
  BY DEF Start
<1>2. Parity /\ Fresh
  <2>1. Even(0)
    BY DEF Even
  <2> QED BY <1>1, <2>1 DEF Start, Parity, Fresh, Locked
<1>3. Cardinality(Unspent) <= Most /\ Cardinality(Unspent) \in Nat
  BY UnspentFinite, SlotsFinite, FS_Subset
<1>4. Bounded
  BY <1>1, <1>3, SlotsFinite DEF Bounded
<1> QED BY <1>2, <1>4 DEF CountInv

LEMMA NextCountInv ==
    ASSUME ~LateInit
    PROVE  LockInv /\ LockInv' /\ CountInv /\ [Next]_vars => CountInv'
<1> SUFFICES ASSUME LockInv, LockInv', CountInv, [Next]_vars PROVE CountInv'
  OBVIOUS
<1>1. ASSUME NEW p \in Procs, SafeSet(p) \/ SafeGet(p) PROVE CountInv'
  BY <1>1, BeginOf, BeginCount
<1>2. ASSUME NEW p \in Procs, Continue(p) PROVE CountInv'
  BY <1>2, QuietCount, LockCount, CountCount, UnlockCount DEF Continue
<1>3. ASSUME UNCHANGED vars PROVE CountInv'
  <2>1. ver' = ver /\ sem' = sem /\ th' = th /\ ops' = ops
    BY <1>3 DEF vars, memory
  <2> QED BY <2>1, KeepsBound DEF CountInv, Parity, Locked, Writing, Fresh, MayCount, CanCount
<1> QED BY <1>1, <1>2, <1>3, InitCount, QuietCount DEF Next

\* The counters: odd exactly while a block is written, and never around.
THEOREM CountInvariant == ASSUME ~LateInit PROVE Spec => []CountInv
<1>1. LockInv /\ LockInv' /\ CountInv /\ [Next]_vars => CountInv'
  BY NextCountInv
<1> QED BY <1>1, StartCountInv, LockInvariant, PTL DEF Spec

-----------------------------------------------------------------------------
(***************************************************************************)
(* The blocks.                                                             *)
(***************************************************************************)
Contents(o) ==
    /\ \A x, y \in stored[o] \ {Zero} : x = y
    /\ o \in done => block[o] \in stored[o] \ {Zero}
    /\ Even(ver[o]) => /\ block[o] \in stored[o] \cup {Zero}
                       /\ stored[o] \subseteq {Zero, block[o]}

Begun(t, x, y) == \A i \in WordIdx : i < t.word => x[i] = y[i]

Setter(p) ==
    Locked(p) =>
        LET t == th[p]  o == th[p].off IN
        /\ t.pc = "compare" => Begun(t, block[o], Zero)
        /\ t.pc = "odd" => block[o] = Zero
        /\ t.pc \in {"write", "even"} =>
              o \notin done /\ t.buf \in stored[o] /\ stored[o] \subseteq {Zero, t.buf}
        /\ t.pc = "write" => Begun(t, block[o], t.buf)
        /\ t.pc = "even" => block[o] = t.buf

Reader(p) ==
    th[p] # Nil /\ th[p].op # "SafeSet" =>
        LET t == th[p]  o == th[p].off IN
        /\ t.late => o \in done
        /\ t.late /\ t.pc = "compare" => Begun(t, block[o], Zero)
        /\ t.pc \in {"compare", "copy", "recheck"} => t.vs <= ver[o]
        /\ Even(t.vs) /\ ver[o] = t.vs =>
              /\ t.pc = "copy" => Begun(t, t.buf, block[o])
              /\ t.pc = "recheck" => t.buf = block[o]

Answered(p) ==
    res[p] # Nil =>
        /\ res[p].ok /\ res[p].op # "SafeSet" => res[p].buf \in stored[res[p].off] \cup {Zero}
        /\ res[p].op = "SafeGet" /\ ~res[p].ok => ~res[p].late

DataInv ==
    /\ \A o \in Offsets : Contents(o)
    /\ \A p \in Procs : Setter(p) /\ Reader(p) /\ Answered(p)

\* A step that leaves blocks and counters alone is seen by its process only.
LEMMA KeepsData ==
    ASSUME DataInv, NEW p \in Procs, UNCHANGED <<block, ver, stored, done>>,
           \A q \in Procs \ {p} : th'[q] = th[q] /\ res'[q] = res[q],
           Setter(p)', Reader(p)', Answered(p)'
    PROVE  DataInv'
<1>1. \A o \in Offsets : Contents(o)'
  BY DEF DataInv, Contents
<1>2. ASSUME NEW q \in Procs \ {p} PROVE Setter(q)' /\ Reader(q)' /\ Answered(q)'
  <2>1. th'[q] = th[q] /\ res'[q] = res[q] /\ Setter(q) /\ Reader(q) /\ Answered(q)
    BY DEF DataInv
  <2> QED BY <2>1 DEF Setter, Reader, Answered, Locked, Begun
<1> QED BY <1>1, <1>2 DEF DataInv

\* Two blocks that agree word by word.
LEMMA SameBlock ==
    ASSUME NEW x \in Blocks, NEW y \in Blocks, \A i \in WordIdx : x[i] = y[i]
    PROVE  x = y
BY DEF Blocks

LEMMA ZeroBlock == Zero \in Blocks /\ \A i \in WordIdx : Zero[i] = 0
BY DEF Zero, Blocks

LEMMA WordOrder ==
    /\ \A i, w \in WordIdx : i < w + 1 => i < w \/ i = w
    /\ \A i \in WordIdx : ~(i < 1) /\ (i < WordNum \/ i = WordNum)
BY SizeAssumption DEF SizeAssumption, WordIdx

LEMMA BeginData ==
    ASSUME LockInv, DataInv, NEW p \in Procs, NEW op \in Ops, NEW o \in Offsets,
           NEW buf \in Blocks, NEW place \in {"lock", "version"}, place = "lock" <=> op = "SafeSet",
           Begin(p, op, place, o, buf)
    PROVE  DataInv'
<1> DEFINE t == [op |-> op, pc |-> place, off |-> o, buf |-> buf,
                 word |-> 1, vs |-> 0, late |-> o \in done]
<1>1. /\ UNCHANGED <<block, ver, stored, done>> /\ TypeOK
      /\ th' = [th EXCEPT ![p] = t] /\ res' = [res EXCEPT ![p] = Nil]
  BY DEF Begin, memory, LockInv
<1>2. th'[p] = t /\ res'[p] = Nil /\ \A q \in Procs \ {p} : th'[q] = th[q] /\ res'[q] = res[q]
  BY <1>1 DEF TypeOK
<1>3. th'[p].op = op /\ th'[p].pc = place /\ th'[p].off = o /\ (th'[p].late => o \in done)
  <2>1. t.op = op /\ t.pc = place /\ t.off = o /\ t.late = (o \in done)
    BY Zenon
  <2> HIDE DEF t
  <2> QED BY <1>2, <2>1
<1>4. Setter(p)' /\ Reader(p)' /\ Answered(p)'
  BY <1>1, <1>2, <1>3 DEF Setter, Reader, Answered, Locked
<1> QED BY <1>1, <1>2, <1>4, KeepsData

LEMMA LockData ==
    ASSUME LockInv, DataInv, NEW p \in Procs, Lock(p)
    PROVE  DataInv'
<1>1. /\ UNCHANGED <<block, ver, stored, done>> /\ TypeOK /\ res' = res
      /\ th[p] # Nil /\ th[p].pc = "lock" /\ Goto(p, "compare")
  BY DEF Lock, At, LockInv
<1>2. SameFields(p) /\ th'[p].pc = "compare" /\ th'[p].word = 1
      /\ \A q \in Procs \ {p} : th'[q] = th[q]
  BY <1>1, GotoFields DEF Places
<1>3. th'[p].op = "SafeSet"
  BY <1>1, <1>2 DEF LockInv, Placed, SameFields
<1>4. Setter(p)' /\ Reader(p)' /\ Answered(p)'
  BY <1>1, <1>2, <1>3, WordOrder DEF Setter, Reader, Answered, Begun, DataInv
<1> QED BY <1>1, <1>2, <1>4, KeepsData

LEMMA CompareData ==
    ASSUME LockInv, DataInv, NEW p \in Procs, Compare(p)
    PROVE  DataInv'
<1>1. UNCHANGED <<block, ver, stored, done>> /\ TypeOK
  BY DEF Compare, memory, LockInv
<1>2. /\ th[p] # Nil /\ th[p].pc = "compare" /\ th[p].off \in Offsets /\ th[p].word \in WordIdx
      /\ block[th[p].off] \in Blocks
      /\ \A q \in Procs \ {p} : th'[q] = th[q]
  BY <1>1, CompareCases DEF TypeOK
<1>3. Setter(p) /\ Reader(p) /\ Answered(p) /\ Contents(th[p].off)
  BY <1>2 DEF DataInv
<1>4. CASE /\ SameFields(p) /\ res' = res
           /\ th'[p].pc = IF th[p].op = "SafeSet" THEN "refuse" ELSE "copy"
           /\ th'[p].word = 1 /\ th'[p].vs = th[p].vs
  <2>1. Setter(p)'
    BY <1>4 DEF Setter, SameFields, Locked
  <2>2. Reader(p)'
    BY <1>1, <1>2, <1>3, <1>4, WordOrder DEF Reader, SameFields, Begun
  <2> QED BY <1>1, <1>2, <1>3, <1>4, <2>1, <2>2, KeepsData DEF Answered
<1>5. CASE /\ SameFields(p) /\ res' = res /\ th'[p].pc = "compare"
           /\ th[p].word # WordNum /\ th'[p].word = th[p].word + 1
           /\ block[th[p].off][th[p].word] = 0 /\ th'[p].vs = th[p].vs
  <2>1. Begun(th[p], block[th[p].off], Zero) => Begun(th'[p], block[th[p].off], Zero)
    BY <1>2, <1>5, WordOrder, ZeroBlock DEF Begun
  <2>2. Setter(p)'
    BY <1>1, <1>2, <1>3, <1>5, <2>1 DEF Setter, SameFields, Locked
  <2>3. Reader(p)'
    BY <1>1, <1>2, <1>3, <1>5, <2>1 DEF Reader, SameFields
  <2> QED BY <1>1, <1>2, <1>3, <1>5, <2>2, <2>3, KeepsData DEF Answered
<1>6. ASSUME th[p].word = WordNum, block[th[p].off][th[p].word] = 0,
             Begun(th[p], block[th[p].off], Zero)
      PROVE  block[th[p].off] = Zero
  <2>1. \A i \in WordIdx : block[th[p].off][i] = Zero[i]
    BY <1>2, <1>6, WordOrder, ZeroBlock DEF Begun
  <2> QED BY <1>2, <2>1, SameBlock, ZeroBlock
<1>7. CASE /\ SameFields(p) /\ res' = res /\ th[p].op = "SafeSet" /\ th'[p].pc = "odd"
           /\ th[p].word = WordNum /\ block[th[p].off][th[p].word] = 0
  <2>1. Locked(p)
    BY <1>2, <1>7 DEF Locked
  <2>2. block[th[p].off] = Zero
    BY <1>2, <1>3, <1>6, <1>7, <2>1 DEF Setter
  <2>3. Setter(p)' /\ Reader(p)'
    BY <1>1, <1>7, <2>2 DEF Setter, Reader, SameFields
  <2> QED BY <1>1, <1>2, <1>3, <1>7, <2>3, KeepsData DEF Answered
<1>8. CASE /\ th[p].op # "SafeSet" /\ Return(p, FALSE) /\ th'[p] = Nil
           /\ th[p].word = WordNum /\ block[th[p].off][th[p].word] = 0
  <2>1. ~th[p].late
    <3>1. SUFFICES ASSUME th[p].late PROVE FALSE
      OBVIOUS
    <3>2. th[p].off \in done /\ block[th[p].off] = Zero
      BY <1>2, <1>3, <1>6, <1>8, <3>1 DEF Reader
    <3> QED BY <1>3, <3>2 DEF Contents
  <2>2. /\ res'[p].ok = FALSE /\ res'[p].late = th[p].late
        /\ \A q \in Procs \ {p} : res'[q] = res[q]
    BY <1>1, <1>2, <1>8, ReturnTypes
  <2>3. Setter(p)' /\ Reader(p)' /\ Answered(p)'
    BY <1>8, <2>1, <2>2 DEF Setter, Reader, Answered, Locked
  <2> QED BY <1>1, <1>2, <2>2, <2>3, KeepsData
<1> QED BY <1>4, <1>5, <1>7, <1>8, CompareCases

LEMMA ReadVersionData ==
    ASSUME LockInv, DataInv, NEW p \in Procs, ReadVersion(p)
    PROVE  DataInv'
<1>1. UNCHANGED <<block, ver, stored, done>> /\ TypeOK /\ res' = res
  BY DEF ReadVersion, memory, LockInv
<1>2. /\ SameFields(p) /\ th[p].pc = "version" /\ th'[p].word = 1
      /\ th'[p].pc \in {"compare", "copy"} /\ th'[p].vs = ver[th[p].off]
      /\ \A q \in Procs \ {p} : th'[q] = th[q]
  BY <1>1, ReadVersionFields
<1>3. th[p].op # "SafeSet" /\ ver[th[p].off] \in Nat
  BY <1>1, <1>2, ThreadTypes DEF LockInv, Placed, SameFields, TypeOK
<1>4. Reader(p) /\ Answered(p)
  BY DEF DataInv
<1>5. Setter(p)' /\ Answered(p)'
  BY <1>1, <1>2, <1>3, <1>4 DEF Setter, Locked, SameFields, Answered
<1>6. Reader(p)'
  BY <1>1, <1>2, <1>3, <1>4, WordOrder DEF Reader, SameFields, Begun
<1> QED BY <1>1, <1>2, <1>5, <1>6, KeepsData

LEMMA CopyWordData ==
    ASSUME LockInv, LockInv', DataInv, NEW p \in Procs, CopyWord(p)
    PROVE  DataInv'
<1>1. UNCHANGED <<block, ver, stored, done>> /\ TypeOK /\ TypeOK' /\ res' = res
  BY DEF CopyWord, memory, LockInv
<1>2. /\ SameFields(p) /\ th[p].pc = "copy" /\ th'[p].vs = th[p].vs
      /\ th'[p].buf = [th[p].buf EXCEPT ![th[p].word] = block[th[p].off][th[p].word]]
      /\ th'[p].word = IF th[p].word < WordNum THEN th[p].word + 1 ELSE 1
      /\ th'[p].pc = IF th[p].word < WordNum THEN "copy" ELSE "recheck"
      /\ \A q \in Procs \ {p} : th'[q] = th[q]
  BY <1>1, CopyWordFields
<1>3. /\ th[p].op # "SafeSet" /\ th[p].word \in WordIdx /\ th[p].buf \in Blocks
      /\ block[th[p].off] \in Blocks
  BY <1>1, <1>2, ThreadTypes DEF LockInv, Placed, SameFields, TypeOK
<1>4. Reader(p) /\ Answered(p)
  BY DEF DataInv
<1>5. Setter(p)' /\ Answered(p)'
  BY <1>1, <1>2, <1>3, <1>4 DEF Setter, Locked, SameFields, Answered
<1>6. /\ th'[p].buf \in Blocks /\ th'[p].buf[th[p].word] = block[th[p].off][th[p].word]
      /\ \A i \in WordIdx : i < th[p].word => th'[p].buf[i] = th[p].buf[i]
  <2>1. block[th[p].off][th[p].word] \in Nat
    BY <1>3 DEF Blocks
  <2>2. \A i \in WordIdx : i < th[p].word => i # th[p].word
    BY SizeAssumption DEF SizeAssumption, WordIdx
  <2> QED BY <1>2, <1>3, <2>1, <2>2 DEF Blocks
<1>7. ASSUME Begun(th[p], th[p].buf, block[th[p].off])
      PROVE  /\ th'[p].pc = "copy" => Begun(th'[p], th'[p].buf, block[th[p].off])
             /\ th'[p].pc = "recheck" => th'[p].buf = block[th[p].off]
  <2>1. CASE th[p].word < WordNum
    BY <1>2, <1>3, <1>6, <1>7, <2>1, WordOrder DEF Begun
  <2>2. CASE ~(th[p].word < WordNum)
    <3>1. th[p].word = WordNum
      BY <1>3, <2>2, WordOrder
    <3>2. \A i \in WordIdx : th'[p].buf[i] = block[th[p].off][i]
      BY <1>3, <1>6, <1>7, <3>1, WordOrder DEF Begun
    <3> QED BY <1>2, <1>3, <1>6, <2>2, <3>2, SameBlock
  <2> QED BY <2>1, <2>2
<1>8. Reader(p)'
  BY <1>1, <1>2, <1>3, <1>4, <1>7 DEF Reader, SameFields
<1> QED BY <1>1, <1>2, <1>5, <1>8, KeepsData

LEMMA RecheckData ==
    ASSUME LockInv, DataInv, NEW p \in Procs, Recheck(p)
    PROVE  DataInv'
<1>1. UNCHANGED <<block, ver, stored, done>> /\ TypeOK
  BY DEF Recheck, memory, LockInv
<1>2. /\ th[p] # Nil /\ th[p].pc = "recheck" /\ th[p].op # "SafeSet" /\ th[p].off \in Offsets
      /\ \A q \in Procs \ {p} : th'[q] = th[q]
  BY RecheckCases
<1>3. Reader(p) /\ Answered(p) /\ Contents(th[p].off)
  BY <1>2 DEF DataInv
<1>4. CASE Usable(th[p]) /\ Return(p, TRUE) /\ th'[p] = Nil
  <2>1. th[p].buf \in stored[th[p].off] \cup {Zero}
    BY <1>2, <1>3, <1>4 DEF Usable, Even, Reader, Contents
  <2>2. /\ res'[p].buf = th[p].buf /\ res'[p].off = th[p].off /\ res'[p].ok = TRUE
        /\ \A q \in Procs \ {p} : res'[q] = res[q]
    BY <1>1, <1>2, <1>4, ReturnTypes
  <2>3. Setter(p)' /\ Reader(p)' /\ Answered(p)'
    BY <1>1, <1>4, <2>1, <2>2 DEF Setter, Reader, Answered, Locked
  <2> QED BY <1>1, <1>2, <2>2, <2>3, KeepsData
<1>5. CASE th[p].op # "SafeGet" /\ Return(p, FALSE) /\ th'[p] = Nil
  <2>1. /\ res'[p].op = th[p].op /\ res'[p].ok = FALSE
        /\ \A q \in Procs \ {p} : res'[q] = res[q]
    BY <1>1, <1>2, <1>5, ReturnTypes
  <2>2. Setter(p)' /\ Reader(p)' /\ Answered(p)'
    BY <1>5, <2>1 DEF Setter, Reader, Answered, Locked
  <2> QED BY <1>1, <1>2, <2>1, <2>2, KeepsData
<1>6. CASE SameFields(p) /\ th'[p].pc = "version" /\ res' = res
  <2>1. Setter(p)' /\ Reader(p)' /\ Answered(p)'
    BY <1>1, <1>2, <1>3, <1>6 DEF Setter, Reader, Answered, Locked, SameFields
  <2> QED BY <1>1, <1>2, <1>6, <2>1, KeepsData
<1> QED BY <1>4, <1>5, <1>6, RecheckCases

LEMMA UnlockData ==
    ASSUME LockInv, DataInv, NEW p \in Procs, Unlock(p)
    PROVE  DataInv'
<1>1. /\ TypeOK /\ th[p] # Nil /\ UNCHANGED <<block, ver, stored, done>>
      /\ \E ok \in BOOLEAN : Return(p, ok)
  BY DEF LockInv, Unlock, At
<1>2. th[p].op = "SafeSet"
  BY UnlockStep DEF Locked
<1>3. /\ th'[p] = Nil /\ res'[p].op = "SafeSet"
      /\ \A q \in Procs \ {p} : th'[q] = th[q] /\ res'[q] = res[q]
  BY <1>1, <1>2, ReturnTypes, EndFields
<1>4. Setter(p)' /\ Reader(p)' /\ Answered(p)'
  BY <1>3 DEF Setter, Reader, Answered, Locked
<1> QED BY <1>1, <1>3, <1>4, KeepsData

LEMMA CrashData ==
    ASSUME LockInv, DataInv, NEW p \in Procs, Crash(p)
    PROVE  DataInv'
<1>1. /\ UNCHANGED <<block, ver, stored, done>> /\ th'[p] = Nil /\ res'[p] = Nil
      /\ \A q \in Procs \ {p} : th'[q] = th[q] /\ res'[q] = res[q]
  BY DEF Crash, memory, LockInv, TypeOK
<1>2. Setter(p)' /\ Reader(p)' /\ Answered(p)'
  BY <1>1 DEF Setter, Reader, Answered, Locked
<1> QED BY <1>1, <1>2, KeepsData

\* What the steps that write do to the other processes.
LEMMA OthersOf ==
    ASSUME DataInv, NEW p \in Procs, res' = res, done \subseteq done',
           \A o \in Offsets : stored[o] \subseteq stored'[o], LockInv,
           \A q \in Procs \ {p} : th'[q] = th[q] /\ ~Locked(q) /\ Reader(q)',
           Setter(p)', Reader(p)', \A o \in Offsets : Contents(o)'
    PROVE  DataInv'
<1>1. \A q \in Procs \ {p} : Setter(q)'
  BY DEF Setter, Locked
<1>2. ASSUME NEW q \in Procs PROVE Answered(q)'
  <2>1. res[q] # Nil => res[q].off \in Offsets
    BY DEF LockInv, TypeOK, Results
  <2>2. Answered(q) /\ res'[q] = res[q]
    BY DEF DataInv
  <2> QED BY <2>1, <2>2 DEF Answered
<1> QED BY <1>1, <1>2 DEF DataInv

LEMMA CountOddData ==
    ASSUME LockInv, LockInv', CountInv, CountInv', DataInv, NEW p \in Procs, CountOdd(p)
    PROVE  DataInv'
<1>o. PICK o, buf : o = th[p].off /\ buf = th[p].buf
  OBVIOUS
<1>1. /\ TypeOK /\ res' = res /\ block' = block /\ done' = done /\ th[p] # Nil
      /\ th[p].pc = "odd" /\ Goto(p, "write")
      /\ stored' = [stored EXCEPT ![o] = stored[o] \cup {buf}]
  BY <1>o DEF CountOdd, Count, At, LockInv
<1>2. /\ ver' = [ver EXCEPT ![o] = ver[o] + 1]
      /\ o \in Offsets /\ Locked(p) /\ Locked(p)' /\ SameFields(p)
      /\ th'[p].buf = buf /\ th'[p].word = 1
      /\ \A q \in Procs \ {p} : th'[q] = th[q] /\ ~Locked(q)
  BY <1>o, CountCount
<1>3. th'[p].pc = "write" /\ th'[p].op = "SafeSet" /\ th'[p].off = o
  BY <1>o, <1>1, <1>2, GotoFields DEF Places, Locked, SameFields
<1>4. /\ ver[o] \in Nat /\ ver'[o] = ver[o] + 1 /\ Even(ver[o]) /\ ~Even(ver'[o])
      /\ \A u \in Offsets \ {o} : ver'[u] = ver[u]
  <2>1. ver[o] \in Nat /\ ver'[o] = ver[o] + 1 /\ \A u \in Offsets \ {o} : ver'[u] = ver[u]
    BY <1>1, <1>2 DEF TypeOK
  <2>2. Even(ver[o])
    BY <1>1, <1>2 DEF CountInv, Parity, Writing
  <2> QED BY <2>1, <2>2, EvenOdd
<1>5. /\ stored'[o] = stored[o] \cup {buf}
      /\ \A u \in Offsets \ {o} : stored'[u] = stored[u]
  BY <1>1, <1>2 DEF TypeOK
<1>6. block[o] = Zero /\ stored[o] \subseteq {Zero} /\ o \notin done
  <2>1. block[o] = Zero
    BY <1>o, <1>1, <1>2 DEF DataInv, Setter
  <2>2. Contents(o)
    BY <1>2 DEF DataInv
  <2> QED BY <1>4, <2>1, <2>2 DEF Contents
<1>7. ASSUME NEW u \in Offsets PROVE Contents(u)'
  <2>1. CASE u = o
    BY <1>1, <1>4, <1>5, <1>6, <2>1 DEF Contents
  <2>2. CASE u # o
    <3>1. Contents(u) /\ ver'[u] = ver[u] /\ stored'[u] = stored[u]
      BY <1>4, <1>5, <2>2 DEF DataInv
    <3> QED BY <1>1, <3>1 DEF Contents
  <2> QED BY <2>1, <2>2
<1>8. Setter(p)' /\ Reader(p)'
  BY <1>1, <1>2, <1>3, <1>5, <1>6, WordOrder DEF Setter, Reader, Begun
<1>9. ASSUME NEW q \in Procs \ {p} PROVE Reader(q)'
  <2> SUFFICES ASSUME th[q] # Nil, th[q].op # "SafeSet" PROVE Reader(q)'
    BY <1>2 DEF Reader
  <2>1. Reader(q) /\ th'[q] = th[q] /\ th[q].off \in Offsets /\ th[q].vs \in Nat
    BY <1>1, <1>2, ThreadTypes DEF DataInv
  <2>2. CASE th[q].off = o
    <3>1. Even(th[q].vs) => ver'[o] # th[q].vs
      BY <1>4
    <3>2. th[q].vs <= ver[o] => th[q].vs <= ver'[o]
      BY <1>4, <2>1
    <3> QED BY <1>1, <2>1, <2>2, <3>1, <3>2 DEF Reader
  <2>3. CASE th[q].off # o
    BY <1>1, <1>4, <2>1, <2>3 DEF Reader
  <2> QED BY <2>2, <2>3
<1>10. \A u \in Offsets : stored[u] \subseteq stored'[u]
  BY <1>5
<1> QED BY <1>1, <1>2, <1>7, <1>8, <1>9, <1>10, OthersOf

LEMMA WriteWordData ==
    ASSUME LockInv, LockInv', CountInv, DataInv, NEW p \in Procs, WriteWord(p)
    PROVE  DataInv'
<1>o. PICK o, buf, w : o = th[p].off /\ buf = th[p].buf /\ w = th[p].word
  OBVIOUS
<1>1. /\ TypeOK /\ TypeOK' /\ res' = res /\ ver' = ver /\ done' = done /\ stored' = stored
      /\ th[p] # Nil /\ th[p].pc = "write"
      /\ block' = [block EXCEPT ![o][w] = buf[w]]
      /\ IF w < WordNum THEN th' = [th EXCEPT ![p].word = @ + 1] ELSE Goto(p, "even")
  BY <1>o DEF WriteWord, At, LockInv
<1>2. /\ o \in Offsets /\ buf \in Blocks /\ w \in WordIdx /\ block[o] \in Blocks
      /\ block'[o] \in Blocks /\ th[p].op = "SafeSet" /\ Locked(p)
  BY <1>o, <1>1, ThreadTypes DEF TypeOK, LockInv, Placed, Locked
<1>3. /\ SameFields(p) /\ th'[p].buf = buf
      /\ \A q \in Procs \ {p} : th'[q] = th[q] /\ ~Locked(q)
      /\ IF w < WordNum THEN th'[p].pc = "write" /\ th'[p].word = w + 1 ELSE th'[p].pc = "even"
  <2>1. \A q \in Procs \ {p} : ~Locked(q)
    BY <1>2 DEF LockInv, Mutex
  <2>2. CASE w < WordNum
    <3>1. th[p].word # WordNum
      BY <1>o, <1>2, <2>2, SizeAssumption DEF SizeAssumption, WordIdx
    <3> QED BY <1>o, <1>1, <2>1, <2>2, <3>1, NextWordFields
  <2>3. CASE ~(w < WordNum)
    BY <1>o, <1>1, <2>1, <2>3, GotoFields DEF Places
  <2> QED BY <2>2, <2>3
<1>4. ~Even(ver[o])
  BY <1>o, <1>1, <1>2 DEF CountInv, Parity, Writing
<1>5. /\ block'[o] = [block[o] EXCEPT ![w] = buf[w]]
      /\ \A u \in Offsets \ {o} : block'[u] = block[u]
  BY <1>1, <1>2 DEF TypeOK
<1>6. /\ o \notin done /\ buf \in stored[o] /\ stored[o] \subseteq {Zero, buf}
      /\ Begun(th[p], block[o], buf) /\ Contents(o)
  BY <1>o, <1>1, <1>2 DEF DataInv, Setter
<1>7. ASSUME NEW u \in Offsets PROVE Contents(u)'
  <2>1. CASE u = o
    BY <1>1, <1>4, <1>6, <2>1 DEF Contents
  <2>2. CASE u # o
    <3>1. Contents(u) /\ block'[u] = block[u]
      BY <1>5, <2>2 DEF DataInv
    <3> QED BY <1>1, <3>1 DEF Contents
  <2> QED BY <2>1, <2>2
<1>8. \A i \in WordIdx : i < w \/ i = w => block'[o][i] = buf[i]
  BY <1>o, <1>2, <1>5, <1>6 DEF Begun, Blocks
<1>9. Setter(p)' /\ Reader(p)'
  <2>1. th'[p].off = o /\ th'[p].op = "SafeSet"
    BY <1>o, <1>2, <1>3 DEF SameFields
  <2>2. CASE w < WordNum
    <3>1. Begun(th'[p], block'[o], buf)
      BY <1>2, <1>3, <1>8, <2>2, WordOrder DEF Begun
    <3> QED BY <1>1, <1>3, <1>6, <2>1, <2>2, <3>1 DEF Setter, Reader
  <2>3. CASE ~(w < WordNum)
    <3>1. w = WordNum
      BY <1>2, <2>3, WordOrder
    <3>2. \A i \in WordIdx : block'[o][i] = buf[i]
      BY <1>8, <3>1, WordOrder
    <3>3. block'[o] = buf
      BY <1>2, <3>2, SameBlock
    <3> QED BY <1>1, <1>3, <1>6, <2>1, <2>3, <3>3 DEF Setter, Reader
  <2> QED BY <2>2, <2>3
<1>10. ASSUME NEW q \in Procs \ {p} PROVE Reader(q)'
  <2> SUFFICES ASSUME th[q] # Nil, th[q].op # "SafeSet" PROVE Reader(q)'
    BY <1>3 DEF Reader
  <2>1. Reader(q) /\ th'[q] = th[q] /\ th[q].off \in Offsets
    BY <1>1, <1>3, ThreadTypes DEF DataInv
  <2>2. CASE th[q].off = o
    <3>1. ~th[q].late /\ (Even(th[q].vs) => ver[o] # th[q].vs)
      BY <1>4, <1>6, <2>1, <2>2 DEF Reader
    <3> QED BY <1>1, <2>1, <2>2, <3>1 DEF Reader
  <2>3. CASE th[q].off # o
    BY <1>1, <1>5, <2>1, <2>3 DEF Reader
  <2> QED BY <2>2, <2>3
<1> QED BY <1>1, <1>3, <1>7, <1>9, <1>10, OthersOf

LEMMA CountEvenData ==
    ASSUME LockInv, LockInv', CountInv, CountInv', DataInv, NEW p \in Procs, CountEven(p)
    PROVE  DataInv'
<1>o. PICK o, buf : o = th[p].off /\ buf = th[p].buf
  OBVIOUS
<1>1. /\ TypeOK /\ res' = res /\ block' = block /\ stored' = stored /\ th[p] # Nil
      /\ th[p].pc = "even" /\ Goto(p, "unlock")
      /\ done' = IF buf = Zero THEN done ELSE done \cup {o}
  BY <1>o DEF CountEven, Count, At, LockInv
<1>2. /\ ver' = [ver EXCEPT ![o] = ver[o] + 1]
      /\ o \in Offsets /\ Locked(p) /\ SameFields(p)
      /\ \A q \in Procs \ {p} : th'[q] = th[q] /\ ~Locked(q)
  BY <1>o, CountCount
<1>3. th'[p].pc = "unlock" /\ th'[p].op = "SafeSet"
  BY <1>o, <1>1, <1>2, GotoFields DEF Places, Locked, SameFields
<1>4. /\ ver[o] \in Nat /\ ver'[o] = ver[o] + 1
      /\ \A u \in Offsets \ {o} : ver'[u] = ver[u]
  BY <1>1, <1>2 DEF TypeOK
<1>5. /\ o \notin done /\ buf \in stored[o] /\ stored[o] \subseteq {Zero, buf} /\ block[o] = buf
  BY <1>o, <1>1, <1>2 DEF DataInv, Setter
<1>6. ASSUME NEW u \in Offsets PROVE Contents(u)'
  <2>1. CASE u = o
    <3>1. \A x, y \in stored'[o] \ {Zero} : x = y
      BY <1>1, <1>5
    <3>2. o \in done' => block'[o] \in stored'[o] \ {Zero}
      BY <1>1, <1>5
    <3>3. block'[o] \in stored'[o] \cup {Zero} /\ stored'[o] \subseteq {Zero, block'[o]}
      BY <1>1, <1>5
    <3> QED BY <2>1, <3>1, <3>2, <3>3 DEF Contents
  <2>2. CASE u # o
    <3>1. Contents(u) /\ ver'[u] = ver[u] /\ (u \in done' <=> u \in done)
      BY <1>1, <1>4, <2>2 DEF DataInv
    <3> QED BY <1>1, <3>1 DEF Contents
  <2> QED BY <2>1, <2>2
<1>7. Setter(p)' /\ Reader(p)'
  BY <1>3 DEF Setter, Reader
<1>8. done \subseteq done'
  BY <1>1
<1>9. ASSUME NEW q \in Procs \ {p} PROVE Reader(q)'
  <2> SUFFICES ASSUME th[q] # Nil, th[q].op # "SafeSet" PROVE Reader(q)'
    BY <1>2 DEF Reader
  <2>1. /\ Reader(q) /\ th'[q] = th[q] /\ th[q].off \in Offsets /\ th[q].vs \in Nat
        /\ th[q].pc \in {"copy", "recheck"} => th[q].vs <= ver[th[q].off]
    BY <1>1, <1>2, ThreadTypes DEF DataInv, Reader
  <2>2. CASE th[q].off = o
    <3>1. /\ th[q].pc \in {"copy", "recheck"} => ver'[o] # th[q].vs
          /\ th[q].vs <= ver[o] => th[q].vs <= ver'[o]
      BY <1>4, <2>1, <2>2
    <3> QED BY <1>1, <1>8, <2>1, <2>2, <3>1 DEF Reader
  <2>3. CASE th[q].off # o
    BY <1>1, <1>4, <1>8, <2>1, <2>3 DEF Reader
  <2> QED BY <2>2, <2>3
<1> QED BY <1>1, <1>2, <1>6, <1>7, <1>8, <1>9, OthersOf

LEMMA StartDataInv == Start => DataInv
<1> SUFFICES ASSUME Start PROVE DataInv
  OBVIOUS
<1>1. \A o \in Offsets : Contents(o)
  BY DEF Start, Contents
<1>2. \A p \in Procs : Setter(p) /\ Reader(p) /\ Answered(p)
  BY DEF Start, Setter, Reader, Answered, Locked
<1> QED BY <1>1, <1>2 DEF DataInv

LEMMA NextDataInv ==
    ASSUME ~LateInit
    PROVE  LockInv /\ LockInv' /\ CountInv /\ CountInv' /\ DataInv /\ [Next]_vars => DataInv'
<1> SUFFICES ASSUME LockInv, LockInv', CountInv, CountInv', DataInv, [Next]_vars
             PROVE  DataInv'
  OBVIOUS
<1>1. ASSUME NEW p \in Procs, SafeSet(p) \/ SafeGet(p) PROVE DataInv'
  BY <1>1, BeginOf, BeginData
<1>2. ASSUME NEW p \in Procs, Continue(p) PROVE DataInv'
  BY <1>2, LockData, CompareData, CountOddData, WriteWordData, CountEvenData, UnlockData,
     ReadVersionData, CopyWordData, RecheckData DEF Continue
<1>3. ASSUME NEW p \in Procs, Init(p) PROVE DataInv'
  <2>1. UNCHANGED <<block, ver, stored, done, th, res>>
    BY <1>3 DEF Init
  <2> QED BY <2>1 DEF DataInv, Contents, Setter, Reader, Answered, Locked, Begun
<1>4. ASSUME UNCHANGED vars PROVE DataInv'
  <2>1. UNCHANGED <<block, ver, stored, done, th, res>>
    BY <1>4 DEF vars, memory
  <2> QED BY <2>1 DEF DataInv, Contents, Setter, Reader, Answered, Locked, Begun
<1> QED BY <1>1, <1>2, <1>3, <1>4, CrashData DEF Next

THEOREM DataInvariant == ASSUME ~LateInit PROVE Spec => []DataInv
<1>1. LockInv /\ LockInv' /\ CountInv /\ CountInv' /\ DataInv /\ [Next]_vars => DataInv'
  BY NextDataInv
<1> QED BY <1>1, StartDataInv, LockInvariant, CountInvariant, PTL DEF Spec

\* A reader without the lock is given a block that was stored, whole, or
\* nothing, whatever process dies when.
THEOREM NeverTorn == ASSUME ~LateInit PROVE Spec => []NoTornRead
<1>1. DataInv => NoTornRead
  BY DEF DataInv, Answered, NoTornRead
<1> QED BY <1>1, DataInvariant, PTL

\* SafeGet does not miss a block stored before it was called.
THEOREM EmptyOnlyIfEmpty == ASSUME ~LateInit PROVE Spec => []EmptyIsEmpty
<1>1. DataInv => EmptyIsEmpty
  BY DEF DataInv, Answered, EmptyIsEmpty
<1> QED BY <1>1, DataInvariant, PTL

\* One SafeSet of a block wins, and its block stays.
THEOREM OneWins == ASSUME ~LateInit PROVE Spec => []StoredOnce
<1>1. DataInv => StoredOnce
  <2> SUFFICES ASSUME DataInv, NEW o \in Offsets
               PROVE  /\ Cardinality(stored[o] \ {Zero}) <= 1
                      /\ o \in done => block[o] \in stored[o] \ {Zero}
    BY DEF StoredOnce
  <2>1. Contents(o)
    BY DEF DataInv
  <2>2. stored[o] \ {Zero} = {} \/ \E x : stored[o] \ {Zero} = {x}
    BY <2>1 DEF Contents
  <2>3. Cardinality(stored[o] \ {Zero}) <= 1
    <3>1. Cardinality(stored[o] \ {Zero}) \in {0, 1}
      BY <2>2, FS_EmptySet, FS_Singleton, Zenon
    <3> QED BY <3>1
  <2> QED BY <2>1, <2>3 DEF Contents
<1> QED BY <1>1, DataInvariant, PTL
=============================================================================
