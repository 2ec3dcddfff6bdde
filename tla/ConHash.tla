------------------------------ MODULE ConHash ------------------------------
(***************************************************************************)
(* The table of blocks in shared memory (src/Caravel/ConHash.h).  A block  *)
(* is written once, under a semaphore; readers take no lock but compare a  *)
(* version counter before and after they copy the block.                   *)
(*                                                                         *)
(* Every access to shared memory is a step of its own: a version counter,  *)
(* or one word of a block in memcmp and memcpy.  They happen in program    *)
(* order (the counters are of a character type, which may alias the block, *)
(* and the machine keeps the order of loads and that of stores).  The      *)
(* semaphore (SemCtl) is not in the repository: a counter whose decrement  *)
(* waits while it is 0.                                                    *)
(***************************************************************************)
EXTENDS Naturals, FiniteSets

CONSTANTS
    Procs,      \* processes that have the table in their memory
    Offsets,    \* blocks
    WordNum,    \* words of a block
    Data,       \* what is stored; a word may be 0
    VersionMod, \* number of values of a version counter, 256
    MaxOps,     \* bound on the operations of a process
    MaxCrash,   \* bound on the processes that die
    LateInit,   \* may a process call Init when others already use the table
    Nil

WordIdx == 1 .. WordNum
Blocks == [WordIdx -> Nat]
Zero == [i \in WordIdx |-> 0]

Ops == {"SafeSet", "SafeGet", "SafeGetV1"}
Places == {"lock", "version", "compare", "odd", "write", "even", "unlock",
           "refuse", "copy", "recheck"}
Threads == [op : Ops, pc : Places, off : Offsets, buf : Blocks, word : WordIdx,
            vs : 0 .. VersionMod - 1, late : BOOLEAN]
Results == [op : Ops, off : Offsets, ok : BOOLEAN, buf : Blocks, late : BOOLEAN]

ASSUME SizeAssumption ==
    /\ WordNum \in Nat \ {0} /\ MaxOps \in Nat /\ MaxCrash \in Nat
    /\ IsFiniteSet(Procs)
    /\ Data \subseteq Blocks
    /\ LateInit \in BOOLEAN
ASSUME NilAssumption == Nil \notin Threads \cup Results
\* No counter comes around within one read: only blocks of zeros are stored
\* more than once, so that it takes 127 of them.
ASSUME VersionAssumption ==
    /\ VersionMod \in Nat /\ VersionMod % 2 = 0
    /\ 2 * MaxOps * Cardinality(Procs) < VersionMod

VARIABLES
    block,  \* m_pBlock
    ver,    \* m_cV
    sem,    \* the semaphore m_iSem
    up,     \* processes: "new", "up" after Init, "gone"
    th,     \* the operation each process is in, or Nil
    res,    \* the result of its last operation, or Nil
    ops,    \* number of operations each process has begun
    stored, \* history: for each block, what SafeSets have begun to store
    done    \* history: blocks into which something but zeros has been stored

memory == <<block, ver, sem>>
vars == <<block, ver, sem, up, th, res, ops, stored, done>>

Start ==
    /\ block = [o \in Offsets |-> Zero]
    /\ ver = [o \in Offsets |-> 0]
    /\ sem = 0
    /\ up = [p \in Procs |-> "new"]
    /\ th = [p \in Procs |-> Nil]
    /\ res = [p \in Procs |-> Nil]
    /\ ops = [p \in Procs |-> 0]
    /\ stored = [o \in Offsets |-> {}]
    /\ done = {}

\* Every process sets the semaphore to 1, whatever its value.
Init(p) ==
    /\ up[p] = "new"
    /\ LateInit \/ \A q \in Procs : ops[q] = 0
    /\ up' = [up EXCEPT ![p] = "up"]
    /\ sem' = 1
    /\ UNCHANGED <<block, ver, th, res, ops, stored, done>>

-----------------------------------------------------------------------------
At(p, place) == th[p] # Nil /\ th[p].pc = place
Goto(p, place) == th' = [th EXCEPT ![p].pc = place, ![p].word = 1]

Begin(p, op, place, o, buf) ==
    /\ up[p] = "up" /\ th[p] = Nil /\ ops[p] < MaxOps
    /\ ops' = [ops EXCEPT ![p] = @ + 1]
    /\ th' = [th EXCEPT ![p] = [op |-> op, pc |-> place, off |-> o, buf |-> buf,
                                word |-> 1, vs |-> 0, late |-> o \in done]]
    /\ res' = [res EXCEPT ![p] = Nil]
    /\ UNCHANGED <<memory, up, stored, done>>

Return(p, ok) ==
    /\ res' = [res EXCEPT ![p] = [op |-> th[p].op, off |-> th[p].off, ok |-> ok,
                                  buf |-> th[p].buf, late |-> th[p].late]]
    /\ th' = [th EXCEPT ![p] = Nil]

\* Mutant: memcmp looks at the first word of a block only.
FirstWord(t) == TRUE
LastWord(t) == t.word = WordNum

\* One word of memcmp with m_Empty; a set stops at a block in use, a get at
\* an empty one.
Compare(p) ==
    LET t == th[p] IN
    /\ At(p, "compare")
    /\ IF block[t.off][t.word] # 0
       THEN Goto(p, IF t.op = "SafeSet" THEN "refuse" ELSE "copy") /\ UNCHANGED res
       ELSE IF ~LastWord(t)
       THEN th' = [th EXCEPT ![p].word = @ + 1] /\ UNCHANGED res
       ELSE IF t.op = "SafeSet" THEN Goto(p, "odd") /\ UNCHANGED res
       ELSE Return(p, FALSE)
    /\ UNCHANGED <<memory, up, ops, stored, done>>

-----------------------------------------------------------------------------
(***************************************************************************)
(* SafeSet.                                                                *)
(***************************************************************************)
\* Mutant: the semaphore is given back but was never taken.
LockFree(p) ==
    /\ At(p, "lock")
    /\ Goto(p, "compare")
    /\ UNCHANGED <<memory, up, res, ops, stored, done>>
Lock(p) ==
    /\ At(p, "lock") /\ sem > 0
    /\ sem' = sem - 1
    /\ Goto(p, "compare")
    /\ UNCHANGED <<block, ver, up, res, ops, stored, done>>

Count(p, place, next) ==
    /\ At(p, place)
    /\ ver' = [ver EXCEPT ![th[p].off] = (@ + 1) % VersionMod]
    /\ Goto(p, next)
    /\ UNCHANGED <<block, sem, up, res, ops>>

CountOdd(p) ==
    /\ Count(p, "odd", "write")
    /\ stored' = [stored EXCEPT ![th[p].off] = @ \cup {th[p].buf}]
    /\ UNCHANGED done

WriteWord(p) ==
    LET t == th[p] IN
    /\ At(p, "write")
    /\ block' = [block EXCEPT ![t.off][t.word] = t.buf[t.word]]
    /\ IF t.word < WordNum THEN th' = [th EXCEPT ![p].word = @ + 1]
       ELSE Goto(p, "even")
    /\ UNCHANGED <<ver, sem, up, res, ops, stored, done>>

CountEven(p) ==
    /\ Count(p, "even", "unlock")
    /\ done' = IF th[p].buf = Zero THEN done ELSE done \cup {th[p].off}
    /\ UNCHANGED stored

\* Mutant: the early return keeps the semaphore.
RefuseLocked(p) ==
    /\ At(p, "unlock") \/ At(p, "refuse")
    /\ sem' = IF At(p, "unlock") THEN sem + 1 ELSE sem
    /\ Return(p, At(p, "unlock"))
    /\ UNCHANGED <<block, ver, up, ops, stored, done>>
Unlock(p) ==
    /\ At(p, "unlock") \/ At(p, "refuse")
    /\ sem' = sem + 1
    /\ Return(p, At(p, "unlock"))
    /\ UNCHANGED <<block, ver, up, ops, stored, done>>

-----------------------------------------------------------------------------
(***************************************************************************)
(* SafeGet.  The first form leaves copying and checking to its caller, who *)
(* has to do as its comment says and gets no second try.                   *)
(***************************************************************************)
ReadVersion(p) ==
    /\ At(p, "version")
    /\ th' = [th EXCEPT ![p].vs = ver[th[p].off], ![p].word = 1,
                        ![p].pc = IF th[p].op = "SafeGet" THEN "compare" ELSE "copy"]
    /\ UNCHANGED <<memory, up, res, ops, stored, done>>

CopyWord(p) ==
    LET t == th[p] IN
    /\ At(p, "copy")
    /\ th' = [th EXCEPT ![p].buf[t.word] = block[t.off][t.word],
                        ![p].word = IF t.word < WordNum THEN @ + 1 ELSE 1,
                        ![p].pc = IF t.word < WordNum THEN @ ELSE "recheck"]
    /\ UNCHANGED <<memory, up, res, ops, stored, done>>

\* Mutant: the counter is compared, but not its parity.
SameVersion(t) == ver[t.off] = t.vs
Usable(t) == t.vs % 2 = 0 /\ ver[t.off] = t.vs
Recheck(p) ==
    /\ At(p, "recheck")
    /\ IF Usable(th[p]) THEN Return(p, TRUE)
       ELSE IF th[p].op = "SafeGet" THEN Goto(p, "version") /\ UNCHANGED res
       ELSE Return(p, FALSE)
    /\ UNCHANGED <<memory, up, ops, stored, done>>

-----------------------------------------------------------------------------
\* A process dies; System V semaphores keep their value.
Crash(p) ==
    /\ up[p] = "up" /\ Cardinality({q \in Procs : up[q] = "gone"}) < MaxCrash
    /\ up' = [up EXCEPT ![p] = "gone"]
    /\ th' = [th EXCEPT ![p] = Nil]
    /\ res' = [res EXCEPT ![p] = Nil]
    /\ UNCHANGED <<memory, ops, stored, done>>

SafeSet(p) == \E o \in Offsets, d \in Data : Begin(p, "SafeSet", "lock", o, d)
SafeGet(p) == \E o \in Offsets, op \in {"SafeGet", "SafeGetV1"} :
                  Begin(p, op, "version", o, Zero)
Continue(p) ==
    \/ Lock(p) \/ Compare(p) \/ CountOdd(p) \/ WriteWord(p) \/ CountEven(p)
    \/ Unlock(p) \/ ReadVersion(p) \/ CopyWord(p) \/ Recheck(p)

Next == \E p \in Procs : Init(p) \/ SafeSet(p) \/ SafeGet(p) \/ Continue(p) \/ Crash(p)

Spec == Start /\ [][Next]_vars

\* A process that is in an operation runs on, and the semaphore is given to
\* one that waits for it.
Fairness == \A p \in Procs : WF_vars(Continue(p)) /\ SF_vars(Lock(p))

-----------------------------------------------------------------------------
(***************************************************************************)
(* Properties.                                                             *)
(***************************************************************************)
TypeOK ==
    /\ block \in [Offsets -> Blocks]
    /\ ver \in [Offsets -> 0 .. VersionMod - 1]
    /\ sem \in {0, 1}
    /\ up \in [Procs -> {"new", "up", "gone"}]
    /\ th \in [Procs -> Threads \cup {Nil}]
    /\ res \in [Procs -> Results \cup {Nil}]
    /\ ops \in [Procs -> 0 .. MaxOps]
    /\ stored \in [Offsets -> SUBSET Blocks] /\ done \subseteq Offsets

\* What a reader may use is a whole block that some SafeSet stored, never the
\* words of a block half written, although it takes no lock and whatever
\* process dies when (ConHash.h:52, 89-96).
NoTornRead ==
    \A p \in Procs : res[p] # Nil /\ res[p].ok /\ res[p].op # "SafeSet" =>
        res[p].buf \in stored[res[p].off] \cup {Zero}

\* SafeGet takes a block for empty only if nothing had been stored in it when
\* it was called (ConHash.h:82).
EmptyIsEmpty ==
    \A p \in Procs : res[p] # Nil /\ res[p].op = "SafeGet" /\ ~res[p].ok =>
        ~res[p].late

\* Of all SafeSets of a block one wins: nothing is stored over it, by two
\* processes that both found the block empty either (ConHash.h:106).
StoredOnce ==
    \A o \in Offsets :
        /\ Cardinality(stored[o] \ {Zero}) <= 1
        /\ o \in done => block[o] \in stored[o] \ {Zero}

\* Without a crash every SafeSet and SafeGet comes to an end; a process that
\* dies with the semaphore, or between the two counts, stops the others.
OperationsEnd ==
    \A p \in Procs : th[p] # Nil ~> th[p] = Nil \/ \E q \in Procs : up[q] = "gone"
=============================================================================
