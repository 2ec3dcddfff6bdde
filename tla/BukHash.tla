------------------------------ MODULE BukHash ------------------------------
(***************************************************************************)
(* The hash table of src/Caravel/BukHash.h, in memory that processes may   *)
(* share: level i is an array whose width is the i-th largest number that  *)
(* bPrime accepts, and a key lies in the first level where its slot was    *)
(* free.                                                                   *)
(*                                                                         *)
(* The class takes no lock, so one process writes; the others look keys up *)
(* and walk over the table while it does.  Probing a level, copying a      *)
(* value, which follows the key, and looking at the next slot of a walk    *)
(* are steps of their own.  Del names members that do not exist and cannot *)
(* be instantiated.                                                        *)
(*                                                                         *)
(* Abstracted: a slot is named by its level and its place there, in the    *)
(* order of their addresses; <<Len(arPrime) + 1, 0>> is what lies behind.  *)
(***************************************************************************)
EXTENDS Integers, Sequences, FiniteSets

CONSTANTS
    Users, Writer, \* processes with the table in their memory; the one that writes
    Sizes,         \* pairs of uiW and uiL
    Keys,          \* positive numbers: key 0 marks a free slot
    Values,        \* positive numbers: cleared memory is 0
    MaxCalls,      \* bound on the operations of a process
    None

VARIABLES
    arPrime,  \* m_arPrime, the same in all processes
    item,     \* the slots, a key and a value each
    attached, \* processes that have called Create
    num,      \* m_uiNum of each process
    cur,      \* the slot m_pCur of each process points to
    task,     \* the operation each process is in, or None
    reply,    \* what its last operation returned, or None
    calls,    \* number of operations each process has begun
    true,     \* history: has the writer had the number of keys in m_uiNum
    walk,     \* history: keys due since a process called Seed, and those it has met
    hist      \* history: for each key, the values it has been given

\* uiW and uiL are positive.
ASSUME BukAssumption ==
    /\ Writer \in Users
    /\ \A z \in Sizes : z[1] \in Nat \ {0} /\ z[2] \in Nat \ {0}
    /\ Keys \subseteq Nat \ {0} /\ Values \subseteq Nat \ {0}
    /\ MaxCalls \in Nat

table == <<arPrime, item, hist>>
bukVars == <<arPrime, item, attached, num, cur, task, reply, calls, true, walk, hist>>

-----------------------------------------------------------------------------
(***************************************************************************)
(* The widths.  bPrime tries the odd divisors below the root: it accepts   *)
(* the squares of primes, and it accepts nothing below 9.                  *)
(***************************************************************************)
bPrime(n) == n >= 9 /\ \A i \in 3 .. n : i % 2 = 1 /\ i * i < n => n % i # 0

\* InitPrime counts down from uiW and fails if it comes to 0 too early: the
\* arrays it can make, none or one.
Accepted(uiW) == {n \in 1 .. uiW : n % 2 # 0 /\ bPrime(n)}
InitPrime(uiW, uiL) ==
    {w \in [1 .. uiL -> Accepted(uiW)] :
        /\ \A i, j \in 1 .. uiL : i < j => w[i] > w[j]
        /\ \A n \in Accepted(uiW) : n > w[uiL] => \E i \in 1 .. uiL : w[i] = n}

Levels == 1 .. Len(arPrime)
Slots == UNION {{i} \X (0 .. arPrime[i] - 1) : i \in Levels}
Slot(k, i) == <<i, k % arPrime[i]>>
First == <<1, 0>>
Following(s) == IF s[2] + 1 < arPrime[s[1]] THEN <<s[1], s[2] + 1>> ELSE <<s[1] + 1, 0>>

Free == [key |-> 0, value |-> 0]
Stored == {item[s].key : s \in Slots} \ {0}

-----------------------------------------------------------------------------
BukStart ==
    /\ \E z \in Sizes : arPrime \in InitPrime(z[1], z[2])
    /\ item = [s \in Slots |-> Free]
    /\ attached = {}
    /\ num = [p \in Users |-> 0]
    /\ cur = [p \in Users |-> First]
    /\ task = [p \in Users |-> None]
    /\ reply = [p \in Users |-> None]
    /\ calls = [p \in Users |-> 0]
    /\ true = FALSE
    /\ walk = [p \in Users |-> None]
    /\ hist = [k \in Keys |-> {}]

\* m_uiNum becomes 0, whether the memory is cleared or not.
Create(p, bZero) ==
    /\ p \notin attached /\ (bZero => attached = {})
    /\ attached' = attached \cup {p}
    /\ IF bZero THEN /\ item' = [s \in Slots |-> Free]
                     /\ hist' = [k \in Keys |-> {}]
       ELSE UNCHANGED <<item, hist>>
    /\ UNCHANGED arPrime
    /\ num' = [num EXCEPT ![p] = 0]
    /\ cur' = [cur EXCEPT ![p] = First]
    /\ true' = IF p = Writer THEN Stored' = {} ELSE true
    /\ UNCHANGED <<task, reply, calls, walk>>

\* The writer ends, in the middle of an operation or not; the memory stays.
Exit(p) ==
    /\ p = Writer /\ p \in attached /\ calls[p] < MaxCalls
    /\ attached' = attached \ {p}
    /\ task' = [task EXCEPT ![p] = None]
    /\ reply' = [reply EXCEPT ![p] = None]
    /\ walk' = [walk EXCEPT ![p] = None]
    /\ calls' = [calls EXCEPT ![p] = @ + 1]
    /\ UNCHANGED <<table, num, cur, true>>

BeginCall(p, op, k, v) ==
    /\ p \in attached /\ task[p] = None /\ calls[p] < MaxCalls
    /\ calls' = [calls EXCEPT ![p] = @ + 1]
    /\ task' = [task EXCEPT ![p] = [op |-> op, key |-> k, value |-> v, level |-> 1,
                                    slot |-> None, late |-> k \in Stored]]
    /\ reply' = [reply EXCEPT ![p] = None]

EndCall(p, ok, v) ==
    /\ reply' = [reply EXCEPT ![p] = [op |-> task[p].op, key |-> task[p].key, ok |-> ok,
                                      value |-> v, late |-> task[p].late]]
    /\ task' = [task EXCEPT ![p] = None]

-----------------------------------------------------------------------------
(***************************************************************************)
(* Get(p) is Get(key, false), whose caller reads the value.  New(key) and  *)
(* Get(key, true), whose caller writes it, take the steps of Set.          *)
(***************************************************************************)
Set(p) ==
    /\ p = Writer
    /\ \E k \in Keys, v \in Values : BeginCall(p, "Set", k, v)
    /\ UNCHANGED <<table, attached, num, cur, true, walk>>
Get(p) ==
    /\ \E k \in Keys : BeginCall(p, "Get", k, 0)
    /\ UNCHANGED <<table, attached, num, cur, true, walk>>

Here(t) == Slot(t.key, t.level)
Probing(p) == task[p] # None /\ task[p].op # "NextVal" /\ task[p].slot = None

\* The key is in its slot of this level.
\* Mutant: a slot that is in use counts as found.
InUse(t) == item[Here(t)].key # 0
SameKey(t) == item[Here(t)].key = t.key
Find(p) ==
    /\ Probing(p) /\ SameKey(task[p])
    /\ task' = [task EXCEPT ![p].slot = Here(task[p])]
    /\ UNCHANGED <<table, attached, num, cur, reply, calls, true, walk>>

\* Its slot is free: the key is written, and counted.
\* Mutant: m_uiNum is not advanced.
Uncounted(p) ==
    /\ Probing(p) /\ task[p].op # "Get" /\ item[Here(task[p])].key = 0
    /\ item' = [item EXCEPT ![Here(task[p])].key = task[p].key]
    /\ task' = [task EXCEPT ![p].slot = Here(task[p])]
    /\ UNCHANGED <<arPrime, attached, num, cur, reply, calls, true, walk, hist>>
Claim(p) ==
    /\ Probing(p) /\ task[p].op # "Get" /\ item[Here(task[p])].key = 0
    /\ item' = [item EXCEPT ![Here(task[p])].key = task[p].key]
    /\ num' = [num EXCEPT ![p] = @ + 1]
    /\ task' = [task EXCEPT ![p].slot = Here(task[p])]
    /\ UNCHANGED <<arPrime, attached, cur, reply, calls, true, walk, hist>>

\* A get stops at a free slot, everything at the end of the last level.
Miss(p) ==
    LET key == item[Here(task[p])].key IN
    /\ Probing(p) /\ key # task[p].key
    /\ IF key # 0 /\ task[p].level < Len(arPrime)
       THEN task' = [task EXCEPT ![p].level = @ + 1] /\ UNCHANGED reply
       ELSE /\ key # 0 \/ task[p].op = "Get"
            /\ EndCall(p, FALSE, 0)
    /\ UNCHANGED <<table, attached, num, cur, calls, true, walk>>

\* memcpy of the value, by the class or by its caller.
CopyValue(p) ==
    LET t == task[p] IN
    /\ t # None /\ t.slot # None
    /\ IF t.op = "Get"
       THEN EndCall(p, TRUE, item[t.slot].value) /\ UNCHANGED table
       ELSE /\ item' = [item EXCEPT ![t.slot].value = t.value]
            /\ hist' = [hist EXCEPT ![t.key] = @ \cup {t.value}]
            /\ EndCall(p, TRUE, t.value)
            /\ UNCHANGED arPrime
    /\ UNCHANGED <<attached, num, cur, calls, true, walk>>

-----------------------------------------------------------------------------
(***************************************************************************)
(* The walk: Seed(0), then NextVal until the caller has what it wants, by  *)
(* any process but the writer, who sees no more between its own writes.    *)
(***************************************************************************)
\* Mutant: the walk begins behind the first slot.
SeedOne(p) ==
    /\ p # Writer /\ p \in attached /\ task[p] = None
    /\ cur' = [cur EXCEPT ![p] = Following(First)]
    /\ walk' = [walk EXCEPT ![p] = [due |-> Stored, met |-> {}, n |-> 0]]
    /\ UNCHANGED <<table, attached, num, task, reply, calls, true>>
Seed(p) ==
    /\ p # Writer /\ p \in attached /\ task[p] = None
    /\ cur' = [cur EXCEPT ![p] = First]
    /\ walk' = [walk EXCEPT ![p] = [due |-> Stored, met |-> {}, n |-> 0]]
    /\ UNCHANGED <<table, attached, num, task, reply, calls, true>>

NextVal(p) ==
    /\ walk[p] # None /\ cur[p] \in Slots
    /\ BeginCall(p, "NextVal", 0, 0)
    /\ UNCHANGED <<table, attached, num, cur, true, walk>>

\* One turn of the loop.  The test at its head, meant to end the walk, does
\* not return; behind the last slot the loop reads what lies there.
Look(p) ==
    LET s == cur[p] IN
    /\ task[p] # None /\ task[p].op = "NextVal"
    /\ IF s \notin Slots
       THEN EndCall(p, FALSE, 0) /\ UNCHANGED <<cur, walk>>
       ELSE /\ cur' = [cur EXCEPT ![p] = Following(@)]
            /\ IF item[s].key = 0 THEN UNCHANGED <<task, reply, walk>>
               ELSE /\ EndCall(p, TRUE, item[s].value)
                    /\ walk' = [walk EXCEPT ![p].met = @ \cup {item[s].key},
                                            ![p].n = @ + 1]
    /\ UNCHANGED <<table, attached, num, calls, true>>

\* GetRealNum, by the process whose keys it counts.
GetRealNum(p) ==
    /\ p = Writer /\ p \in attached /\ task[p] = None
    /\ num' = [num EXCEPT ![p] = Cardinality({s \in Slots : item[s].key # 0})]
    /\ true' = TRUE
    /\ UNCHANGED <<table, attached, cur, task, reply, calls, walk>>

BukNext ==
    \E p \in Users :
        \/ \E bZero \in BOOLEAN : Create(p, bZero)
        \/ Exit(p) \/ Set(p) \/ Get(p) \/ Find(p) \/ Claim(p) \/ Miss(p)
        \/ CopyValue(p) \/ Seed(p) \/ NextVal(p) \/ Look(p) \/ GetRealNum(p)

BukSpec == BukStart /\ [][BukNext]_bukVars

-----------------------------------------------------------------------------
(***************************************************************************)
(* Properties.                                                             *)
(***************************************************************************)

\* A lookup answers for its own key: with a value that key was given, or with
\* cleared memory if it comes between the key and its first value; and it
\* misses no key that was stored when it began.  A write fails only if the
\* key is not stored (BukHash.h:84-166).
LookupAgrees ==
    \A p \in Users : reply[p] # None /\ reply[p].op # "NextVal" =>
        LET r == reply[p] IN
        /\ r.ok => r.value \in hist[r.key] \cup {0}
        /\ ~r.ok => ~r.late

\* The table and its count stay one: every key lies in one slot, with no free
\* slot before it in its probe sequence, and the writer's m_uiNum, once right,
\* stays the number of keys (BukHash.h:96-101, 156-162).
WellPlaced ==
    /\ \A k \in Stored :
        \E i \in Levels :
            /\ item[Slot(k, i)].key = k
            /\ \A j \in 1 .. i - 1 : item[Slot(k, j)].key \notin {0, k}
            /\ \A s \in Slots \ {Slot(k, i)} : item[s].key # k
    /\ true /\ Writer \in attached => num[Writer] = Cardinality(Stored)

\* A walk meets every key that was stored when it began before it leaves the
\* table, and none twice: NextVal may be called as often as there were keys,
\* and its loop stays in the table, whatever is stored meanwhile
\* (BukHash.h:212-226).
WalkComplete ==
    \A p \in Users : walk[p] # None =>
        /\ walk[p].n = Cardinality(walk[p].met)
        /\ cur[p] \notin Slots => walk[p].due \subseteq walk[p].met
=============================================================================
