---------------------------- MODULE BukHashProofs ----------------------------
(***************************************************************************)
(* What the table of BukHash.h promises, for any number of processes and   *)
(* levels, any widths, keys and values.                                    *)
(*                                                                         *)
(* Five layers: the types, with the geometry of the slots; where keys lie  *)
(* and what a probe has passed; what lookups return; what the writer       *)
(* counts; and what a walk meets.                                          *)
(***************************************************************************)
EXTENDS BukHash, FiniteSetTheorems, TLAPS

-----------------------------------------------------------------------------
(***************************************************************************)
(* The slots.                                                              *)
(***************************************************************************)
Shaped == \E uiL \in Nat \ {0}, uiW \in Nat : arPrime \in [1 .. uiL -> 1 .. uiW]

LEMMA ShapedBegins ==
    ASSUME BukStart
    PROVE  Shaped
<1>1. PICK z \in Sizes : arPrime \in InitPrime(z[1], z[2])
  BY DEF BukStart
<1>2. z[2] \in Nat \ {0} /\ z[1] \in Nat
  BY BukAssumption DEF BukAssumption
<1>3. arPrime \in [1 .. z[2] -> Accepted(z[1])]
  BY <1>1 DEF InitPrime
<1>4. Accepted(z[1]) \subseteq 1 .. z[1]
  BY DEF Accepted
<1>5. arPrime \in [1 .. z[2] -> 1 .. z[1]]
  BY <1>3, <1>4
<1> QED BY <1>2, <1>5 DEF Shaped

LEMMA ShapeTypes ==
    ASSUME Shaped
    PROVE  /\ Len(arPrime) \in Nat \ {0} /\ 1 \in Levels
           /\ \A i \in Levels : i \in Nat /\ arPrime[i] \in Nat \ {0}
<1>1. PICK uiL \in Nat \ {0}, uiW \in Nat : arPrime \in [1 .. uiL -> 1 .. uiW]
  BY DEF Shaped
<1>2. \A i \in 1 .. uiL : arPrime[i] \in 1 .. uiW
  BY <1>1
<1>3. DOMAIN arPrime = 1 .. uiL /\ arPrime \in Seq(1 .. uiW)
  BY <1>1
<1>4. Len(arPrime) = uiL
  BY <1>3
<1>5. \A i \in 1 .. uiL : i \in Nat /\ arPrime[i] \in Nat \ {0}
  BY <1>1, <1>2
<1> QED BY <1>1, <1>4, <1>5 DEF Levels

LEMMA SlotPairs ==
    \A s : s \in Slots <=> /\ s = <<s[1], s[2]>> /\ s[1] \in Levels
                           /\ s[2] \in 0 .. arPrime[s[1]] - 1
BY DEF Slots

\* A key has its slot in every level.
LEMMA SlotType ==
    ASSUME Shaped, NEW k \in Nat, NEW i \in Levels
    PROVE  Slot(k, i) \in Slots /\ Slot(k, i)[1] = i
<1>1. arPrime[i] \in Nat \ {0}
  BY ShapeTypes
<1>2. k % arPrime[i] \in 0 .. arPrime[i] - 1
  BY <1>1
<1>3. Slot(k, i)[1] = i /\ Slot(k, i)[2] = k % arPrime[i]
  BY DEF Slot
<1> QED BY <1>2, <1>3, SlotPairs DEF Slot

Behind == <<Len(arPrime) + 1, 0>>
Before(s, t) == s[1] < t[1] \/ (s[1] = t[1] /\ s[2] < t[2])

LEMMA FirstSlot ==
    ASSUME Shaped
    PROVE  First \in Slots /\ \A s \in Slots : ~Before(s, First)
<1>1. First[1] = 1 /\ First[2] = 0
  BY DEF First
<1>2. First \in Slots
  BY <1>1, ShapeTypes, SlotPairs DEF First
<1>3. \A s \in Slots : s[1] \in Nat /\ s[1] >= 1 /\ s[2] \in Nat
  BY SlotPairs, ShapeTypes DEF Levels
<1> QED BY <1>1, <1>2, <1>3 DEF Before

\* The slot a walk looks at next: those before it are the one it has looked
\* at and those before that.
LEMMA NextSlot ==
    ASSUME Shaped, NEW s \in Slots
    PROVE  /\ Following(s) \in Slots \cup {Behind}
           /\ \A t \in Slots : Before(t, Following(s)) <=> t = s \/ Before(t, s)
<1>1. /\ s = <<s[1], s[2]>> /\ s[1] \in Levels /\ s[1] \in Nat /\ arPrime[s[1]] \in Nat \ {0}
      /\ s[2] \in 0 .. arPrime[s[1]] - 1 /\ Len(arPrime) \in Nat
  BY SlotPairs, ShapeTypes
<1>2. CASE s[2] + 1 < arPrime[s[1]]
  <2> DEFINE n == <<s[1], s[2] + 1>>
  <2>1. Following(s) = n /\ n[1] = s[1] /\ n[2] = s[2] + 1
    BY <1>2 DEF Following
  <2>2. n \in Slots
    BY <1>1, <1>2, <2>1, SlotPairs
  <2>3. ASSUME NEW t \in Slots PROVE Before(t, n) <=> t = s \/ Before(t, s)
    <3>1. t = <<t[1], t[2]>> /\ t[1] \in Nat /\ t[2] \in Nat
      BY SlotPairs, ShapeTypes
    <3> HIDE DEF n
    <3>2. t = s <=> t[1] = s[1] /\ t[2] = s[2]
      BY <1>1, <3>1
    <3> QED BY <1>1, <2>1, <3>1, <3>2 DEF Before
  <2> QED BY <2>1, <2>2, <2>3
<1>3. CASE ~(s[2] + 1 < arPrime[s[1]])
  <2> DEFINE n == <<s[1] + 1, 0>>
  <2>1. Following(s) = n /\ n[1] = s[1] + 1 /\ n[2] = 0
    BY <1>3 DEF Following
  <2>2. n \in Slots \cup {Behind}
    <3>1. CASE s[1] = Len(arPrime)
      BY <3>1 DEF Behind
    <3>2. CASE s[1] # Len(arPrime)
      <4>1. s[1] + 1 \in Levels
        BY <1>1, <3>2 DEF Levels
      <4>2. arPrime[s[1] + 1] \in Nat \ {0}
        BY <4>1, ShapeTypes
      <4>3. 0 \in 0 .. arPrime[s[1] + 1] - 1
        BY <4>2
      <4> QED BY <2>1, <4>1, <4>3, SlotPairs
    <3> QED BY <3>1, <3>2
  <2>3. ASSUME NEW t \in Slots PROVE Before(t, n) <=> t = s \/ Before(t, s)
    <3>1. /\ t = <<t[1], t[2]>> /\ t[1] \in Nat /\ t[2] \in Nat
          /\ arPrime[t[1]] \in Nat /\ t[2] < arPrime[t[1]]
      BY SlotPairs, ShapeTypes
    <3> HIDE DEF n
    <3>2. t = s <=> t[1] = s[1] /\ t[2] = s[2]
      BY <1>1, <3>1
    <3>3. t[1] = s[1] => t[2] <= s[2]
      BY <1>1, <1>3, <3>1
    <3> QED BY <1>1, <2>1, <3>1, <3>2, <3>3 DEF Before
  <2> QED BY <2>1, <2>2, <2>3
<1> QED BY <1>2, <1>3

LEMMA AllBeforeBehind ==
    ASSUME Shaped
    PROVE  Behind \notin Slots /\ \A s \in Slots : Before(s, Behind)
<1>1. Behind[1] = Len(arPrime) + 1 /\ Len(arPrime) \in Nat
  BY ShapeTypes DEF Behind
<1>2. \A s \in Slots : s[1] \in 1 .. Len(arPrime)
  BY SlotPairs DEF Levels
<1> QED BY <1>1, <1>2 DEF Before

LEMMA FiniteSlots ==
    ASSUME Shaped
    PROVE  IsFiniteSet(Slots)
<1>1. PICK uiL \in Nat \ {0}, uiW \in Nat : arPrime \in [1 .. uiL -> 1 .. uiW]
  BY DEF Shaped
<1>2. Len(arPrime) = uiL
  BY <1>1
<1>3. \A s \in Slots : s \in (1 .. uiL) \X (0 .. uiW)
  <2>1. TAKE s \in Slots
  <2>2. s = <<s[1], s[2]>> /\ s[1] \in 1 .. uiL /\ s[2] \in 0 .. arPrime[s[1]] - 1
    BY <1>2, SlotPairs DEF Levels
  <2>3. arPrime[s[1]] \in 1 .. uiW
    BY <1>1, <2>2
  <2>4. s[2] \in 0 .. uiW
    BY <2>2, <2>3
  <2> QED BY <2>2, <2>4
<1>4. IsFiniteSet(1 .. uiL) /\ IsFiniteSet(0 .. uiW)
  BY FS_Interval
<1>5. IsFiniteSet((1 .. uiL) \X (0 .. uiW))
  BY <1>4, FS_Product
<1> QED BY <1>3, <1>5, FS_Subset

-----------------------------------------------------------------------------
(***************************************************************************)
(* The types.                                                              *)
(***************************************************************************)
Ops == {"Set", "Get", "NextVal"}
Items == [key : Keys \cup {0}, value : Values \cup {0}]
Operations == [op : Ops, key : Keys \cup {0}, value : Values \cup {0}, level : Levels,
               slot : Slots \cup {None}, late : BOOLEAN]
Results == [op : Ops, key : Keys \cup {0}, ok : BOOLEAN, value : Values \cup {0},
            late : BOOLEAN]
Walks == [due : SUBSET Keys, met : SUBSET Keys, n : Nat]

Types ==
    /\ Shaped
    /\ item \in [Slots -> Items] /\ hist \in [Keys -> SUBSET (Values \cup {0})]
    /\ attached \subseteq Users /\ num \in [Users -> Nat]
    /\ cur \in [Users -> Slots \cup {Behind}]
    /\ task \in [Users -> Operations \cup {None}]
    /\ reply \in [Users -> Results \cup {None}]
    /\ walk \in [Users -> Walks \cup {None}]
    /\ \A p \in Users : task[p] # None /\ task[p].op = "NextVal" => walk[p] # None

LEMMA StoredTypes ==
    ASSUME Types
    PROVE  /\ Stored \subseteq Keys
           /\ \A k : k \in Stored <=> k # 0 /\ \E s \in Slots : item[s].key = k
<1>1. \A s \in Slots : item[s].key \in Keys \cup {0}
  BY DEF Types, Items
<1> QED BY <1>1 DEF Stored

LEMMA TypesBegin ==
    ASSUME BukStart
    PROVE  Types
<1>1. Shaped
  BY ShapedBegins
<1>2. Free \in Items
  BY DEF Free, Items
<1>3. item \in [Slots -> Items] /\ hist \in [Keys -> SUBSET (Values \cup {0})]
  BY <1>2 DEF BukStart
<1>4. cur \in [Users -> Slots \cup {Behind}]
  BY <1>1, FirstSlot DEF BukStart
<1>5. /\ attached \subseteq Users /\ num \in [Users -> Nat]
      /\ task \in [Users -> Operations \cup {None}] /\ reply \in [Users -> Results \cup {None}]
      /\ walk \in [Users -> Walks \cup {None}] /\ \A p \in Users : task[p] = None
  BY DEF BukStart
<1> QED BY <1>1, <1>3, <1>4, <1>5 DEF Types

\* The slots stay where they are.
LEMMA SameSlots ==
    ASSUME arPrime' = arPrime
    PROVE  /\ Levels' = Levels /\ Slots' = Slots /\ Behind' = Behind /\ (Shaped' <=> Shaped)
           /\ Operations' = Operations
           /\ \A k, i : Slot(k, i)' = Slot(k, i)
           /\ \A s : Following(s)' = Following(s)
<1>1. Levels' = Levels
  BY DEF Levels
<1>2. Slots' = Slots
  BY <1>1 DEF Slots
<1>3. Behind' = Behind /\ (Shaped' <=> Shaped)
  BY DEF Behind, Shaped
<1>4. Operations' = Operations
  BY <1>1, <1>2 DEF Operations
<1>5. \A k, i : Slot(k, i)' = Slot(k, i)
  BY DEF Slot
<1>6. \A s : Following(s)' = Following(s)
  BY DEF Following
<1> QED BY <1>1, <1>2, <1>3, <1>4, <1>5, <1>6

LEMMA BeginTypes ==
    ASSUME Types, NEW p \in Users, NEW op \in Ops, NEW k \in Keys \cup {0},
           NEW v \in Values \cup {0}, BeginCall(p, op, k, v)
    PROVE  /\ task' \in [Users -> Operations \cup {None}] /\ reply' \in [Users -> Results \cup {None}]
           /\ p \in attached /\ task[p] = None
           /\ task'[p].op = op /\ task'[p].key = k /\ task'[p].level = 1 /\ task'[p].slot = None
           /\ (task'[p].late <=> k \in Stored)
           /\ \A w \in Users \ {p} : task'[w] = task[w]
           /\ reply'[p] = None /\ \A w \in Users \ {p} : reply'[w] = reply[w]
<1> DEFINE t == [op |-> op, key |-> k, value |-> v, level |-> 1, slot |-> None, late |-> k \in Stored]
<1>1. 1 \in Levels
  BY ShapeTypes DEF Types
<1>2. t \in Operations
  BY <1>1 DEF Operations
<1>3. task' = [task EXCEPT ![p] = t] /\ reply' = [reply EXCEPT ![p] = None] /\ p \in attached /\ task[p] = None
  BY DEF BeginCall
<1>4. t.op = op /\ t.key = k /\ t.level = 1 /\ t.slot = None /\ (t.late <=> k \in Stored)
  OBVIOUS
<1> HIDE DEF t
<1> QED BY <1>2, <1>3, <1>4 DEF Types

LEMMA ReturnTypes ==
    ASSUME Types, NEW p \in Users, NEW ok \in BOOLEAN, NEW v \in Values \cup {0},
           task[p] # None, EndCall(p, ok, v)
    PROVE  /\ task' \in [Users -> Operations \cup {None}] /\ reply' \in [Users -> Results \cup {None}]
           /\ task'[p] = None /\ \A w \in Users \ {p} : task'[w] = task[w]
           /\ \A w \in Users \ {p} : reply'[w] = reply[w]
           /\ reply'[p].op = task[p].op /\ reply'[p].key = task[p].key /\ (reply'[p].ok <=> ok)
           /\ reply'[p].value = v /\ (reply'[p].late <=> task[p].late)
<1> DEFINE r == [op |-> task[p].op, key |-> task[p].key, ok |-> ok, value |-> v, late |-> task[p].late]
<1>1. task[p] \in Operations
  BY DEF Types
<1>2. r \in Results
  BY <1>1 DEF Operations, Results
<1>3. task' = [task EXCEPT ![p] = None] /\ reply' = [reply EXCEPT ![p] = r]
  BY DEF EndCall
<1>4. /\ r.op = task[p].op /\ r.key = task[p].key /\ (r.ok <=> ok)
      /\ r.value = v /\ (r.late <=> task[p].late)
  OBVIOUS
<1> HIDE DEF r
<1> QED BY <1>2, <1>3, <1>4 DEF Types

\* What a probe looks at.
LEMMA HereTypes ==
    ASSUME Types, NEW p \in Users, task[p] # None
    PROVE  /\ task[p] \in Operations /\ task[p].key \in Nat /\ task[p].level \in Levels
           /\ Here(task[p]) \in Slots /\ item[Here(task[p])] \in Items
           /\ [task[p] EXCEPT !.slot = Here(task[p])] \in Operations
<1>1. task[p] \in Operations
  BY DEF Types
<1>2. task[p].key \in Nat /\ task[p].level \in Levels
  <2>1. task[p].key \in Keys \cup {0} /\ task[p].level \in Levels
    BY <1>1 DEF Operations
  <2>2. Keys \subseteq Nat
    BY BukAssumption DEF BukAssumption
  <2> QED BY <2>1, <2>2
<1>3. Here(task[p]) \in Slots
  BY <1>2, SlotType DEF Types, Here
<1>4. item[Here(task[p])] \in Items
  BY <1>3 DEF Types
<1>5. [task[p] EXCEPT !.slot = Here(task[p])] \in Operations
  BY <1>1, <1>3 DEF Operations
<1> QED BY <1>1, <1>2, <1>3, <1>4, <1>5

\* Steps that leave the walks and the table's slots alone.
LEMMA SameTypes ==
    ASSUME Types, arPrime' = arPrime, item' \in [Slots -> Items],
           hist' \in [Keys -> SUBSET (Values \cup {0})], attached' \subseteq Users, num' \in [Users -> Nat],
           cur' = cur, walk' = walk,
           task' \in [Users -> Operations \cup {None}], reply' \in [Users -> Results \cup {None}],
           \A p \in Users : task'[p] # None /\ task'[p].op = "NextVal" => walk[p] # None
    PROVE  Types'
BY SameSlots DEF Types

LEMMA CreateTypes ==
    ASSUME Types, NEW p \in Users, NEW bZero \in BOOLEAN, Create(p, bZero)
    PROVE  Types'
<1>1. Free \in Items /\ First \in Slots /\ 0 \in Nat
  BY FirstSlot DEF Free, Items, Types
<1>2. /\ arPrime' = arPrime /\ task' = task /\ reply' = reply /\ walk' = walk
      /\ attached' = attached \cup {p} /\ num' = [num EXCEPT ![p] = 0] /\ cur' = [cur EXCEPT ![p] = First]
  BY DEF Create
<1>3. item' \in [Slots -> Items] /\ hist' \in [Keys -> SUBSET (Values \cup {0})]
  BY <1>1 DEF Create, Types
<1>4. attached' \subseteq Users /\ num' \in [Users -> Nat] /\ cur' \in [Users -> Slots \cup {Behind}]
  BY <1>1, <1>2 DEF Types
<1> QED BY <1>2, <1>3, <1>4, SameSlots DEF Types

LEMMA ExitTypes ==
    ASSUME Types, NEW p \in Users, Exit(p)
    PROVE  Types'
<1>1. /\ arPrime' = arPrime /\ item' = item /\ hist' = hist /\ num' = num /\ cur' = cur
      /\ attached' = attached \ {p} /\ task' = [task EXCEPT ![p] = None] /\ reply' = [reply EXCEPT ![p] = None]
      /\ walk' = [walk EXCEPT ![p] = None]
  BY DEF Exit, table
<1>2. /\ task' \in [Users -> Operations \cup {None}] /\ reply' \in [Users -> Results \cup {None}]
      /\ walk' \in [Users -> Walks \cup {None}] /\ attached' \subseteq Users
  BY <1>1 DEF Types
<1>3. \A w \in Users : task'[w] # None => task'[w] = task[w] /\ walk'[w] = walk[w]
  BY <1>1 DEF Types
<1> QED BY <1>1, <1>2, <1>3, SameSlots DEF Types

LEMMA CallTypes ==
    ASSUME Types, NEW p \in Users, Set(p) \/ Get(p) \/ NextVal(p)
    PROVE  Types'
<1>1. UNCHANGED <<table, attached, num, cur, true, walk>>
  BY DEF Set, Get, NextVal
<1>2. \E op \in Ops, k \in Keys \cup {0}, v \in Values \cup {0} :
        BeginCall(p, op, k, v) /\ (op = "NextVal" => walk[p] # None)
  BY DEF Set, Get, NextVal, Ops
<1>3. PICK op \in Ops, k \in Keys \cup {0}, v \in Values \cup {0} :
        BeginCall(p, op, k, v) /\ (op = "NextVal" => walk[p] # None)
  BY <1>2
<1>4. /\ task' \in [Users -> Operations \cup {None}] /\ reply' \in [Users -> Results \cup {None}]
      /\ task'[p].op = op /\ \A w \in Users \ {p} : task'[w] = task[w]
  BY <1>3, BeginTypes
<1>5. \A w \in Users : task'[w] # None /\ task'[w].op = "NextVal" => walk[w] # None
  BY <1>3, <1>4 DEF Types
<1>6. /\ item' \in [Slots -> Items] /\ hist' \in [Keys -> SUBSET (Values \cup {0})]
      /\ attached' \subseteq Users /\ num' \in [Users -> Nat]
  BY <1>1 DEF table, Types
<1> QED BY <1>1, <1>4, <1>5, <1>6, SameTypes DEF table

\* A probe that finds its slot or leaves a level.
LEMMA FindTypes ==
    ASSUME Types, NEW p \in Users, Find(p)
    PROVE  Types'
<1> DEFINE n == [task[p] EXCEPT !.slot = Here(task[p])]
<1>1. task[p] # None /\ task' = [task EXCEPT ![p] = n]
      /\ UNCHANGED <<table, attached, num, cur, reply, calls, true, walk>>
  BY DEF Find, Probing
<1>2. n \in Operations /\ n.op = task[p].op
  BY <1>1, HereTypes DEF Operations
<1> HIDE DEF n
<1>3. /\ task' \in [Users -> Operations \cup {None}]
      /\ \A w \in Users : task'[w] # None => task[w] # None /\ task'[w].op = task[w].op
  BY <1>1, <1>2 DEF Types
<1>4. /\ item' \in [Slots -> Items] /\ hist' \in [Keys -> SUBSET (Values \cup {0})]
      /\ attached' \subseteq Users /\ num' \in [Users -> Nat] /\ reply' \in [Users -> Results \cup {None}]
      /\ \A w \in Users : task'[w] # None /\ task'[w].op = "NextVal" => walk[w] # None
  BY <1>1, <1>3 DEF table, Types
<1> QED BY <1>1, <1>3, <1>4, SameTypes DEF table

LEMMA MissTypes ==
    ASSUME Types, NEW p \in Users, Miss(p)
    PROVE  Types'
<1>1. task[p] # None /\ UNCHANGED <<table, attached, num, cur, calls, true, walk>>
  BY DEF Miss, Probing
<1>2. /\ task' \in [Users -> Operations \cup {None}] /\ reply' \in [Users -> Results \cup {None}]
      /\ \A w \in Users : task'[w] # None => task[w] # None /\ task'[w].op = task[w].op
  <2>1. CASE task[p].level < Len(arPrime) /\ task' = [task EXCEPT ![p].level = @ + 1] /\ reply' = reply
    <3> DEFINE n == [task[p] EXCEPT !.level = @ + 1]
    <3>1. task[p] \in Operations /\ task[p].level \in Levels
      BY <1>1, HereTypes
    <3>2. task[p].level + 1 \in Levels
      BY <2>1, <3>1, ShapeTypes DEF Types, Levels
    <3>3. n \in Operations /\ n.op = task[p].op
      BY <3>1, <3>2 DEF Operations
    <3>4. task' = [task EXCEPT ![p] = n]
      BY <2>1
    <3> HIDE DEF n
    <3> QED BY <1>1, <2>1, <3>3, <3>4 DEF Types
  <2>2. CASE EndCall(p, FALSE, 0)
    BY <1>1, <2>2, ReturnTypes
  <2> QED BY <2>1, <2>2 DEF Miss
<1>3. /\ item' \in [Slots -> Items] /\ hist' \in [Keys -> SUBSET (Values \cup {0})]
      /\ attached' \subseteq Users /\ num' \in [Users -> Nat]
      /\ \A w \in Users : task'[w] # None /\ task'[w].op = "NextVal" => walk[w] # None
  BY <1>1, <1>2 DEF table, Types
<1> QED BY <1>1, <1>2, <1>3, SameTypes DEF table

LEMMA ClaimTypes ==
    ASSUME Types, NEW p \in Users, Claim(p)
    PROVE  Types'
<1> DEFINE n == [task[p] EXCEPT !.slot = Here(task[p])]
           e == [item[Here(task[p])] EXCEPT !.key = task[p].key]
<1>1. /\ task[p] # None /\ task' = [task EXCEPT ![p] = n]
      /\ item' = [item EXCEPT ![Here(task[p])] = e]
      /\ num' = [num EXCEPT ![p] = @ + 1]
      /\ UNCHANGED <<arPrime, attached, cur, reply, calls, true, walk, hist>>
  BY DEF Claim, Probing
<1>2. n \in Operations /\ n.op = task[p].op
  BY <1>1, HereTypes DEF Operations
<1>3. e \in Items /\ Here(task[p]) \in Slots
  BY <1>1, HereTypes, ZenonT(60) DEF Items, Operations
<1> HIDE DEF n, e
<1>4. /\ task' \in [Users -> Operations \cup {None}]
      /\ \A w \in Users : task'[w] # None => task[w] # None /\ task'[w].op = task[w].op
  BY <1>1, <1>2 DEF Types
<1>5. item' \in [Slots -> Items] /\ num' \in [Users -> Nat]
  <2>1. item \in [Slots -> Items] /\ num \in [Users -> Nat]
    BY DEF Types
  <2> QED BY <1>1, <1>3, <2>1
<1>6. /\ hist' \in [Keys -> SUBSET (Values \cup {0})] /\ attached' \subseteq Users
      /\ reply' \in [Users -> Results \cup {None}]
      /\ \A w \in Users : task'[w] # None /\ task'[w].op = "NextVal" => walk[w] # None
  BY <1>1, <1>4 DEF Types
<1> QED BY <1>1, <1>4, <1>5, <1>6, SameTypes

LEMMA CopyTypes ==
    ASSUME Types, NEW p \in Users, CopyValue(p)
    PROVE  Types'
<1> DEFINE t == task[p]
           e == [item[t.slot] EXCEPT !.value = t.value]
<1>1. t # None /\ t.slot # None /\ UNCHANGED <<attached, num, cur, calls, true, walk>>
  BY DEF CopyValue
<1>2. t \in Operations /\ t.slot \in Slots /\ t.value \in Values \cup {0}
  BY <1>1, HereTypes DEF Operations
<1>3. item[t.slot] \in Items /\ item[t.slot].value \in Values \cup {0} /\ e \in Items
  BY <1>2 DEF Types, Items
<1>4. /\ arPrime' = arPrime /\ item' \in [Slots -> Items] /\ hist' \in [Keys -> SUBSET (Values \cup {0})]
      /\ \E v \in Values \cup {0} : EndCall(p, TRUE, v)
  <2>1. CASE t.op = "Get"
    BY <1>2, <1>3, <2>1 DEF CopyValue, table, Types
  <2>2. CASE t.op # "Get"
    <3>1. /\ item' = [item EXCEPT ![t.slot] = e]
          /\ hist' = [hist EXCEPT ![t.key] = @ \cup {t.value}]
          /\ EndCall(p, TRUE, t.value) /\ arPrime' = arPrime
      BY <2>2 DEF CopyValue
    <3> HIDE DEF e, t
    <3>2. item' \in [Slots -> Items]
      BY <1>2, <1>3, <3>1 DEF Types
    <3> QED BY <1>2, <3>1, <3>2 DEF Types
  <2> QED BY <2>1, <2>2
<1>5. /\ task' \in [Users -> Operations \cup {None}] /\ reply' \in [Users -> Results \cup {None}]
      /\ task'[p] = None /\ \A w \in Users \ {p} : task'[w] = task[w]
  BY <1>1, <1>4, ReturnTypes
<1>6. /\ attached' \subseteq Users /\ num' \in [Users -> Nat]
      /\ \A w \in Users : task'[w] # None /\ task'[w].op = "NextVal" => walk[w] # None
  BY <1>1, <1>5 DEF Types
<1> QED BY <1>1, <1>4, <1>5, <1>6, SameTypes

LEMMA SeedTypes ==
    ASSUME Types, NEW p \in Users, Seed(p)
    PROVE  Types'
<1> DEFINE w == [due |-> Stored, met |-> {}, n |-> 0]
<1>1. /\ task[p] = None /\ cur' = [cur EXCEPT ![p] = First] /\ walk' = [walk EXCEPT ![p] = w]
      /\ UNCHANGED <<table, attached, num, task, reply, calls, true>>
  BY DEF Seed
<1>2. w \in Walks
  BY StoredTypes DEF Walks
<1> HIDE DEF w
<1>3. walk' \in [Users -> Walks \cup {None}] /\ cur' \in [Users -> Slots \cup {Behind}]
  BY <1>1, <1>2, FirstSlot DEF Types
<1>4. \A q \in Users : q # p => walk'[q] = walk[q]
  BY <1>1 DEF Types
<1> QED BY <1>1, <1>3, <1>4, SameSlots DEF Types, table

\* What a turn of NextVal's loop makes of the walk.
Met(w, k) == [w EXCEPT !.met = @ \cup {k}, !.n = @ + 1]

LEMMA LookSteps ==
    ASSUME Types, NEW p \in Users, Look(p)
    PROVE  /\ task[p] # None /\ task[p].op = "NextVal" /\ walk[p] \in Walks /\ walk[p] # None
           /\ UNCHANGED <<table, attached, num, calls, true>>
           /\ \/ cur[p] \notin Slots /\ EndCall(p, FALSE, 0) /\ UNCHANGED <<cur, walk>>
              \/ /\ cur[p] \in Slots /\ cur' = [cur EXCEPT ![p] = Following(cur[p])]
                 /\ item[cur[p]].key = 0 /\ UNCHANGED <<task, reply, walk>>
              \/ /\ cur[p] \in Slots /\ cur' = [cur EXCEPT ![p] = Following(cur[p])]
                 /\ item[cur[p]].key \in Keys /\ item[cur[p]].value \in Values \cup {0}
                 /\ EndCall(p, TRUE, item[cur[p]].value)
                 /\ walk' = [walk EXCEPT ![p] = Met(walk[p], item[cur[p]].key)]
<1>1. task[p] # None /\ task[p].op = "NextVal" /\ UNCHANGED <<table, attached, num, calls, true>>
  BY DEF Look
<1>2. walk[p] \in Walks /\ walk[p] # None
  BY <1>1 DEF Types
<1>3. cur[p] \in Slots => item[cur[p]] \in Items
  BY DEF Types
<1>4. cur[p] \in Slots => item[cur[p]].key \in Keys \cup {0} /\ item[cur[p]].value \in Values \cup {0}
  BY <1>3 DEF Items
<1>5. CASE cur[p] \notin Slots
  BY <1>1, <1>2, <1>5 DEF Look
<1>6. CASE cur[p] \in Slots /\ item[cur[p]].key = 0
  BY <1>1, <1>2, <1>6 DEF Look
<1>7. CASE cur[p] \in Slots /\ item[cur[p]].key # 0
  <2>1. /\ cur' = [cur EXCEPT ![p] = Following(cur[p])]
        /\ EndCall(p, TRUE, item[cur[p]].value)
    BY <1>7 DEF Look
  <2>2. walk' = [walk EXCEPT ![p] = Met(walk[p], item[cur[p]].key)]
    BY <1>2, <1>7 DEF Look, Met, Types
  <2> QED BY <1>1, <1>2, <1>4, <1>7, <2>1, <2>2
<1> QED BY <1>5, <1>6, <1>7

LEMMA MetType ==
    ASSUME NEW w \in Walks, NEW k \in Keys
    PROVE  /\ Met(w, k) \in Walks /\ Met(w, k).met = w.met \cup {k}
           /\ Met(w, k).n = w.n + 1 /\ Met(w, k).due = w.due
<1>1. w.n + 1 \in Nat /\ w.met \cup {k} \in SUBSET Keys
  BY DEF Walks
<1>2. Met(w, k) \in Walks
  BY <1>1 DEF Met, Walks
<1> QED BY <1>2 DEF Met, Walks

LEMMA LookTypes ==
    ASSUME Types, NEW p \in Users, Look(p)
    PROVE  Types'
<1>1. /\ task[p] # None /\ walk[p] \in Walks /\ UNCHANGED <<table, attached, num, calls, true>>
  BY LookSteps
<1>2. CASE cur[p] \notin Slots /\ EndCall(p, FALSE, 0) /\ UNCHANGED <<cur, walk>>
  <2>1. /\ task' \in [Users -> Operations \cup {None}] /\ reply' \in [Users -> Results \cup {None}]
        /\ task'[p] = None /\ \A w \in Users \ {p} : task'[w] = task[w]
    BY <1>1, <1>2, ReturnTypes
  <2>2. /\ item' \in [Slots -> Items] /\ hist' \in [Keys -> SUBSET (Values \cup {0})]
        /\ attached' \subseteq Users /\ num' \in [Users -> Nat]
        /\ \A w \in Users : task'[w] # None /\ task'[w].op = "NextVal" => walk[w] # None
    BY <1>1, <2>1 DEF Types, table
  <2> QED BY <1>1, <1>2, <2>1, <2>2, SameTypes DEF table
<1>3. ASSUME cur[p] \in Slots, cur' = [cur EXCEPT ![p] = Following(cur[p])]
      PROVE  cur' \in [Users -> Slots \cup {Behind}]
  <2>1. Following(cur[p]) \in Slots \cup {Behind}
    BY <1>3, NextSlot DEF Types
  <2> QED BY <1>3, <2>1 DEF Types
<1>4. CASE /\ cur[p] \in Slots /\ cur' = [cur EXCEPT ![p] = Following(cur[p])]
           /\ item[cur[p]].key = 0 /\ UNCHANGED <<task, reply, walk>>
  BY <1>1, <1>3, <1>4, SameSlots DEF Types, table
<1>5. CASE /\ cur[p] \in Slots /\ cur' = [cur EXCEPT ![p] = Following(cur[p])]
           /\ item[cur[p]].key \in Keys /\ item[cur[p]].value \in Values \cup {0}
           /\ EndCall(p, TRUE, item[cur[p]].value)
           /\ walk' = [walk EXCEPT ![p] = Met(walk[p], item[cur[p]].key)]
  <2>1. /\ task' \in [Users -> Operations \cup {None}] /\ reply' \in [Users -> Results \cup {None}]
        /\ task'[p] = None /\ \A w \in Users \ {p} : task'[w] = task[w]
    BY <1>1, <1>5, ReturnTypes
  <2>2. walk' \in [Users -> Walks \cup {None}] /\ \A w \in Users \ {p} : walk'[w] = walk[w]
    BY <1>1, <1>5, MetType DEF Types
  <2>3. \A w \in Users : task'[w] # None /\ task'[w].op = "NextVal" => walk'[w] # None
    BY <2>1, <2>2 DEF Types
  <2> QED BY <1>1, <1>3, <1>5, <2>1, <2>2, <2>3, SameSlots DEF Types, table
<1> QED BY <1>2, <1>4, <1>5, LookSteps

LEMMA RealNumTypes ==
    ASSUME Types, NEW p \in Users, GetRealNum(p)
    PROVE  Types'
<1>1. /\ num' = [num EXCEPT ![p] = Cardinality({s \in Slots : item[s].key # 0})]
      /\ UNCHANGED <<table, attached, cur, task, reply, calls, walk>>
  BY DEF GetRealNum
<1>2. IsFiniteSet({s \in Slots : item[s].key # 0})
  BY FiniteSlots, FS_Subset DEF Types
<1>3. Cardinality({s \in Slots : item[s].key # 0}) \in Nat
  BY <1>2, FS_CardinalityType
<1>4. num' \in [Users -> Nat]
  BY <1>1, <1>3 DEF Types
<1> QED BY <1>1, <1>4, SameSlots DEF Types, table

LEMMA TypesNext ==
    ASSUME Types, [BukNext]_bukVars
    PROVE  Types'
<1>1. ASSUME UNCHANGED bukVars PROVE Types'
  BY <1>1, SameSlots DEF bukVars, Types
<1> QED BY <1>1, CreateTypes, ExitTypes, CallTypes, FindTypes, MissTypes, ClaimTypes,
          CopyTypes, SeedTypes, LookTypes, RealNumTypes DEF BukNext

-----------------------------------------------------------------------------
(***************************************************************************)
(* Where keys lie, and what a probe has passed.                            *)
(***************************************************************************)
\* No slot before that of a key, on its way, is free or holds it.
Passed(k, i) == \A j \in 1 .. i - 1 : item[Slot(k, j)].key \notin {0, k}
Placed ==
    \A s \in Slots : item[s].key # 0 =>
        s = Slot(item[s].key, s[1]) /\ Passed(item[s].key, s[1])

\* A lookup, or a write by the writer, has passed the levels before its own.
Probe(t) ==
    IF t.op = "NextVal" THEN t.slot = None
    ELSE /\ t.key \in Keys
         /\ t.slot = None => Passed(t.key, t.level)
         /\ t.slot # None => item[t.slot].key = t.key
         /\ t.late => t.key \in Stored
Probes ==
    \A p \in Users : task[p] # None =>
        p \in attached /\ (task[p].op = "Set" => p = Writer) /\ Probe(task[p])

\* A step keeps the keys where they are.
Kept == /\ arPrime' = arPrime
        /\ \A s \in Slots : item[s].key # 0 => item'[s].key = item[s].key

LEMMA PassedSlots ==
    ASSUME Types, NEW k \in Keys, NEW i \in Levels
    PROVE  \A j \in 1 .. i - 1 : Slot(k, j) \in Slots /\ Slot(k, j)[1] = j /\ j \in Levels
<1>1. k \in Nat
  BY BukAssumption DEF BukAssumption
<1>2. \A j \in 1 .. i - 1 : j \in Levels
  BY ShapeTypes DEF Types, Levels
<1> QED BY <1>1, <1>2, SlotType DEF Types

LEMMA KeptPassed ==
    ASSUME Types, Kept, NEW k \in Keys, NEW i \in Levels, Passed(k, i)
    PROVE  \A j \in 1 .. i - 1 : item'[Slot(k, j)].key \notin {0, k}
<1>2. \A j \in 1 .. i - 1 : Slot(k, j) \in Slots
  BY PassedSlots
<1>3. \A j \in 1 .. i - 1 : item'[Slot(k, j)].key = item[Slot(k, j)].key
  BY <1>2 DEF Kept, Passed
<1> QED BY <1>3 DEF Passed

LEMMA KeptStored ==
    ASSUME Types, Types', Kept, NEW k \in Stored
    PROVE  k \in Stored'
<1>1. PICK s \in Slots : item[s].key = k /\ k # 0
  BY StoredTypes
<1>2. Slots' = Slots /\ item'[s].key = k
  BY <1>1, SameSlots DEF Kept
<1> QED BY <1>1, <1>2 DEF Stored

LEMMA KeptProbe ==
    ASSUME Types, Types', Kept, NEW t \in Operations, Probe(t)
    PROVE  Probe(t)'
<1>1. t.level \in Levels /\ t.slot \in Slots \cup {None}
  BY DEF Operations
<1>2. SUFFICES ASSUME t.op # "NextVal"
               PROVE  /\ t.key \in Keys
                      /\ t.slot = None => Passed(t.key, t.level)'
                      /\ t.slot # None => item'[t.slot].key = t.key
                      /\ t.late => t.key \in Stored'
  BY DEF Probe
<1>3. t.key \in Keys /\ t.key # 0
  BY <1>2, BukAssumption DEF Probe, BukAssumption
<1>4. t.slot # None => item'[t.slot].key = t.key
  BY <1>1, <1>2, <1>3 DEF Probe, Kept
<1>5. t.slot = None => Passed(t.key, t.level)'
  <2>1. t.slot = None => \A j \in 1 .. t.level - 1 : item'[Slot(t.key, j)].key \notin {0, t.key}
    BY <1>1, <1>2, <1>3, KeptPassed DEF Probe
  <2>2. \A j : Slot(t.key, j)' = Slot(t.key, j)
    BY DEF Kept, Slot
  <2> QED BY <2>1, <2>2 DEF Passed
<1>6. t.late => t.key \in Stored'
  BY <1>2, KeptStored DEF Probe
<1> QED BY <1>3, <1>4, <1>5, <1>6

\* Where a key that is stored lies, for one that has passed some levels.
LEMMA LiesBehind ==
    ASSUME Types, Placed, NEW k \in Keys, NEW i \in Levels, Passed(k, i),
           NEW s \in Slots, item[s].key = k, item[Slot(k, i)].key # k
    PROVE  s[1] \in Levels /\ s[1] > i /\ item[Slot(k, i)].key # 0
<1>1. k # 0 /\ s[1] \in Levels /\ s = Slot(k, s[1]) /\ Passed(k, s[1])
  BY SlotPairs, BukAssumption DEF Placed, BukAssumption
<1>2. s[1] \in Nat /\ i \in Nat /\ s[1] >= 1 /\ i >= 1
  BY <1>1 DEF Levels
<1>3. s[1] # i
  BY <1>1
<1>4. ~(s[1] < i)
  <2>1. SUFFICES ASSUME s[1] < i PROVE FALSE
    OBVIOUS
  <2>2. s[1] \in 1 .. i - 1
    BY <1>2, <2>1
  <2> QED BY <1>1, <2>2 DEF Passed
<1>5. s[1] > i /\ i \in 1 .. s[1] - 1
  BY <1>2, <1>3, <1>4
<1> QED BY <1>1, <1>5 DEF Passed

\* Every key lies in one slot.
LEMMA OneSlot ==
    ASSUME Types, Placed, NEW s \in Slots, NEW t \in Slots,
           item[s].key # 0, item[s].key = item[t].key
    PROVE  s = t
<1> DEFINE k == item[s].key
<1>1. k \in Keys
  <2>1. item[s] \in Items
    BY DEF Types
  <2> QED BY <2>1 DEF Items
<1>2. /\ s[1] \in Levels /\ t[1] \in Levels /\ s = Slot(k, s[1]) /\ t = Slot(k, t[1])
      /\ Passed(k, s[1]) /\ Passed(k, t[1])
  BY SlotPairs DEF Placed
<1>3. s[1] \in Nat /\ t[1] \in Nat /\ s[1] >= 1 /\ t[1] >= 1
  BY <1>2 DEF Levels
<1>4. ~(s[1] < t[1])
  <2>1. s[1] < t[1] => s[1] \in 1 .. t[1] - 1
    BY <1>3
  <2> QED BY <1>2, <2>1 DEF Passed
<1>5. ~(t[1] < s[1])
  <2>1. t[1] < s[1] => t[1] \in 1 .. s[1] - 1
    BY <1>3
  <2> QED BY <1>2, <2>1 DEF Passed
<1>6. s[1] = t[1]
  BY <1>3, <1>4, <1>5
<1> QED BY <1>2, <1>6

\* What a step does to the keys: nothing, or one is written into a free slot,
\* or the table is cleared while no process has it.
Claimed(p) ==
    /\ task[p] # None /\ task[p].op = "Set" /\ task[p].slot = None
    /\ arPrime' = arPrime /\ item[Here(task[p])].key = 0
    /\ item'[Here(task[p])].key = task[p].key
    /\ \A s \in Slots : s # Here(task[p]) => item'[s] = item[s]
SameKeys == arPrime' = arPrime /\ \A s \in Slots : item'[s].key = item[s].key

LEMMA ClaimSteps ==
    ASSUME Types, NEW p \in Users, Claim(p)
    PROVE  /\ Claimed(p) /\ item'[Here(task[p])].value = item[Here(task[p])].value
           /\ task' = [task EXCEPT ![p] = [@ EXCEPT !.slot = Here(task[p])]]
           /\ num' = [num EXCEPT ![p] = @ + 1]
           /\ UNCHANGED <<arPrime, attached, cur, reply, calls, true, walk, hist>>
<1> DEFINE x == Here(task[p])
           e == [item[x] EXCEPT !.key = task[p].key]
<1>1. /\ task[p] # None /\ task[p].op # "NextVal" /\ task[p].op # "Get" /\ task[p].slot = None
      /\ item[x].key = 0 /\ item' = [item EXCEPT ![x] = e]
  BY DEF Claim, Probing
<1>2. x \in Slots /\ item[x] \in Items /\ task[p] \in Operations
  BY <1>1, HereTypes
<1>3. task[p].op = "Set"
  BY <1>1, <1>2 DEF Operations, Ops
<1>4. e.key = task[p].key /\ e.value = item[x].value
  BY <1>2 DEF Items
<1> HIDE DEF e, x
<1>5. item'[x] = e /\ \A s \in Slots : s # x => item'[s] = item[s]
  BY <1>1, <1>2 DEF Types
<1> QED BY <1>1, <1>3, <1>4, <1>5 DEF Claim, Claimed, x

LEMMA CopySteps ==
    ASSUME Types, NEW p \in Users, CopyValue(p)
    PROVE  /\ SameKeys /\ task[p] # None /\ task[p] \in Operations /\ task[p].slot \in Slots
           /\ UNCHANGED <<attached, num, cur, calls, true, walk>>
           /\ \A s \in Slots : s # task[p].slot => item'[s] = item[s]
           /\ task[p].op = "Get" => /\ item' = item /\ hist' = hist
                                    /\ EndCall(p, TRUE, item[task[p].slot].value)
           /\ task[p].op # "Get" => /\ item'[task[p].slot].value = task[p].value
                                    /\ hist' = [hist EXCEPT ![task[p].key] = @ \cup {task[p].value}]
                                    /\ EndCall(p, TRUE, task[p].value)
<1> DEFINE t == task[p]
           e == [item[t.slot] EXCEPT !.value = t.value]
<1>1. t # None /\ t.slot # None /\ UNCHANGED <<attached, num, cur, calls, true, walk>>
  BY DEF CopyValue
<1>2. t \in Operations /\ t.slot \in Slots /\ item[t.slot] \in Items
  BY <1>1, HereTypes DEF Operations, Types
<1>3. CASE t.op = "Get"
  BY <1>1, <1>2, <1>3 DEF CopyValue, table, SameKeys
<1>4. CASE t.op # "Get"
  <2>1. /\ item' = [item EXCEPT ![t.slot] = e] /\ arPrime' = arPrime
        /\ hist' = [hist EXCEPT ![t.key] = @ \cup {t.value}] /\ EndCall(p, TRUE, t.value)
    BY <1>4 DEF CopyValue
  <2>2. e.key = item[t.slot].key /\ e.value = t.value
    BY <1>2 DEF Items
  <2> HIDE DEF e, t
  <2>3. item'[t.slot] = e /\ \A s \in Slots : s # t.slot => item'[s] = item[s]
    BY <1>2, <2>1 DEF Types
  <2> QED BY <1>1, <1>2, <1>4, <2>1, <2>2, <2>3 DEF SameKeys, t
<1> QED BY <1>3, <1>4

LEMMA KeySteps ==
    ASSUME Types, [BukNext]_bukVars
    PROVE  \/ SameKeys \/ \E p \in Users : Claim(p)
           \/ arPrime' = arPrime /\ attached = {} /\ \A s \in Slots : item'[s].key = 0
<1>1. ASSUME arPrime' = arPrime, item' = item PROVE SameKeys
  BY <1>1 DEF SameKeys
<1>2. ASSUME NEW p \in Users, NEW bZero \in BOOLEAN, Create(p, bZero)
      PROVE  SameKeys \/ (arPrime' = arPrime /\ attached = {} /\ \A s \in Slots : item'[s].key = 0)
  <2>1. CASE bZero
    BY <1>2, <2>1 DEF Create, Free
  <2>2. CASE ~bZero
    BY <1>1, <1>2, <2>2 DEF Create
  <2> QED BY <2>1, <2>2
<1>3. ASSUME NEW p \in Users,
             \/ Exit(p) \/ Set(p) \/ Get(p) \/ Find(p) \/ Miss(p)
             \/ Seed(p) \/ NextVal(p) \/ Look(p) \/ GetRealNum(p)
      PROVE  SameKeys
  BY <1>1, <1>3 DEF Exit, Set, Get, Find, Miss, Seed, NextVal, Look, GetRealNum, table
<1>4. ASSUME UNCHANGED bukVars PROVE SameKeys
  BY <1>1, <1>4 DEF bukVars
<1> QED BY <1>2, <1>3, <1>4, CopySteps DEF BukNext

LEMMA PlacedNext ==
    ASSUME Types, Types', Placed, Probes, [BukNext]_bukVars
    PROVE  Placed'
<1>1. CASE SameKeys
  <2>1. Slots' = Slots /\ \A k, i : Slot(k, i)' = Slot(k, i)
    BY <1>1, SameSlots DEF SameKeys
  <2>2. Kept
    BY <1>1 DEF SameKeys, Kept
  <2>3. ASSUME NEW s \in Slots, item'[s].key # 0
        PROVE  /\ s = Slot(item[s].key, s[1])
               /\ \A j \in 1 .. s[1] - 1 : item'[Slot(item[s].key, j)].key \notin {0, item[s].key}
    <3>1. item'[s].key = item[s].key /\ item[s] \in Items
      BY <1>1 DEF SameKeys, Types
    <3>2. item[s].key \in Keys /\ s[1] \in Levels
      BY <2>3, <3>1, SlotPairs DEF Items
    <3>3. s = Slot(item[s].key, s[1]) /\ Passed(item[s].key, s[1])
      BY <2>3, <3>1 DEF Placed
    <3> QED BY <2>2, <3>1, <3>2, <3>3, KeptPassed
  <2>4. \A s \in Slots : item'[s].key = item[s].key
    BY <1>1 DEF SameKeys
  <2> QED BY <2>1, <2>3, <2>4 DEF Placed, Passed
<1>2. CASE arPrime' = arPrime /\ attached = {} /\ \A s \in Slots : item'[s].key = 0
  BY <1>2, SameSlots DEF Placed
<1>3. ASSUME NEW p \in Users, Claim(p) PROVE Placed'
  <2> DEFINE t == task[p]  x == Here(t)
  <2>1. Claimed(p)
    BY <1>3, ClaimSteps
  <2>2. /\ t \in Operations /\ t.level \in Levels /\ x \in Slots /\ x = Slot(t.key, t.level)
        /\ t.key \in Nat
    BY <2>1, HereTypes DEF Claimed, Here
  <2>3. t.key \in Keys /\ Passed(t.key, t.level)
    BY <2>1 DEF Claimed, Probes, Probe
  <2>4. x[1] = t.level
    BY <2>2, SlotType DEF Types
  <2>5. Kept
    BY <2>1 DEF Claimed, Kept
  <2>6. Slots' = Slots /\ \A k, i : Slot(k, i)' = Slot(k, i)
    BY <2>1, SameSlots DEF Claimed
  <2>7. ASSUME NEW s \in Slots, item'[s].key # 0
        PROVE  /\ s = Slot(item'[s].key, s[1])
               /\ \A j \in 1 .. s[1] - 1 : item'[Slot(item'[s].key, j)].key \notin {0, item'[s].key}
    <3>1. CASE s = x
      <4>1. item'[s].key = t.key
        BY <2>1, <3>1 DEF Claimed
      <4>2. \A j \in 1 .. t.level - 1 : item'[Slot(t.key, j)].key \notin {0, t.key}
        BY <2>2, <2>3, <2>5, KeptPassed
      <4> HIDE DEF x
      <4> QED BY <2>2, <2>4, <3>1, <4>1, <4>2
    <3>2. CASE s # x
      <4>1. item'[s] = item[s] /\ item[s] \in Items
        BY <2>1, <3>2 DEF Claimed, Types
      <4>2. item[s].key \in Keys /\ s[1] \in Levels
        BY <2>7, <4>1, SlotPairs DEF Items
      <4>3. s = Slot(item[s].key, s[1]) /\ Passed(item[s].key, s[1])
        BY <2>7, <4>1 DEF Placed
      <4> DEFINE k == item[s].key
      <4>4. \A j \in 1 .. s[1] - 1 : item'[Slot(k, j)].key \notin {0, k}
        BY <2>5, <4>2, <4>3, KeptPassed
      <4>5. item'[s].key = k
        BY <4>1
      <4> HIDE DEF k
      <4> QED BY <4>3, <4>5, <4>4 DEF k
    <3> QED BY <3>1, <3>2
  <2> QED BY <2>6, <2>7 DEF Placed, Passed
<1> QED BY <1>1, <1>2, <1>3, KeySteps

LEMMA KeptUnlessUnused ==
    ASSUME Types, [BukNext]_bukVars
    PROVE  Kept \/ attached = {}
<1>1. SameKeys => Kept
  BY DEF SameKeys, Kept
<1>2. ASSUME NEW p \in Users, Claim(p) PROVE Kept
  <2>1. Claimed(p)
    BY <1>2, ClaimSteps
  <2> QED BY <2>1 DEF Claimed, Kept
<1> QED BY <1>1, <1>2, KeySteps

\* What a step makes of the operations under way.
Goes(p, t) ==
    /\ task' = [task EXCEPT ![p] = t] /\ p \in attached
    /\ attached' = attached /\ (t.op = "Set" => p = Writer) /\ Probe(t)'

LEMMA CallGoes ==
    ASSUME Types, Types', NEW p \in Users, Set(p) \/ Get(p) \/ NextVal(p)
    PROVE  \E t \in Operations : Goes(p, t)
<1>1. UNCHANGED <<table, attached, num, cur, true, walk>>
  BY DEF Set, Get, NextVal
<1>2. \E op \in Ops, k \in Keys \cup {0}, v \in Values \cup {0} :
        BeginCall(p, op, k, v) /\ (op # "NextVal" => k \in Keys) /\ (op = "Set" => p = Writer)
  BY DEF Set, Get, NextVal, Ops
<1>3. PICK op \in Ops, k \in Keys \cup {0}, v \in Values \cup {0} :
        BeginCall(p, op, k, v) /\ (op # "NextVal" => k \in Keys) /\ (op = "Set" => p = Writer)
  BY <1>2
<1>4. PICK t : t = [op |-> op, key |-> k, value |-> v, level |-> 1, slot |-> None, late |-> k \in Stored]
  OBVIOUS
<1>5. /\ t.op = op /\ t.key = k /\ t.level = 1 /\ t.slot = None /\ (t.late <=> k \in Stored)
  BY <1>4
<1>6. 1 \in Levels
  BY ShapeTypes DEF Types
<1>7. t \in Operations
  BY <1>4, <1>6 DEF Operations
<1>8. task' = [task EXCEPT ![p] = t] /\ p \in attached
  BY <1>3, <1>4 DEF BeginCall
<1>9. Stored' = Stored
  BY <1>1, SameSlots DEF Stored, table
<1>10. Probe(t)'
  <2>1. \A j \in 1 .. t.level - 1 : FALSE
    BY <1>5
  <2>2. Passed(t.key, t.level)'
    BY <2>1 DEF Passed
  <2> QED BY <1>3, <1>5, <1>9, <2>2 DEF Probe
<1> QED BY <1>1, <1>3, <1>5, <1>7, <1>8, <1>10 DEF Goes

\* A key that is in its slot of a level, now or from now on.
LEMMA FoundGoes ==
    ASSUME Types, Types', Probes, Kept, NEW p \in Users, Probing(p),
           item'[Here(task[p])].key = task[p].key, attached' = attached,
           task' = [task EXCEPT ![p] = [@ EXCEPT !.slot = Here(task[p])]]
    PROVE  \E t \in Operations : Goes(p, t)
<1>1. task[p] # None /\ task[p].slot = None /\ task[p].op # "NextVal"
  BY DEF Probing
<1>2. PICK o \in Operations : o = task[p]
  BY <1>1, HereTypes
<1>3. PICK t \in Operations : t = [o EXCEPT !.slot = Here(o)]
  BY <1>1, <1>2, HereTypes
<1>4. /\ t.op = o.op /\ t.key = o.key /\ t.slot = Here(o) /\ t.late = o.late /\ t.level = o.level
  BY <1>2, <1>3 DEF Operations
<1>5. p \in attached /\ (o.op = "Set" => p = Writer) /\ Probe(o)
  BY <1>1, <1>2 DEF Probes
<1>6. Probe(o)'
  BY <1>5, KeptProbe
<1>7. /\ o.key \in Keys /\ Passed(o.key, o.level)' /\ (o.late => o.key \in Stored')
  BY <1>1, <1>2, <1>6 DEF Probe
<1>8. item'[t.slot].key = t.key
  BY <1>2, <1>4
<1>9. Probe(t)'
  BY <1>1, <1>2, <1>4, <1>7, <1>8 DEF Probe
<1> QED BY <1>2, <1>3, <1>4, <1>5, <1>9 DEF Goes

\* A probe that leaves a level has passed it.
LEMMA MissGoes ==
    ASSUME Types, Types', Probes, Kept, NEW p \in Users, Probing(p), attached' = attached,
           item[Here(task[p])].key \notin {0, task[p].key}, task[p].level < Len(arPrime),
           task' = [task EXCEPT ![p].level = @ + 1]
    PROVE  \E t \in Operations : Goes(p, t)
<1>1. task[p] # None /\ task[p].slot = None /\ task[p].op # "NextVal"
  BY DEF Probing
<1>2. PICK o \in Operations : o = task[p]
  BY <1>1, HereTypes
<1>3. /\ o.level \in Levels /\ o.level \in Nat /\ o.level >= 1 /\ o.level + 1 \in Levels
  BY <1>2, ShapeTypes DEF Operations, Types, Levels
<1>4. PICK t : t = [o EXCEPT !.level = @ + 1]
  OBVIOUS
<1>5. /\ t \in Operations
      /\ t.op = o.op /\ t.key = o.key /\ t.slot = o.slot /\ t.late = o.late /\ t.level = o.level + 1
  BY <1>3, <1>4 DEF Operations
<1>6. p \in attached /\ (o.op = "Set" => p = Writer) /\ Probe(o)
  BY <1>1, <1>2 DEF Probes
<1>7. Probe(o)' /\ o.key \in Keys /\ Passed(o.key, o.level)
  BY <1>1, <1>2, <1>6, KeptProbe DEF Probe
<1>8. Passed(o.key, o.level + 1)
  <2>1. item[Slot(o.key, o.level)].key \notin {0, o.key}
    BY <1>2 DEF Here
  <2>2. \A j \in 1 .. (o.level + 1) - 1 : j \in 1 .. o.level - 1 \/ j = o.level
    BY <1>3
  <2> QED BY <1>7, <2>1, <2>2 DEF Passed
<1>9. Passed(t.key, t.level)'
  <2>1. \A j \in 1 .. t.level - 1 : item'[Slot(t.key, j)].key \notin {0, t.key}
    BY <1>3, <1>5, <1>7, <1>8, KeptPassed
  <2>2. \A j : Slot(t.key, j)' = Slot(t.key, j)
    BY DEF Kept, Slot
  <2> QED BY <2>1, <2>2 DEF Passed
<1>10. Probe(t)'
  BY <1>1, <1>2, <1>5, <1>7, <1>9 DEF Probe
<1> QED BY <1>2, <1>4, <1>5, <1>6, <1>10 DEF Goes

\* The operations that a step leaves alone keep what they have passed.
LEMMA OthersProbe ==
    ASSUME Types, Types', Probes, Kept, NEW q \in Users, task[q] # None,
           task'[q] = task[q], q \in attached'
    PROVE  q \in attached' /\ (task'[q].op = "Set" => q = Writer) /\ Probe(task[q])'
<1>1. PICK o \in Operations : o = task[q]
  BY HereTypes
<1>2. Probe(o)'
  BY <1>1, KeptProbe DEF Probes
<1>3. task[q].op = "Set" => q = Writer
  BY DEF Probes
<1>4. task'[q] = o
  BY <1>1
<1>5. Probe(task[q])'
  BY <1>2, <1>4 DEF Probe
<1> QED BY <1>3, <1>5

LEMMA GoesProbe ==
    ASSUME Types, Types', Probes, Kept, NEW p \in Users,
           \E t \in Operations : Goes(p, t)
    PROVE  Probes'
<1>1. PICK t \in Operations : Goes(p, t)
  OBVIOUS
<1>2. /\ task'[p] = t /\ attached' = attached /\ p \in attached /\ (t.op = "Set" => p = Writer) /\ Probe(t)'
      /\ \A q \in Users \ {p} : task'[q] = task[q]
  BY <1>1 DEF Goes, Types
<1>3. ASSUME NEW q \in Users, task'[q] # None
      PROVE  q \in attached' /\ (task'[q].op = "Set" => q = Writer) /\ Probe(task[q])'
  <2>1. CASE q = p
    BY <1>2, <2>1 DEF Probe
  <2>2. CASE q # p
    <3>1. task[q] # None /\ task'[q] = task[q] /\ q \in attached'
      BY <1>2, <1>3, <2>2 DEF Probes
    <3> QED BY <3>1, OthersProbe
  <2> QED BY <2>1, <2>2
<1> QED BY <1>3 DEF Probes

\* Steps after which each operation is as before, or over.
LEMMA EndsProbe ==
    ASSUME Types, Types', Probes, Kept,
           \A q \in Users : task'[q] # None => task'[q] = task[q] /\ (q \in attached => q \in attached')
    PROVE  Probes'
<1>1. ASSUME NEW q \in Users, task'[q] # None
      PROVE  q \in attached' /\ (task'[q].op = "Set" => q = Writer) /\ Probe(task[q])'
  <2>1. task[q] # None /\ task'[q] = task[q] /\ q \in attached'
    BY <1>1 DEF Probes
  <2> QED BY <2>1, OthersProbe
<1> QED BY <1>1 DEF Probes

LEMMA ProbesNext ==
    ASSUME Types, Types', Probes, [BukNext]_bukVars
    PROVE  Probes'
<1>1. ASSUME NEW p \in Users, p \in attached PROVE Kept
  BY <1>1, KeptUnlessUnused
<1>2. ASSUME NEW p \in Users, task[p] # None PROVE p \in attached /\ Kept
  BY <1>1, <1>2 DEF Probes
<1>3. ASSUME NEW p \in Users, NEW bZero \in BOOLEAN, Create(p, bZero) PROVE Probes'
  <2>1. task' = task /\ attached' = attached \cup {p}
    BY <1>3 DEF Create
  <2>2. CASE Kept
    BY <2>1, <2>2, EndsProbe
  <2>3. CASE attached = {}
    BY <2>1, <2>3 DEF Probes
  <2> QED BY <2>2, <2>3, KeptUnlessUnused
<1>4. ASSUME NEW p \in Users, Exit(p) PROVE Probes'
  <2>1. Kept
    BY <1>1, <1>4 DEF Exit
  <2>2. task' = [task EXCEPT ![p] = None] /\ attached' = attached \ {p}
    BY <1>4 DEF Exit
  <2>3. \A q \in Users : task'[q] # None => task'[q] = task[q] /\ (q \in attached => q \in attached')
    BY <2>2 DEF Types
  <2> QED BY <2>1, <2>3, EndsProbe
<1>5. ASSUME NEW p \in Users, Set(p) \/ Get(p) \/ NextVal(p) PROVE Probes'
  <2>1. Kept
    BY <1>1, <1>5 DEF Set, Get, NextVal, BeginCall
  <2> QED BY <1>5, <2>1, CallGoes, GoesProbe
<1>6. ASSUME NEW p \in Users, Find(p) PROVE Probes'
  <2>1. Probing(p) /\ Kept
    BY <1>2, <1>6 DEF Find, Probing
  <2>2. /\ item'[Here(task[p])].key = task[p].key /\ attached' = attached
        /\ task' = [task EXCEPT ![p] = [@ EXCEPT !.slot = Here(task[p])]]
    BY <1>6 DEF Find, SameKey, table
  <2>3. \E t \in Operations : Goes(p, t)
    BY <2>1, <2>2, FoundGoes
  <2> QED BY <2>1, <2>3, GoesProbe
<1>7. ASSUME NEW p \in Users, Claim(p) PROVE Probes'
  <2>1. Probing(p) /\ Kept
    BY <1>2, <1>7 DEF Claim, Probing
  <2>2. /\ item'[Here(task[p])].key = task[p].key /\ attached' = attached
        /\ task' = [task EXCEPT ![p] = [@ EXCEPT !.slot = Here(task[p])]]
    BY <1>7, ClaimSteps DEF Claimed
  <2>3. \E t \in Operations : Goes(p, t)
    BY <2>1, <2>2, FoundGoes
  <2> QED BY <2>1, <2>3, GoesProbe
<1>8. ASSUME NEW p \in Users, NEW ok \in BOOLEAN, NEW v \in Values \cup {0}, task[p] # None,
             EndCall(p, ok, v), attached' = attached
      PROVE  Probes'
  <2>1. task'[p] = None /\ \A q \in Users \ {p} : task'[q] = task[q]
    BY <1>8, ReturnTypes
  <2>2. Kept
    BY <1>2, <1>8
  <2> QED BY <1>8, <2>1, <2>2, EndsProbe
<1>9. ASSUME NEW p \in Users, Miss(p) PROVE Probes'
  <2>1. Probing(p) /\ Kept /\ task[p] # None /\ attached' = attached /\ item[Here(task[p])].key # task[p].key
    BY <1>2, <1>9 DEF Miss, Probing
  <2>2. CASE item[Here(task[p])].key # 0 /\ task[p].level < Len(arPrime)
    <3>1. task' = [task EXCEPT ![p].level = @ + 1]
      BY <1>9, <2>2 DEF Miss
    <3>2. \E t \in Operations : Goes(p, t)
      BY <2>1, <2>2, <3>1, MissGoes
    <3> QED BY <2>1, <3>2, GoesProbe
  <2>3. CASE ~(item[Here(task[p])].key # 0 /\ task[p].level < Len(arPrime))
    <3>1. EndCall(p, FALSE, 0)
      BY <1>9, <2>3 DEF Miss
    <3> QED BY <1>8, <2>1, <3>1
  <2> QED BY <2>2, <2>3
<1>10. ASSUME NEW p \in Users, CopyValue(p) PROVE Probes'
  <2>1. /\ task[p] # None /\ attached' = attached /\ task[p] \in Operations /\ task[p].slot \in Slots
        /\ EndCall(p, TRUE, item[task[p].slot].value) \/ EndCall(p, TRUE, task[p].value)
    BY <1>10, CopySteps
  <2>2. item[task[p].slot].value \in Values \cup {0} /\ task[p].value \in Values \cup {0}
    <3>1. item[task[p].slot] \in Items
      BY <2>1 DEF Types
    <3> QED BY <2>1, <3>1 DEF Items, Operations
  <2> QED BY <1>8, <2>1, <2>2
<1>11. ASSUME NEW p \in Users, Look(p) PROVE Probes'
  <2>1. /\ task[p] # None /\ attached' = attached
        /\ \/ EndCall(p, FALSE, 0)
           \/ task' = task
           \/ item[cur[p]].value \in Values \cup {0} /\ EndCall(p, TRUE, item[cur[p]].value)
    BY <1>11, LookSteps
  <2>2. CASE task' = task
    <3>1. Kept
      BY <1>2, <2>1
    <3> QED BY <2>1, <2>2, <3>1, EndsProbe
  <2> QED BY <1>8, <2>1, <2>2
<1>12. ASSUME NEW p \in Users, Seed(p) \/ GetRealNum(p) PROVE Probes'
  <2>1. task' = task /\ attached' = attached /\ p \in attached
    BY <1>12 DEF Seed, GetRealNum
  <2> QED BY <1>1, <2>1, EndsProbe
<1>13. ASSUME UNCHANGED bukVars PROVE Probes'
  <2>1. Kept /\ task' = task /\ attached' = attached
    BY <1>13 DEF bukVars, Kept
  <2> QED BY <2>1, EndsProbe
<1> QED BY <1>3, <1>4, <1>5, <1>6, <1>7, <1>9, <1>10, <1>11, <1>12, <1>13 DEF BukNext

LEMMA PlacedAlways == BukSpec => [](Types /\ Placed /\ Probes)
<1>1. BukStart => Types /\ Placed /\ Probes
  <2> SUFFICES ASSUME BukStart PROVE Types /\ Placed /\ Probes
    OBVIOUS
  <2>1. \A s \in Slots : item[s].key = 0
    BY DEF BukStart, Free
  <2>2. \A p \in Users : task[p] = None
    BY DEF BukStart
  <2> QED BY <2>1, <2>2, TypesBegin DEF Placed, Probes
<1>2. (Types /\ Placed /\ Probes) /\ [BukNext]_bukVars => (Types /\ Placed /\ Probes)'
  BY TypesNext, PlacedNext, ProbesNext
<1> QED BY <1>1, <1>2, PTL DEF BukSpec

-----------------------------------------------------------------------------
(***************************************************************************)
(* What lookups return.                                                    *)
(***************************************************************************)
\* A slot holds a value of its key, or cleared memory.
Valued ==
    \A s \in Slots :
        /\ item[s].key = 0 => item[s].value = 0
        /\ item[s].key # 0 => item[s].value \in hist[item[s].key] \cup {0}

Answer(r) ==
    r.op # "NextVal" =>
        /\ r.key \in Keys
        /\ r.ok => r.value \in hist[r.key] \cup {0}
        /\ ~r.ok => ~r.late
Answered == \A p \in Users : reply[p] # None => p \in attached /\ Answer(reply[p])

HistGrows == \A k \in Keys : hist[k] \subseteq hist'[k]

LEMMA ValuedCopy ==
    ASSUME Types, Placed, Probes, Valued, NEW p \in Users, CopyValue(p)
    PROVE  Valued'
<1>1. /\ SameKeys /\ task[p] # None /\ task[p] \in Operations /\ task[p].slot \in Slots
      /\ \A s \in Slots : s # task[p].slot => item'[s] = item[s]
  BY CopySteps
<1>2. Slots' = Slots /\ \A s \in Slots : item'[s].key = item[s].key
  BY <1>1, SameSlots DEF SameKeys
<1>3. \A s \in Slots : item[s].key \in Keys \cup {0}
  BY DEF Types, Items
<1>4. CASE task[p].op = "Get"
  <2>1. item' = item /\ hist' = hist
    BY <1>4, CopySteps
  <2> QED BY <1>2, <2>1 DEF Valued
<1>5. CASE task[p].op # "Get"
  <2>1. /\ item'[task[p].slot].value = task[p].value
        /\ hist' = [hist EXCEPT ![task[p].key] = @ \cup {task[p].value}]
    BY <1>5, CopySteps
  <2>2. task[p].op # "NextVal" /\ task[p].key \in Keys /\ item[task[p].slot].key = task[p].key
    <3>1. task[p].slot # None
      BY DEF CopyValue
    <3> QED BY <1>1, <3>1 DEF Probes, Probe
  <2>3. PICK x \in Slots, k \in Keys : x = task[p].slot /\ k = task[p].key
    BY <1>1, <2>2
  <2>4. hist' = [hist EXCEPT ![k] = @ \cup {task[p].value}] /\ item[x].key = k
    BY <2>1, <2>2, <2>3
  <2>5. /\ task[p].value \in hist'[k] /\ \A c \in Keys : hist[c] \subseteq hist'[c]
    BY <2>4 DEF Types
  <2>6. item'[x].value = task[p].value /\ \A s \in Slots : s # x => item'[s] = item[s]
    BY <1>1, <2>1, <2>3
  <2>7. ASSUME NEW s \in Slots
        PROVE  /\ item[s].key = 0 => item'[s].value = 0
               /\ item[s].key # 0 => item'[s].value \in hist'[item[s].key] \cup {0}
    <3>1. CASE s = x
      <4>1. k # 0
        BY BukAssumption DEF BukAssumption
      <4> QED BY <2>4, <2>5, <2>6, <3>1, <4>1
    <3>2. CASE s # x
      BY <1>3, <2>5, <2>6, <3>2 DEF Valued
    <3> QED BY <3>1, <3>2
  <2> QED BY <1>2, <2>7 DEF Valued
<1> QED BY <1>4, <1>5

LEMMA ValuedNext ==
    ASSUME Types, Placed, Probes, Valued, [BukNext]_bukVars
    PROVE  Valued'
<1>1. ASSUME arPrime' = arPrime, item' = item, hist' = hist PROVE Valued'
  BY <1>1, SameSlots DEF Valued
<1>2. ASSUME NEW p \in Users, NEW bZero \in BOOLEAN, Create(p, bZero) PROVE Valued'
  <2>1. CASE bZero
    <3>1. arPrime' = arPrime /\ item' = [s \in Slots |-> Free]
      BY <1>2, <2>1 DEF Create
    <3>2. Slots' = Slots /\ \A s \in Slots : item'[s].key = 0 /\ item'[s].value = 0
      BY <3>1, SameSlots DEF Free
    <3> QED BY <3>2 DEF Valued
  <2>2. CASE ~bZero
    BY <1>1, <1>2, <2>2 DEF Create
  <2> QED BY <2>1, <2>2
<1>3. ASSUME NEW p \in Users,
             \/ Exit(p) \/ Set(p) \/ Get(p) \/ Find(p) \/ Miss(p)
             \/ Seed(p) \/ NextVal(p) \/ Look(p) \/ GetRealNum(p)
      PROVE  Valued'
  BY <1>1, <1>3 DEF Exit, Set, Get, Find, Miss, Seed, NextVal, Look, GetRealNum, table
<1>4. ASSUME NEW p \in Users, Claim(p) PROVE Valued'
  <2>1. /\ task[p] # None /\ arPrime' = arPrime /\ item[Here(task[p])].key = 0 /\ hist' = hist
        /\ item'[Here(task[p])].key = task[p].key
        /\ item'[Here(task[p])].value = item[Here(task[p])].value
        /\ \A s \in Slots : s # Here(task[p]) => item'[s] = item[s]
    BY <1>4, ClaimSteps DEF Claimed
  <2>2. Slots' = Slots /\ Here(task[p]) \in Slots
    BY <2>1, SameSlots, HereTypes
  <2>3. item'[Here(task[p])].value = 0
    BY <2>1, <2>2 DEF Valued
  <2>4. \A s \in Slots : /\ item'[s].key = 0 => item'[s].value = 0
                         /\ item'[s].key # 0 => item'[s].value \in hist[item'[s].key] \cup {0}
    BY <2>1, <2>3 DEF Valued
  <2> QED BY <2>1, <2>2, <2>4 DEF Valued
<1>5. ASSUME UNCHANGED bukVars PROVE Valued'
  BY <1>1, <1>5 DEF bukVars
<1> QED BY <1>2, <1>3, <1>4, <1>5, ValuedCopy DEF BukNext

LEMMA HistSteps ==
    ASSUME Types, Probes, [BukNext]_bukVars
    PROVE  HistGrows \/ attached = {}
<1>1. ASSUME NEW p \in Users, NEW bZero \in BOOLEAN, Create(p, bZero)
      PROVE  HistGrows \/ attached = {}
  BY <1>1 DEF Create, HistGrows
<1>2. ASSUME NEW p \in Users, CopyValue(p) PROVE HistGrows
  <2>1. \/ hist' = hist
        \/ hist' = [hist EXCEPT ![task[p].key] = @ \cup {task[p].value}]
    BY <1>2, CopySteps
  <2> QED BY <2>1 DEF HistGrows, Types
<1>3. ASSUME NEW p \in Users,
             \/ Exit(p) \/ Set(p) \/ Get(p) \/ Find(p) \/ Claim(p) \/ Miss(p)
             \/ Seed(p) \/ NextVal(p) \/ Look(p) \/ GetRealNum(p)
      PROVE  HistGrows
  BY <1>3 DEF Exit, Set, Get, Find, Claim, Miss, Seed, NextVal, Look, GetRealNum, table, HistGrows
<1>4. UNCHANGED bukVars => HistGrows
  BY DEF bukVars, HistGrows
<1> QED BY <1>1, <1>2, <1>3, <1>4 DEF BukNext

\* Results of before stay true, or are gone.
LEMMA OldAnswers ==
    ASSUME Types, Answered, HistGrows,
           \A q \in Users : reply'[q] # None => reply'[q] = reply[q] /\ (q \in attached => q \in attached')
    PROVE  Answered'
<1>1. ASSUME NEW q \in Users, reply'[q] # None PROVE q \in attached' /\ Answer(reply[q])'
  <2>1. reply'[q] = reply[q] /\ q \in attached' /\ Answer(reply[q])
    BY <1>1 DEF Answered
  <2> QED BY <2>1 DEF Answer, HistGrows
<1> QED BY <1>1 DEF Answered

LEMMA NewAnswer ==
    ASSUME Types, Answered, HistGrows, NEW p \in Users, NEW ok \in BOOLEAN, NEW v \in Values \cup {0},
           task[p] # None, p \in attached, attached' = attached, EndCall(p, ok, v),
           task[p].op # "NextVal" => /\ task[p].key \in Keys
                                     /\ ok => v \in hist'[task[p].key] \cup {0}
                                     /\ ~ok => ~task[p].late
    PROVE  Answered'
<1>1. /\ \A q \in Users \ {p} : reply'[q] = reply[q]
      /\ reply'[p].op = task[p].op /\ reply'[p].key = task[p].key /\ (reply'[p].ok <=> ok)
      /\ reply'[p].value = v /\ (reply'[p].late <=> task[p].late)
  BY ReturnTypes
<1>2. ASSUME NEW q \in Users, reply'[q] # None PROVE q \in attached' /\ Answer(reply[q])'
  <2>1. CASE q = p
    BY <1>1, <2>1 DEF Answer
  <2>2. CASE q # p
    <3>1. reply'[q] = reply[q] /\ q \in attached' /\ Answer(reply[q])
      BY <1>1, <1>2, <2>2 DEF Answered
    <3> QED BY <3>1 DEF Answer, HistGrows
  <2> QED BY <2>1, <2>2
<1> QED BY <1>2 DEF Answered

\* A lookup that gives up would have met its key, had it been stored.
LEMMA MissIsRight ==
    ASSUME Types, Placed, Probes, NEW p \in Users, Probing(p),
           item[Here(task[p])].key # task[p].key,
           item[Here(task[p])].key = 0 \/ ~(task[p].level < Len(arPrime))
    PROVE  task[p].key \in Keys /\ ~task[p].late
<1>1. task[p] # None /\ task[p].slot = None /\ task[p].op # "NextVal"
  BY DEF Probing
<1>2. PICK t \in Operations : t = task[p]
  BY <1>1, HereTypes
<1>3. t.key \in Keys /\ t.level \in Levels /\ Passed(t.key, t.level) /\ (t.late => t.key \in Stored)
  BY <1>1, <1>2 DEF Probes, Probe, Operations
<1>4. SUFFICES ASSUME t.key \in Stored PROVE FALSE
  BY <1>2, <1>3
<1>5. PICK s \in Slots : item[s].key = t.key
  BY <1>4, StoredTypes
<1>6. s[1] \in Levels /\ s[1] > t.level /\ item[Here(t)].key # 0
  BY <1>2, <1>3, <1>5, LiesBehind DEF Here
<1>7. t.level < Len(arPrime)
  BY <1>3, <1>6, ShapeTypes DEF Types, Levels
<1> QED BY <1>2, <1>6, <1>7

LEMMA AnsweredNext ==
    ASSUME Types, Placed, Probes, Valued, Answered, [BukNext]_bukVars
    PROVE  Answered'
<1>1. ASSUME NEW p \in Users, p \in attached PROVE HistGrows
  BY <1>1, HistSteps
<1>2. ASSUME NEW p \in Users, task[p] # None PROVE p \in attached /\ HistGrows
  BY <1>1, <1>2 DEF Probes
<1>3. ASSUME NEW p \in Users, NEW bZero \in BOOLEAN, Create(p, bZero) PROVE Answered'
  <2>1. reply' = reply /\ attached' = attached \cup {p}
    BY <1>3 DEF Create
  <2>2. CASE HistGrows
    BY <2>1, <2>2, OldAnswers
  <2>3. CASE attached = {}
    BY <2>1, <2>3 DEF Answered
  <2> QED BY <2>2, <2>3, HistSteps
<1>4. ASSUME NEW p \in Users, Exit(p) PROVE Answered'
  <2>1. HistGrows
    BY <1>1, <1>4 DEF Exit
  <2>2. reply' = [reply EXCEPT ![p] = None] /\ attached' = attached \ {p}
    BY <1>4 DEF Exit
  <2>3. \A q \in Users : reply'[q] # None => reply'[q] = reply[q] /\ (q \in attached => q \in attached')
    BY <2>2 DEF Types
  <2> QED BY <2>1, <2>3, OldAnswers
<1>5. ASSUME NEW p \in Users, Set(p) \/ Get(p) \/ NextVal(p) PROVE Answered'
  <2>1. attached' = attached /\ p \in attached /\ reply' = [reply EXCEPT ![p] = None]
    BY <1>5 DEF Set, Get, NextVal, BeginCall
  <2>2. \A q \in Users : reply'[q] # None => reply'[q] = reply[q]
    BY <2>1 DEF Types
  <2> QED BY <1>1, <2>1, <2>2, OldAnswers
<1>6. ASSUME NEW p \in Users, reply' = reply, attached' = attached, p \in attached PROVE Answered'
  BY <1>1, <1>6, OldAnswers
<1>7. ASSUME NEW p \in Users, Find(p) \/ Claim(p) PROVE Answered'
  <2>1. reply' = reply /\ attached' = attached /\ task[p] # None
    BY <1>7 DEF Find, Claim, Probing
  <2> QED BY <1>2, <1>6, <2>1
<1>8. ASSUME NEW p \in Users, Seed(p) \/ GetRealNum(p) PROVE Answered'
  BY <1>6, <1>8 DEF Seed, GetRealNum
<1>9. ASSUME NEW p \in Users, Miss(p) PROVE Answered'
  <2>1. Probing(p) /\ task[p] # None /\ attached' = attached /\ item[Here(task[p])].key # task[p].key
    BY <1>9 DEF Miss, Probing
  <2>2. CASE item[Here(task[p])].key # 0 /\ task[p].level < Len(arPrime)
    <3>1. reply' = reply
      BY <1>9, <2>2 DEF Miss
    <3> QED BY <1>2, <1>6, <2>1, <3>1
  <2>3. CASE ~(item[Here(task[p])].key # 0 /\ task[p].level < Len(arPrime))
    <3>1. EndCall(p, FALSE, 0)
      BY <1>9, <2>3 DEF Miss
    <3>2. task[p].key \in Keys /\ ~task[p].late
      BY <2>1, <2>3, MissIsRight
    <3> QED BY <1>2, <2>1, <3>1, <3>2, NewAnswer
  <2> QED BY <2>2, <2>3
<1>10. ASSUME NEW p \in Users, CopyValue(p) PROVE Answered'
  <2>1. task[p] # None /\ attached' = attached /\ task[p] \in Operations /\ task[p].slot \in Slots
    BY <1>10, CopySteps
  <2>2. task[p].key \in Keys /\ item[task[p].slot].key = task[p].key
    <3>1. task[p].slot # None
      BY <1>10 DEF CopyValue
    <3> QED BY <2>1, <3>1 DEF Probes, Probe
  <2>3. item[task[p].slot].value \in Values \cup {0} /\ task[p].value \in Values \cup {0}
    <3>1. item[task[p].slot] \in Items
      BY <2>1 DEF Types
    <3> QED BY <2>1, <3>1 DEF Items, Operations
  <2>4. CASE task[p].op = "Get"
    <3>1. hist' = hist /\ EndCall(p, TRUE, item[task[p].slot].value)
      BY <1>10, <2>4, CopySteps
    <3>2. item[task[p].slot].value \in hist'[task[p].key] \cup {0}
      <4>1. task[p].key # 0
        BY <2>2, BukAssumption DEF BukAssumption
      <4> QED BY <2>1, <2>2, <3>1, <4>1 DEF Valued
    <3> QED BY <1>2, <2>1, <2>2, <2>3, <3>1, <3>2, NewAnswer
  <2>5. CASE task[p].op # "Get"
    <3>1. /\ hist' = [hist EXCEPT ![task[p].key] = @ \cup {task[p].value}]
          /\ EndCall(p, TRUE, task[p].value)
      BY <1>10, <2>5, CopySteps
    <3>2. task[p].value \in hist'[task[p].key]
      BY <2>2, <3>1 DEF Types
    <3> QED BY <1>2, <2>1, <2>2, <2>3, <3>1, <3>2, NewAnswer
  <2> QED BY <2>4, <2>5
<1>11. ASSUME NEW p \in Users, Look(p) PROVE Answered'
  <2>1. /\ task[p] # None /\ task[p].op = "NextVal" /\ attached' = attached
        /\ \/ EndCall(p, FALSE, 0)
           \/ reply' = reply
           \/ item[cur[p]].value \in Values \cup {0} /\ EndCall(p, TRUE, item[cur[p]].value)
    BY <1>11, LookSteps
  <2>2. CASE reply' = reply
    BY <1>2, <1>6, <2>1, <2>2
  <2>3. ASSUME NEW ok \in BOOLEAN, NEW v \in Values \cup {0}, EndCall(p, ok, v) PROVE Answered'
    BY <1>2, <2>1, <2>3, NewAnswer
  <2> QED BY <2>1, <2>2, <2>3
<1>12. ASSUME UNCHANGED bukVars PROVE Answered'
  <2>1. HistGrows /\ reply' = reply /\ attached' = attached
    BY <1>12 DEF bukVars, HistGrows
  <2> QED BY <2>1, OldAnswers
<1> QED BY <1>3, <1>4, <1>5, <1>7, <1>8, <1>9, <1>10, <1>11, <1>12 DEF BukNext

\* A lookup answers with a value its key was given, or with memory no value
\* has been copied into yet, and misses no key that was stored when it began:
\* for any sizes of the table, while the writer stores more, ends in the
\* middle of an operation and comes back (BukHash.h:84-166).
THEOREM LookupsAgree == BukSpec => []LookupAgrees
<1>1. BukStart => Valued /\ Answered
  <2> SUFFICES ASSUME BukStart PROVE Valued /\ Answered
    OBVIOUS
  <2>1. \A s \in Slots : item[s].key = 0 /\ item[s].value = 0
    BY DEF BukStart, Free
  <2>2. \A p \in Users : reply[p] = None
    BY DEF BukStart
  <2> QED BY <2>1, <2>2 DEF Valued, Answered
<1>2. Types /\ Placed /\ Probes /\ (Valued /\ Answered) /\ [BukNext]_bukVars => (Valued /\ Answered)'
  BY ValuedNext, AnsweredNext
<1>3. Answered => LookupAgrees
  BY DEF Answered, Answer, LookupAgrees
<1> QED BY <1>1, <1>2, <1>3, PlacedAlways, PTL DEF BukSpec

-----------------------------------------------------------------------------
(***************************************************************************)
(* What the writer counts.                                                 *)
(***************************************************************************)
Keyed == {s \in Slots : item[s].key # 0}
Counted == true /\ Writer \in attached => num[Writer] = Cardinality(Stored)

\* There are as many keys as slots that hold one.
LEMMA StoredCount ==
    ASSUME Types, Placed
    PROVE  IsFiniteSet(Stored) /\ Cardinality(Stored) = Cardinality(Keyed)
<1> DEFINE f == [s \in Keyed |-> item[s].key]
<1>1. IsFiniteSet(Keyed)
  BY FiniteSlots, FS_Subset DEF Types, Keyed
<1>2. \A s \in Keyed : s \in Slots /\ item[s].key \in Stored
  BY DEF Keyed, Stored
<1>3. f \in [Keyed -> Stored]
  BY <1>2
<1>4. \A s, t \in Keyed : f[s] = f[t] => s = t
  <2>1. TAKE s, t \in Keyed
  <2>2. f[s] = item[s].key /\ f[t] = item[t].key /\ item[s].key # 0
    BY DEF Keyed
  <2> HIDE DEF f
  <2> QED BY <1>2, <2>2, OneSlot
<1>5. \A k \in Stored : \E s \in Keyed : f[s] = k
  BY StoredTypes DEF Keyed
<1>6. f \in Bijection(Keyed, Stored)
  <2> HIDE DEF f
  <2>1. f \in Injection(Keyed, Stored)
    BY <1>3, <1>4 DEF Injection, IsInjective
  <2>2. f \in Surjection(Keyed, Stored)
    BY <1>3, <1>5 DEF Surjection
  <2> QED BY <2>1, <2>2 DEF Bijection
<1>7. ExistsBijection(Keyed, Stored)
  BY <1>6 DEF ExistsBijection
<1> QED BY <1>1, <1>7, FS_Bijection

LEMMA SameStored ==
    ASSUME SameKeys
    PROVE  Stored' = Stored
<1>1. Slots' = Slots
  BY SameSlots DEF SameKeys
<1> QED BY <1>1 DEF SameKeys, Stored

\* The writer claims a slot for a key that lay nowhere.
LEMMA ClaimCounts ==
    ASSUME Types, Types', Placed, Probes, Counted, NEW p \in Users, Claim(p)
    PROVE  Counted'
<1>1. /\ Claimed(p) /\ num' = [num EXCEPT ![p] = @ + 1] /\ attached' = attached /\ true' = true
      /\ task[p] # None
  BY ClaimSteps DEF Claimed
<1>2. PICK t \in Operations : t = task[p]
  BY <1>1, HereTypes
<1>3. /\ p = Writer /\ p \in attached /\ t.key \in Keys /\ t.level \in Levels /\ Passed(t.key, t.level)
  BY <1>1, <1>2 DEF Claimed, Probes, Probe, Operations
<1>4. t.key # 0 /\ Here(t) \in Slots
  BY <1>1, <1>2, <1>3, HereTypes, BukAssumption DEF BukAssumption
<1>5. t.key \notin Stored
  <2>1. SUFFICES ASSUME t.key \in Stored PROVE FALSE
    OBVIOUS
  <2>2. PICK s \in Slots : item[s].key = t.key
    BY <2>1, StoredTypes
  <2>3. item[Slot(t.key, t.level)].key = 0
    BY <1>1, <1>2 DEF Claimed, Here
  <2> QED BY <1>3, <1>4, <2>2, <2>3, LiesBehind
<1>6. Stored' = Stored \cup {t.key}
  <2>1. Slots' = Slots
    BY <1>1, SameSlots DEF Claimed
  <2>2. /\ item'[Here(t)].key = t.key /\ item[Here(t)].key = 0
        /\ \A s \in Slots : s # Here(t) => item'[s].key = item[s].key
    BY <1>1, <1>2 DEF Claimed
  <2>3. \A k : k \in Stored' <=> k # 0 /\ \E s \in Slots : item'[s].key = k
    BY <2>1 DEF Stored
  <2>4. \A k : k \in Stored <=> k # 0 /\ \E s \in Slots : item[s].key = k
    BY DEF Stored
  <2> QED BY <1>4, <2>2, <2>3, <2>4
<1>7. Cardinality(Stored') = Cardinality(Stored) + 1
  BY <1>5, <1>6, StoredCount, FS_AddElement
<1>8. num'[Writer] = num[Writer] + 1
  BY <1>1, <1>3 DEF Types
<1> QED BY <1>1, <1>3, <1>7, <1>8 DEF Counted

LEMMA CountedNext ==
    ASSUME Types, Types', Placed, Placed', Probes, Counted, [BukNext]_bukVars
    PROVE  Counted'
<1>1. ASSUME SameKeys, num' = num, true' = true, attached' \subseteq attached PROVE Counted'
  BY <1>1, SameStored DEF Counted
<1>2. ASSUME NEW p \in Users, NEW bZero \in BOOLEAN, Create(p, bZero) PROVE Counted'
  <2>1. /\ arPrime' = arPrime /\ num' = [num EXCEPT ![p] = 0] /\ attached' = attached \cup {p}
        /\ bZero => attached = {}
        /\ true' = IF p = Writer THEN Stored' = {} ELSE true
        /\ ~bZero => item' = item
    BY <1>2 DEF Create
  <2>2. CASE p = Writer
    <3>1. num'[Writer] = 0 /\ (true' => Stored' = {})
      BY <2>1, <2>2 DEF Types
    <3> QED BY <3>1, FS_EmptySet DEF Counted
  <2>3. CASE p # Writer /\ bZero
    BY <2>1, <2>3 DEF Counted
  <2>4. CASE p # Writer /\ ~bZero
    <3>1. SameKeys /\ num'[Writer] = num[Writer] /\ true' = true /\ (Writer \in attached' => Writer \in attached)
      BY <2>1, <2>4, BukAssumption DEF SameKeys, Types, BukAssumption
    <3> QED BY <3>1, SameStored DEF Counted
  <2> QED BY <2>2, <2>3, <2>4
<1>3. ASSUME NEW p \in Users,
             \/ Exit(p) \/ Set(p) \/ Get(p) \/ Find(p) \/ Miss(p)
             \/ Seed(p) \/ NextVal(p) \/ Look(p)
      PROVE  Counted'
  <2>1. arPrime' = arPrime /\ item' = item /\ num' = num /\ true' = true /\ attached' \subseteq attached
    BY <1>3 DEF Exit, Set, Get, Find, Miss, Seed, NextVal, Look, table
  <2> QED BY <1>1, <2>1 DEF SameKeys
<1>4. ASSUME NEW p \in Users, CopyValue(p) PROVE Counted'
  BY <1>1, <1>4, CopySteps
<1>5. ASSUME NEW p \in Users, GetRealNum(p) PROVE Counted'
  <2>1. /\ p = Writer /\ num' = [num EXCEPT ![p] = Cardinality(Keyed)]
        /\ arPrime' = arPrime /\ item' = item
    BY <1>5 DEF GetRealNum, Keyed, table
  <2>2. num'[Writer] = Cardinality(Stored)
    BY <2>1, StoredCount DEF Types
  <2>3. Stored' = Stored
    BY <2>1, SameStored DEF SameKeys
  <2> QED BY <2>2, <2>3 DEF Counted
<1>6. ASSUME UNCHANGED bukVars PROVE Counted'
  BY <1>1, <1>6 DEF bukVars, SameKeys
<1> QED BY <1>2, <1>3, <1>4, <1>5, <1>6, ClaimCounts DEF BukNext

\* Every key lies in one slot, with no free slot before it on its way, and
\* the writer's m_uiNum, once right, stays the number of keys: for any sizes
\* of the table, whatever the others do (BukHash.h:96-101, 156-162).
THEOREM AlwaysWellPlaced == BukSpec => []WellPlaced
<1>1. BukStart => Counted
  BY DEF BukStart, Counted
<1>2. Types /\ Types' /\ Placed /\ Placed' /\ Probes /\ Counted /\ [BukNext]_bukVars => Counted'
  BY CountedNext
<1>3. Types /\ Placed /\ Counted => WellPlaced
  <2> SUFFICES ASSUME Types, Placed, Counted PROVE WellPlaced
    OBVIOUS
  <2>1. ASSUME NEW k \in Stored
        PROVE  \E i \in Levels :
                  /\ item[Slot(k, i)].key = k
                  /\ \A j \in 1 .. i - 1 : item[Slot(k, j)].key \notin {0, k}
                  /\ \A s \in Slots \ {Slot(k, i)} : item[s].key # k
    <3>1. PICK s \in Slots : item[s].key = k /\ k # 0
      BY StoredTypes
    <3>2. s[1] \in Levels /\ s = Slot(k, s[1]) /\ Passed(k, s[1])
      BY <3>1, SlotPairs DEF Placed
    <3>3. \A t \in Slots \ {s} : item[t].key # k
      BY <3>1, OneSlot
    <3> QED BY <3>1, <3>2, <3>3 DEF Passed
  <2> QED BY <2>1 DEF WellPlaced, Counted
<1> QED BY <1>1, <1>2, <1>3, PlacedAlways, PTL DEF BukSpec

-----------------------------------------------------------------------------
(***************************************************************************)
(* What a walk meets.                                                      *)
(***************************************************************************)
\* A walk counts the keys it has met; they lie before its cursor, and those
\* it still owes do not.
Walking(w, c) ==
    /\ IsFiniteSet(w.met) /\ w.n = Cardinality(w.met)
    /\ \A k \in w.met : \E s \in Slots : Before(s, c) /\ item[s].key = k
    /\ \A k \in w.due \ w.met : \E s \in Slots : ~Before(s, c) /\ item[s].key = k
Walked ==
    \A p \in Users : walk[p] # None => p # Writer /\ p \in attached /\ Walking(walk[p], cur[p])

LEMMA KeptWalking ==
    ASSUME Types, Kept, NEW w \in Walks, NEW c, Walking(w, c)
    PROVE  Walking(w, c)'
<1>1. Slots' = Slots
  BY SameSlots DEF Kept
<1>2. \A k \in w.met \cup w.due : k # 0
  BY BukAssumption DEF Walks, BukAssumption
<1>3. \A k \in w.met : \E s \in Slots : Before(s, c) /\ item'[s].key = k
  BY <1>2 DEF Walking, Kept
<1>4. \A k \in w.due \ w.met : \E s \in Slots : ~Before(s, c) /\ item'[s].key = k
  BY <1>2 DEF Walking, Kept
<1> QED BY <1>1, <1>3, <1>4 DEF Walking, Before

LEMMA SeedWalking ==
    ASSUME Types, NEW w \in Walks, w.due = Stored, w.met = {}, w.n = 0
    PROVE  Walking(w, First)
<1>1. \A k \in Stored : \E s \in Slots : ~Before(s, First) /\ item[s].key = k
  BY StoredTypes, FirstSlot DEF Types
<1> QED BY <1>1, FS_EmptySet DEF Walking

\* The cursor passes a free slot.
LEMMA FreeWalking ==
    ASSUME Types, NEW w \in Walks, NEW c \in Slots, Walking(w, c), item[c].key = 0
    PROVE  Walking(w, Following(c))
<1>1. \A t \in Slots : Before(t, Following(c)) <=> t = c \/ Before(t, c)
  BY NextSlot DEF Types
<1>2. \A k \in w.due : k # 0
  BY BukAssumption DEF Walks, BukAssumption
<1> QED BY <1>1, <1>2 DEF Walking

\* The cursor passes a key, which the walk has not met before.
LEMMA MetWalking ==
    ASSUME Types, Placed, NEW w \in Walks, NEW c \in Slots, Walking(w, c),
           item[c].key \in Keys
    PROVE  Walking(Met(w, item[c].key), Following(c))
<1> DEFINE k == item[c].key
           v == Met(w, k)
<1>1. \A t \in Slots : Before(t, Following(c)) <=> t = c \/ Before(t, c)
  BY NextSlot DEF Types
<1>2. v.met = w.met \cup {k} /\ v.n = w.n + 1 /\ v.due = w.due
  BY MetType
<1>3. k \notin w.met
  <2>1. SUFFICES ASSUME k \in w.met PROVE FALSE
    OBVIOUS
  <2>2. PICK s \in Slots : Before(s, c) /\ item[s].key = k
    BY <2>1 DEF Walking
  <2>3. s = c
    BY <2>2, OneSlot, BukAssumption DEF BukAssumption
  <2>4. c[1] \in Nat /\ c[2] \in Nat
    BY SlotPairs, ShapeTypes DEF Types
  <2> QED BY <2>2, <2>3, <2>4 DEF Before
<1> HIDE DEF v
<1>4. IsFiniteSet(v.met) /\ v.n = Cardinality(v.met)
  <2>1. IsFiniteSet(w.met) /\ w.n = Cardinality(w.met)
    BY DEF Walking
  <2> HIDE DEF k
  <2>2. IsFiniteSet(w.met \cup {k}) /\ Cardinality(w.met \cup {k}) = Cardinality(w.met) + 1
    BY <1>3, <2>1, FS_AddElement
  <2> QED BY <1>2, <2>1, <2>2
<1>5. \A x \in v.met : \E s \in Slots : Before(s, Following(c)) /\ item[s].key = x
  BY <1>1, <1>2 DEF Walking
<1>6. \A x \in v.due \ v.met : \E s \in Slots : ~Before(s, Following(c)) /\ item[s].key = x
  BY <1>1, <1>2 DEF Walking
<1> QED BY <1>4, <1>5, <1>6 DEF Walking, v

LEMMA OldWalks ==
    ASSUME Types, Walked, NEW q \in Users, walk[q] # None, Kept,
           walk'[q] = walk[q], cur'[q] = cur[q], q \in attached'
    PROVE  q # Writer /\ q \in attached' /\ Walking(walk[q], cur[q])'
<1>1. PICK w \in Walks, c \in Slots \cup {Behind} : w = walk[q] /\ c = cur[q]
  BY DEF Types
<1>2. Walking(w, c)' /\ q # Writer
  BY <1>1, KeptWalking DEF Walked
<1>3. walk'[q] = w /\ cur'[q] = c
  BY <1>1
<1> QED BY <1>2, <1>3 DEF Walking

\* Steps of one process after which all other walks are as they were.
LEMMA NewWalk ==
    ASSUME Types, Walked, Kept, NEW p \in Users, attached' = attached,
           \A q \in Users \ {p} : walk'[q] = walk[q] /\ cur'[q] = cur[q],
           p # Writer, p \in attached, Walking(walk[p], cur[p])'
    PROVE  Walked'
<1>1. ASSUME NEW q \in Users, walk'[q] # None
      PROVE  q # Writer /\ q \in attached' /\ Walking(walk[q], cur[q])'
  <2>1. CASE q = p
    BY <2>1 DEF Walking
  <2>2. CASE q # p
    <3>1. walk[q] # None /\ walk'[q] = walk[q] /\ cur'[q] = cur[q] /\ q \in attached'
      BY <1>1, <2>2 DEF Walked
    <3> QED BY <3>1, OldWalks
  <2> QED BY <2>1, <2>2
<1> QED BY <1>1 DEF Walked

LEMMA SameWalks ==
    ASSUME Types, Walked, Kept,
           \A q \in Users : walk'[q] # None =>
               walk'[q] = walk[q] /\ (q \in attached => cur'[q] = cur[q] /\ (q # Writer => q \in attached'))
    PROVE  Walked'
<1>1. ASSUME NEW q \in Users, walk'[q] # None
      PROVE  q # Writer /\ q \in attached' /\ Walking(walk[q], cur[q])'
  <2>1. walk[q] # None /\ walk'[q] = walk[q] /\ cur'[q] = cur[q] /\ q \in attached'
    BY <1>1 DEF Walked
  <2> QED BY <2>1, OldWalks
<1> QED BY <1>1 DEF Walked

LEMMA LookWalks ==
    ASSUME Types, Placed, Probes, Walked, NEW p \in Users, Look(p)
    PROVE  Walked'
<1>1. /\ walk[p] # None /\ UNCHANGED <<table, attached>>
  BY LookSteps
<1>2. Kept /\ attached' = attached /\ item' = item /\ Slots' = Slots
  BY <1>1, SameSlots DEF table, Kept
<1>3. PICK w \in Walks, c \in Slots \cup {Behind} : w = walk[p] /\ c = cur[p]
  BY <1>1 DEF Types
<1>4. p # Writer /\ p \in attached /\ Walking(w, c)
  BY <1>1, <1>3 DEF Walked
<1>5. CASE UNCHANGED <<cur, walk>>
  BY <1>2, <1>5, SameWalks
<1>6. ASSUME NEW v, NEW d, cur' = [cur EXCEPT ![p] = d], walk' = [walk EXCEPT ![p] = v], Walking(v, d)
      PROVE  Walked'
  <2>1. walk'[p] = v /\ cur'[p] = d
        /\ \A q \in Users \ {p} : walk'[q] = walk[q] /\ cur'[q] = cur[q]
    BY <1>6 DEF Types
  <2>2. Walking(walk[p], cur[p])'
    BY <1>2, <1>6, <2>1 DEF Walking, Before
  <2> QED BY <1>2, <1>4, <2>1, <2>2, NewWalk
<1>7. CASE c \in Slots /\ cur' = [cur EXCEPT ![p] = Following(c)] /\ item[c].key = 0 /\ walk' = walk
  <2>1. Walking(w, Following(c))
    BY <1>4, <1>7, FreeWalking
  <2>2. walk' = [walk EXCEPT ![p] = w]
    BY <1>3, <1>7 DEF Types
  <2> QED BY <1>6, <1>7, <2>1, <2>2
<1>8. CASE /\ c \in Slots /\ cur' = [cur EXCEPT ![p] = Following(c)]
           /\ item[c].key \in Keys /\ walk' = [walk EXCEPT ![p] = Met(w, item[c].key)]
  <2>1. Walking(Met(w, item[c].key), Following(c))
    BY <1>4, <1>8, MetWalking
  <2> QED BY <1>6, <1>8, <2>1
<1> QED BY <1>3, <1>5, <1>7, <1>8, LookSteps

LEMMA WalkedNext ==
    ASSUME Types, Placed, Probes, Walked, [BukNext]_bukVars
    PROVE  Walked'
<1>1. ASSUME attached # {} PROVE Kept
  BY <1>1, KeptUnlessUnused
<1>2. ASSUME walk' = walk, cur' = cur, attached' = attached PROVE Walked'
  <2>1. CASE Kept
    BY <1>2, <2>1, SameWalks
  <2>2. CASE attached = {}
    BY <1>2, <2>2 DEF Walked
  <2> QED BY <1>1, <2>1, <2>2
<1>3. ASSUME NEW p \in Users, NEW bZero \in BOOLEAN, Create(p, bZero) PROVE Walked'
  <2>1. p \notin attached /\ walk' = walk /\ attached' = attached \cup {p} /\ cur' = [cur EXCEPT ![p] = First]
    BY <1>3 DEF Create
  <2>2. \A q \in Users : q \in attached => cur'[q] = cur[q] /\ q \in attached'
    BY <2>1 DEF Types
  <2>3. CASE Kept
    BY <2>1, <2>2, <2>3, SameWalks
  <2>4. CASE attached = {}
    BY <2>1, <2>4 DEF Walked
  <2> QED BY <1>1, <2>3, <2>4
<1>4. ASSUME NEW p \in Users, Exit(p) PROVE Walked'
  <2>1. /\ p = Writer /\ p \in attached /\ attached' = attached \ {p} /\ cur' = cur
        /\ walk' = [walk EXCEPT ![p] = None]
    BY <1>4 DEF Exit
  <2>2. \A q \in Users : walk'[q] # None => walk'[q] = walk[q] /\ (q # Writer /\ q \in attached => q \in attached')
    BY <2>1 DEF Types
  <2>3. Kept
    BY <1>1, <2>1
  <2> QED BY <2>1, <2>2, <2>3, SameWalks
<1>5. ASSUME NEW p \in Users, Set(p) \/ Get(p) \/ Find(p) \/ Miss(p) \/ NextVal(p) \/ GetRealNum(p)
      PROVE  Walked'
  BY <1>2, <1>5 DEF Set, Get, Find, Miss, NextVal, GetRealNum
<1>6. ASSUME NEW p \in Users, Claim(p) \/ CopyValue(p) PROVE Walked'
  BY <1>2, <1>6, ClaimSteps, CopySteps
<1>7. ASSUME NEW p \in Users, Seed(p) PROVE Walked'
  <2> DEFINE w == [due |-> Stored, met |-> {}, n |-> 0]
  <2>1. /\ p # Writer /\ p \in attached /\ attached' = attached /\ arPrime' = arPrime /\ item' = item
        /\ cur' = [cur EXCEPT ![p] = First] /\ walk' = [walk EXCEPT ![p] = w]
    BY <1>7 DEF Seed, table
  <2>2. w \in Walks /\ w.due = Stored /\ w.met = {} /\ w.n = 0
    BY StoredTypes DEF Walks
  <2> HIDE DEF w
  <2>3. Walking(w, First)
    BY <2>2, SeedWalking
  <2>4. walk'[p] = w /\ cur'[p] = First
        /\ \A q \in Users \ {p} : walk'[q] = walk[q] /\ cur'[q] = cur[q]
    BY <2>1 DEF Types
  <2>5. Walking(walk[p], cur[p])'
    BY <2>1, <2>3, <2>4, SameSlots DEF Walking, Before
  <2>6. Kept
    BY <1>1, <2>1
  <2> QED BY <2>1, <2>4, <2>5, <2>6, NewWalk
<1>8. ASSUME UNCHANGED bukVars PROVE Walked'
  BY <1>2, <1>8 DEF bukVars
<1> QED BY <1>3, <1>4, <1>5, <1>6, <1>7, <1>8, LookWalks DEF BukNext

\* A walk meets every key that was stored when it began before it leaves the
\* table, and none twice: for any sizes of the table, whatever the writer
\* stores meanwhile (BukHash.h:212-226).
THEOREM WalksComplete == BukSpec => []WalkComplete
<1>1. BukStart => Walked
  BY DEF BukStart, Walked
<1>2. Types /\ Placed /\ Probes /\ Walked /\ [BukNext]_bukVars => Walked'
  BY WalkedNext
<1>3. Types /\ Walked => WalkComplete
  <2> SUFFICES ASSUME Types, Walked, NEW p \in Users, walk[p] # None
               PROVE  /\ walk[p].n = Cardinality(walk[p].met)
                      /\ cur[p] \notin Slots => walk[p].due \subseteq walk[p].met
    BY DEF WalkComplete
  <2>1. Walking(walk[p], cur[p])
    BY DEF Walked
  <2>2. cur[p] \notin Slots => \A s \in Slots : Before(s, cur[p])
    BY AllBeforeBehind DEF Types
  <2> QED BY <2>1, <2>2 DEF Walking
<1> QED BY <1>1, <1>2, <1>3, PlacedAlways, PTL DEF BukSpec
=============================================================================
