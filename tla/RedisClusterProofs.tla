------------------------- MODULE RedisClusterProofs -------------------------
(***************************************************************************)
(* What the cluster proxy promises, for any number of threads, nodes,      *)
(* keys and rows, and any bounds.                                          *)
(*                                                                         *)
(* The inductive invariant has four layers: the shape of a call at each    *)
(* step; what a ClusterPoolGet knows of its key while the slot has not     *)
(* moved; which rows a column still has before it; and what a ProxyPut     *)
(* has stored of the keys nobody else puts.                                *)
(***************************************************************************)
EXTENDS RedisCluster, FiniteSetTheorems, SequenceTheorems, TLAPS

-----------------------------------------------------------------------------
(***************************************************************************)
(* The shape of a call.                                                    *)
(***************************************************************************)

CallShape(c) ==
    /\ c.op = "ProxyGet" => c.pc # "next"
    /\ c.op = "ProxyPut" => c.pc \in {"next", "done"}
    /\ c.op = "search" => c.pc = "done"
    /\ c.op # "ProxyPut" => c.todo = <<>> /\ c.args = <<>> /\ c.sure = {}
    /\ c.op # "ProxyGetColumn" => c.due = {}
    /\ c.sure \subseteq KeysOf(c.args)
    /\ c.pc \in Asking => c.key \in Keys /\ (c.op = "ProxyGetColumn" => c.i < c.num)
    /\ c.pc = "find" => c.text.type = "moved"
    /\ c.pc \in {"insert", "second"} => c.pool \in Servers
    /\ c.num \in GetNums \cup {0}
    /\ c.i <= c.num /\ Len(c.ret) <= c.i
    /\ c.op = "ProxyGetColumn" /\ c.pc = "done" => c.i = c.num

Shaped == \A t \in Threads : th[t] # Nil => CallShape(th[t])
ShapeInv == TypeOK /\ Shaped

LEMMA TextTypes ==
    /\ None \in Stored /\ Stored \subseteq Texts
    /\ \A s \in Servers : Text("moved", s) \in Texts
    /\ \A x \in Texts : x.type = "moved" => x.of \in Servers
    /\ \A x \in Texts : x.type = "entry" => x.of \in Keys
    /\ \A x \in Stored : x.type # "moved" /\ x.type # "error"
    /\ Error \in Texts /\ Error.type = "error"
<1>1. /\ None \in Stored /\ Stored \subseteq Texts
      /\ \A s \in Servers : Text("moved", s) \in Texts
      /\ Error \in Texts
  BY DEF Stored, Texts
<1>2. \A type, of : Text(type, of).type = type /\ Text(type, of).of = of
  BY DEF Text
<1>3. ASSUME NEW x \in Stored PROVE x.type # "moved" /\ x.type # "error" /\ (x.type = "entry" => x.of \in Keys)
  <2>1. CASE x = None  BY <2>1, <1>2 DEF None
  <2>2. CASE \E d \in Data : x = Text("data", d)  BY <2>2, <1>2
  <2>3. CASE \E k \in Keys : x = Text("entry", k)  BY <2>3, <1>2
  <2> QED  BY <2>1, <2>2, <2>3 DEF Stored
<1>4. ASSUME NEW x \in Texts, NEW s \in Servers, x = Text("moved", s)
      PROVE  x.type = "moved" /\ x.of \in Servers
  BY <1>2, <1>4
<1>5. \A x \in Texts :
        x \in Stored \/ (\E s \in Servers : x = Text("moved", s)) \/ x = Error
  BY DEF Texts
<1>6. Error.type = "error"
  BY <1>2 DEF Error
<1> QED  BY <1>1, <1>3, <1>4, <1>5, <1>6

LEMMA CallTypes ==
    ASSUME NEW c \in Calls
    PROVE  /\ c # Nil
           /\ c.op \in Ops /\ c.pc \in Asking \cup {"next", "done"}
           /\ c.key \in Keys \cup {Nil} /\ c.text \in Texts
           /\ c.pool \in Servers \cup {Nil} /\ c.seen \subseteq Stored
           /\ c.moved \in BOOLEAN
           /\ c.todo \in Seq(Items) /\ c.args \in Seq(Items) /\ c.sure \subseteq Keys
           /\ c.num \in Nat /\ c.i \in Nat /\ c.due \subseteq StoredRows
           /\ c.ret \in Seq(Texts)
BY NilAssumption DEF Calls

\* What a step leaves alone: the method's part of a call, and what is known of
\* the key it asks for.
SameMethod(c, d) ==
    /\ d.op = c.op /\ d.todo = c.todo /\ d.args = c.args /\ d.sure = c.sure
    /\ d.num = c.num /\ d.i = c.i /\ d.due = c.due /\ d.ret = c.ret
SameKey(c, d) == d.key = c.key /\ d.seen = c.seen /\ d.moved = c.moved

LEMMA CallMade == \A op \in Ops : Call(op) \in Calls
<1> SUFFICES ASSUME NEW op \in Ops PROVE Call(op) \in Calls
  OBVIOUS
<1>1. None \in Texts
  BY TextTypes
<1> QED  BY <1>1 DEF Call, Calls

LEMMA PoolGetMade ==
    ASSUME TypeOK, NEW c \in Calls, NEW k \in Keys
    PROVE  /\ ClusterPoolGet(c, k) \in Calls
           /\ LET d == ClusterPoolGet(c, k) IN
              /\ d.pc = "first" /\ d.key = k /\ d.text = None /\ d.pool = Nil
              /\ d.seen = {store[k]} /\ d.moved = FALSE /\ SameMethod(c, d)
<1>1. None \in Texts /\ store[k] \in Stored
  BY TextTypes DEF TypeOK
<1> QED  BY <1>1 DEF ClusterPoolGet, Calls, Asking, SameMethod

LEMMA ContinueMade ==
    ASSUME NEW c \in Calls
    PROVE  /\ Continue(c) \in Calls
           /\ LET d == Continue(c) IN
              /\ d.pc = "next" /\ d.i = c.i + 1 /\ d.key = Nil
              /\ d.op = c.op /\ d.todo = c.todo /\ d.args = c.args /\ d.sure = c.sure
              /\ d.num = c.num /\ d.due = c.due /\ d.ret = c.ret
<1> DEFINE n == c.i + 1
<1>1. None \in Texts
  BY TextTypes
<1>2. n \in Nat
  BY CallTypes
<1>3. Continue(c) = [c EXCEPT !.pc = "next", !.i = n, !.key = Nil, !.text = None,
                              !.pool = Nil, !.seen = {}, !.moved = FALSE]
  BY DEF Continue
<1> HIDE DEF n
<1>4. Continue(c) \in Calls
  <2> DEFINE b == [c EXCEPT !.pc = "next", !.key = Nil, !.text = None, !.pool = Nil,
                            !.seen = {}, !.moved = FALSE]
  <2>1. b \in Calls  BY <1>1 DEF Calls
  <2>2. [b EXCEPT !.i = n] \in Calls  BY <1>2, <2>1 DEF Calls
  <2> QED  BY <1>3, <2>2
<1>5. LET d == Continue(c) IN
      /\ d.pc = "next" /\ d.i = n /\ d.key = Nil
      /\ d.op = c.op /\ d.todo = c.todo /\ d.args = c.args /\ d.sure = c.sure
      /\ d.num = c.num /\ d.due = c.due /\ d.ret = c.ret
  BY <1>3 DEF Calls
<1> QED  BY <1>4, <1>5 DEF n

Steps == Asking \cup {"next", "done"}
\* The steps of ClusterPoolGet change the text or the pool and go on to pc.
Answered(c, x, pc) == [c EXCEPT !.text = x, !.pc = pc]
Pooled(c, s, pc) == [c EXCEPT !.pool = s, !.pc = pc]
MovedOn(c, pc) == [c EXCEPT !.pc = pc]

LEMMA AnsweredMade ==
    ASSUME NEW c \in Calls, NEW x \in Texts, NEW pc \in Steps
    PROVE  LET d == Answered(c, x, pc) IN
           /\ d \in Calls /\ d.text = x /\ d.pc = pc /\ d.pool = c.pool
           /\ SameMethod(c, d) /\ SameKey(c, d)
BY DEF Answered, Calls, Steps, SameMethod, SameKey

LEMMA PooledMade ==
    ASSUME NEW c \in Calls, NEW s \in Servers, NEW pc \in Steps
    PROVE  LET d == Pooled(c, s, pc) IN
           /\ d \in Calls /\ d.text = c.text /\ d.pc = pc /\ d.pool = s
           /\ SameMethod(c, d) /\ SameKey(c, d)
BY DEF Pooled, Calls, Steps, SameMethod, SameKey

LEMMA MovedOnMade ==
    ASSUME NEW c \in Calls, NEW pc \in Steps
    PROVE  LET d == MovedOn(c, pc) IN
           /\ d \in Calls /\ d.text = c.text /\ d.pc = pc /\ d.pool = c.pool
           /\ SameMethod(c, d) /\ SameKey(c, d)
BY DEF MovedOn, Calls, Steps, SameMethod, SameKey

\* All but seen, moved, due and sure.
SameCall(c, d) ==
    /\ d.op = c.op /\ d.pc = c.pc /\ d.key = c.key /\ d.text = c.text /\ d.pool = c.pool
    /\ d.todo = c.todo /\ d.args = c.args
    /\ d.num = c.num /\ d.i = c.i /\ d.ret = c.ret

LEMMA SawFields ==
    ASSUME NEW c \in Calls, NEW k \in Keys, NEW x \in Stored
    PROVE  \E d \in Calls :
             /\ Saw(c, k, x) = d /\ SameCall(c, d) /\ d.moved = c.moved
             /\ d.due = Undisturbed(c, k) /\ d.sure = c.sure \ {k}
             /\ c.key = k => d.seen = c.seen \cup {x}
             /\ c.key # k => d.seen = c.seen
<1> DEFINE seen == IF c.key = k THEN c.seen \cup {x} ELSE c.seen
           due == Undisturbed(c, k)
           sure == c.sure \ {k}
           d == [c EXCEPT !.seen = seen, !.due = due, !.sure = sure]
<1>1. Saw(c, k, x) = d
  BY NilAssumption DEF Saw, NilAssumption
<1>2. seen \in SUBSET Stored /\ due \in SUBSET StoredRows /\ sure \in SUBSET Keys
  BY CallTypes DEF Undisturbed
<1> HIDE DEF seen, due, sure
<1>3. /\ d \in Calls /\ SameCall(c, d) /\ d.moved = c.moved
      /\ d.due = due /\ d.sure = sure /\ d.seen = seen
  BY <1>2 DEF Calls, SameCall
<1> HIDE DEF d
<1> QED  BY <1>1, <1>3 DEF seen, due, sure

LEMMA SawTypes ==
    ASSUME NEW c \in Calls \cup {Nil}, NEW k \in Keys, NEW x \in Stored
    PROVE  Saw(c, k, x) \in Calls \cup {Nil}
<1>1. CASE c = Nil  BY <1>1 DEF Saw
<1>2. CASE c \in Calls  BY <1>2, SawFields
<1> QED  BY <1>1, <1>2

LEMMA LostMade ==
    ASSUME NEW c \in Calls \cup {Nil}, NEW k \in Keys
    PROVE  LET d == Lost(c, k) IN
           /\ c = Nil <=> d = Nil
           /\ c # Nil =>
                /\ d \in Calls /\ SameCall(c, d)
                /\ d.seen = c.seen /\ d.due = Undisturbed(c, k) /\ d.sure = c.sure
                /\ d.moved <=> c.moved \/ c.key = k
<1>1. CASE c = Nil
  BY <1>1 DEF Lost
<1>2. CASE c \in Calls
  <2> DEFINE due == Undisturbed(c, k)
  <2>1. c # Nil /\ Lost(c, k) = [c EXCEPT !.moved = c.moved \/ c.key = k, !.due = due]
    BY <1>2, NilAssumption DEF Lost, NilAssumption
  <2>2. due \in SUBSET StoredRows /\ (c.moved \/ c.key = k) \in BOOLEAN
    BY <1>2, CallTypes DEF Undisturbed
  <2> HIDE DEF due
  <2>3. \A b \in BOOLEAN : LET d == [c EXCEPT !.moved = b, !.due = due] IN
        /\ d \in Calls /\ d.due = due /\ d.seen = c.seen /\ d.sure = c.sure
        /\ SameCall(c, d)
    BY <1>2, <2>2 DEF Calls, SameCall
  <2>4. \A b \in BOOLEAN : [c EXCEPT !.moved = b, !.due = due].moved = b
    BY <1>2, Zenon DEF Calls
  <2>5. \A d \in Calls : d # Nil
    BY NilAssumption DEF NilAssumption
  <2> QED  BY <2>1, <2>2, <2>3, <2>4, <2>5, Zenon DEF due
<1> QED  BY <1>1, <1>2

-----------------------------------------------------------------------------
(***************************************************************************)
(* What each step leaves of the call of its thread.                        *)
(***************************************************************************)

\* The step of thread t turns its call c into d, or ends it.
Turns(t, c, d) == c = th[t] /\ th' = [th EXCEPT ![t] = d]

LEMMA ShapeUse ==
    ASSUME ShapeInv, NEW t \in Threads, th[t] # Nil
    PROVE  th[t] \in Calls /\ CallShape(th[t])
BY DEF ShapeInv, TypeOK, Shaped

LEMMA AtUse ==
    ASSUME ShapeInv, NEW t \in Threads, NEW pc, At(t, pc)
    PROVE  th[t] \in Calls /\ CallShape(th[t]) /\ th[t].pc = pc
BY ShapeUse DEF At

LEMMA ReplyTypes ==
    ASSUME TypeOK, NEW s \in Servers, NEW k \in Keys
    PROVE  /\ Reply(s, k) \in Texts /\ Reply(s, k) # Error
           /\ owner[k] = s => Reply(s, k) = store[k]
           /\ owner[k] # s => Reply(s, k).type = "moved" /\ Reply(s, k).of = owner[k]
<1>1. /\ store[k] \in Texts /\ Text("moved", owner[k]) \in Texts
      /\ store[k].type # "error" /\ Error.type = "error"
  BY TextTypes DEF TypeOK
<1>2. Text("moved", owner[k]).type = "moved" /\ Text("moved", owner[k]).of = owner[k]
  BY DEF Text
<1> QED  BY <1>1, <1>2 DEF Reply

LEMMA FirstGetFields ==
    ASSUME ShapeInv, NEW t \in Threads, FirstGet(t)
    PROVE  \E c, d \in Calls :
             /\ Turns(t, c, d) /\ CallShape(c) /\ c.pc = "first"
             /\ d.text = Reply(Home, c.key)
             /\ d.pc = (IF d.text.type = "moved" THEN "find" ELSE "got")
             /\ SameMethod(c, d) /\ SameKey(c, d)
<1> DEFINE c == th[t]
           x == Reply(Home, c.key)
           pc == IF x.type = "moved" THEN "find" ELSE "got"
           d == Answered(c, x, pc)
<1>1. c \in Calls /\ CallShape(c) /\ c.pc = "first"
  BY AtUse DEF FirstGet
<1>2. c.key \in Keys /\ Home \in Servers
  BY <1>1, ClusterAssumption DEF CallShape, Asking, ClusterAssumption
<1>3. x \in Texts /\ pc \in Steps
  BY <1>2, ReplyTypes DEF ShapeInv, Steps, Asking
<1>4. th' = [th EXCEPT ![t] = d]
  <2>1. th' = [th EXCEPT ![t].text = x, ![t].pc = pc]
    BY DEF FirstGet
  <2> HIDE DEF x, pc
  <2> QED  BY <2>1 DEF ShapeInv, TypeOK, Answered
<1> HIDE DEF x, pc
<1>5. d \in Calls /\ d.text = x /\ d.pc = pc /\ SameMethod(c, d) /\ SameKey(c, d)
  BY <1>1, <1>3, AnsweredMade
<1> HIDE DEF d
<1>6. d.pc = IF d.text.type = "moved" THEN "find" ELSE "got"
  BY <1>5 DEF pc
<1> QED  BY <1>1, <1>4, <1>5, <1>6 DEF Turns, x

LEMMA FindPoolFields ==
    ASSUME ShapeInv, NEW t \in Threads, FindPool(t)
    PROVE  \E c, d \in Calls : \E s \in Servers :
             /\ Turns(t, c, d) /\ CallShape(c) /\ c.pc = "find"
             /\ d.text = c.text /\ d.pool = s /\ d.pc \in {"insert", "second"}
             /\ c.text.of \in Servers /\ IP[s] = IP[c.text.of]
             /\ SameMethod(c, d) /\ SameKey(c, d)
<1> DEFINE c == th[t]
           r == c.text.of
           s == IF PoolOf(r) = Nil THEN r ELSE PoolOf(r)
           pc == IF PoolOf(r) = Nil THEN "insert" ELSE "second"
           d == Pooled(c, s, pc)
<1>1. c \in Calls /\ CallShape(c) /\ c.pc = "find"
  BY AtUse DEF FindPool
<1>2. r \in Servers
  BY <1>1, CallTypes, TextTypes DEF CallShape
<1>3. IP[r] \in IPs
  BY <1>2 DEF IPs
<1>4. s \in Servers /\ IP[s] = IP[r] /\ pc \in {"insert", "second"}
  BY <1>2, <1>3 DEF PoolOf, ShapeInv, TypeOK
<1>5. th' = [th EXCEPT ![t] = d]
  <2>1. th' = [th EXCEPT ![t].pool = s, ![t].pc = pc]
    BY DEF FindPool
  <2> HIDE DEF s, pc
  <2> QED  BY <2>1 DEF ShapeInv, TypeOK, Pooled
<1>6. pc \in Steps
  BY <1>4 DEF Steps, Asking
<1> HIDE DEF s, pc
<1>7. d \in Calls /\ d.text = c.text /\ d.pool = s /\ d.pc = pc
      /\ SameMethod(c, d) /\ SameKey(c, d)
  BY <1>1, <1>4, <1>6, PooledMade
<1> HIDE DEF d
<1> QED  BY <1>1, <1>2, <1>4, <1>5, <1>7 DEF Turns

LEMMA InsertPoolFields ==
    ASSUME ShapeInv, NEW t \in Threads, InsertPool(t)
    PROVE  \E c, d \in Calls :
             /\ Turns(t, c, d) /\ CallShape(c) /\ c.pc = "insert" /\ d.pc = "second"
             /\ d.text = c.text /\ d.pool = c.pool
             /\ SameMethod(c, d) /\ SameKey(c, d)
<1> DEFINE c == th[t]
           d == MovedOn(c, "second")
<1>1. c \in Calls /\ CallShape(c) /\ c.pc = "insert"
  BY AtUse DEF InsertPool
<1>2. th' = [th EXCEPT ![t] = d]
  BY DEF InsertPool, ShapeInv, TypeOK, MovedOn
<1>3. "second" \in Steps
  BY DEF Steps, Asking
<1>4. d \in Calls /\ d.text = c.text /\ d.pool = c.pool /\ d.pc = "second"
      /\ SameMethod(c, d) /\ SameKey(c, d)
  BY <1>1, <1>3, MovedOnMade
<1> HIDE DEF d
<1> QED  BY <1>1, <1>2, <1>4 DEF Turns

LEMMA SecondGetFields ==
    ASSUME ShapeInv, NEW t \in Threads, SecondGet(t)
    PROVE  \E c, d \in Calls :
             /\ Turns(t, c, d) /\ CallShape(c) /\ c.pc = "second" /\ d.pc = "got"
             /\ d.text = Reply(c.pool, c.key)
             /\ SameMethod(c, d) /\ SameKey(c, d)
<1> DEFINE c == th[t]
           x == Reply(c.pool, c.key)
           d == Answered(c, x, "got")
<1>1. c \in Calls /\ CallShape(c) /\ c.pc = "second"
  BY AtUse DEF SecondGet
<1>2. c.key \in Keys /\ c.pool \in Servers
  BY <1>1 DEF CallShape, Asking
<1>3. x \in Texts /\ "got" \in Steps
  BY <1>2, ReplyTypes DEF ShapeInv, Steps, Asking
<1>4. th' = [th EXCEPT ![t] = d]
  <2>1. th' = [th EXCEPT ![t].text = x, ![t].pc = "got"]
    BY DEF SecondGet
  <2> HIDE DEF x
  <2> QED  BY <2>1 DEF ShapeInv, TypeOK, Answered
<1> HIDE DEF x
<1>5. d \in Calls /\ d.text = x /\ d.pc = "got" /\ SameMethod(c, d) /\ SameKey(c, d)
  BY <1>1, <1>3, AnsweredMade
<1> HIDE DEF d
<1> QED  BY <1>1, <1>4, <1>5 DEF Turns, x

\* Every step of ClusterPoolGet stays with its key and its method.
LEMMA PoolStepFields ==
    ASSUME ShapeInv, NEW t \in Threads, PoolStep(t)
    PROVE  \E c, d \in Calls : /\ Turns(t, c, d) /\ c.pc \in Asking
                               /\ SameMethod(c, d) /\ SameKey(c, d)
                               /\ d.text # Error \/ d.text = c.text
<1>0. \A s \in Servers, k \in Keys : Reply(s, k) # Error
  BY ReplyTypes DEF ShapeInv
<1>1. CASE FirstGet(t)
  <2>1. PICK c \in Calls, d \in Calls :
          /\ Turns(t, c, d) /\ CallShape(c) /\ c.pc = "first"
          /\ d.text = Reply(Home, c.key)
          /\ d.pc = (IF d.text.type = "moved" THEN "find" ELSE "got")
          /\ SameMethod(c, d) /\ SameKey(c, d)
    BY <1>1, FirstGetFields
  <2>2. c.key \in Keys /\ Home \in Servers
    BY <2>1, ClusterAssumption DEF CallShape, Asking, ClusterAssumption
  <2> QED  BY <1>0, <2>1, <2>2 DEF Asking
<1>2. CASE FindPool(t)
  <2>1. PICK c \in Calls, d \in Calls : \E s \in Servers :
          /\ Turns(t, c, d) /\ CallShape(c) /\ c.pc = "find"
          /\ d.text = c.text /\ d.pool = s /\ d.pc \in {"insert", "second"}
          /\ c.text.of \in Servers /\ IP[s] = IP[c.text.of]
          /\ SameMethod(c, d) /\ SameKey(c, d)
    BY <1>2, FindPoolFields
  <2> QED  BY <2>1 DEF Asking
<1>3. CASE InsertPool(t)
  <2>1. PICK c \in Calls, d \in Calls :
          /\ Turns(t, c, d) /\ CallShape(c) /\ c.pc = "insert" /\ d.pc = "second"
          /\ d.text = c.text /\ d.pool = c.pool
          /\ SameMethod(c, d) /\ SameKey(c, d)
    BY <1>3, InsertPoolFields
  <2> QED  BY <2>1 DEF Asking
<1>4. CASE SecondGet(t)
  <2>1. PICK c \in Calls, d \in Calls :
          /\ Turns(t, c, d) /\ CallShape(c) /\ c.pc = "second" /\ d.pc = "got"
          /\ d.text = Reply(c.pool, c.key)
          /\ SameMethod(c, d) /\ SameKey(c, d)
    BY <1>4, SecondGetFields
  <2>2. c.key \in Keys /\ c.pool \in Servers
    BY <2>1 DEF CallShape, Asking
  <2> QED  BY <1>0, <2>1, <2>2 DEF Asking
<1> QED  BY <1>1, <1>2, <1>3, <1>4 DEF PoolStep

\* A GET that is refused: the error is the answer, and no row with its key is
\* due any longer.
LEMMA GetRefusedFields ==
    ASSUME ShapeInv, NEW t \in Threads, GetRefused(t)
    PROVE  \E c, d \in Calls :
             /\ Turns(t, c, d) /\ CallShape(c) /\ c.pc \in Asking
             /\ d.pc = "got" /\ d.text = Error /\ SameKey(c, d)
             /\ d.op = c.op /\ d.todo = c.todo /\ d.args = c.args /\ d.sure = c.sure
             /\ d.num = c.num /\ d.i = c.i /\ d.ret = c.ret
             /\ d.due = Undisturbed(c, c.key)
<1> DEFINE c == th[t]
           due == Undisturbed(c, c.key)
           d == [c EXCEPT !.text = Error, !.pc = "got", !.due = due]
<1>1. c \in Calls /\ CallShape(c) /\ c.pc \in {"first", "second"}
  BY AtUse DEF GetRefused
<1>2. th' = [th EXCEPT ![t] = d]
  BY DEF GetRefused
<1>3. Error \in Texts /\ "got" \in Steps /\ due \in SUBSET StoredRows
  BY <1>1, TextTypes, CallTypes DEF Steps, Asking, Undisturbed
<1> HIDE DEF due
<1>4. /\ d \in Calls /\ d.pc = "got" /\ d.text = Error /\ SameKey(c, d)
      /\ d.op = c.op /\ d.todo = c.todo /\ d.args = c.args /\ d.sure = c.sure
      /\ d.num = c.num /\ d.i = c.i /\ d.ret = c.ret /\ d.due = due
  BY <1>1, <1>3 DEF Calls, Steps, SameKey
<1> HIDE DEF d
<1> QED  BY <1>1, <1>2, <1>4 DEF Turns, Asking, due

\* GetReturn, PutReturn and ColumnReturn.
LEMMA ReturnFields ==
    ASSUME ShapeInv, NEW t \in Threads, th[t] # Nil, Return(t)
    PROVE  \E c, d \in Calls :
             /\ Turns(t, c, d) /\ CallShape(c) /\ d.pc = "done"
             /\ d.text = c.text /\ d.pool = c.pool
             /\ SameMethod(c, d) /\ SameKey(c, d)
<1> DEFINE c == th[t]
           d == MovedOn(c, "done")
<1>1. c \in Calls /\ CallShape(c)
  BY ShapeUse
<1>2. th' = [th EXCEPT ![t] = d] /\ "done" \in Steps
  BY DEF Return, Steps, MovedOn
<1>3. d \in Calls /\ d.text = c.text /\ d.pool = c.pool /\ d.pc = "done"
      /\ SameMethod(c, d) /\ SameKey(c, d)
  BY <1>1, <1>2, MovedOnMade
<1> HIDE DEF d
<1> QED  BY <1>1, <1>2, <1>3 DEF Turns

LEMMA CallFields ==
    ASSUME NEW op
    PROVE  LET d == Call(op) IN
           /\ d.op = op /\ d.pc = "next" /\ d.key = Nil /\ d.text = None /\ d.pool = Nil
           /\ d.seen = {} /\ d.moved = FALSE /\ d.todo = <<>> /\ d.args = <<>>
           /\ d.sure = {} /\ d.num = 0 /\ d.i = 0 /\ d.due = {} /\ d.ret = <<>>
BY DEF Call

LEMMA LabelTypes ==
    ASSUME NEW n \in GetNums, NEW i \in Nat, i < n
    PROVE  Label[i] \in Keys /\ Label[i] # Junk
<1>1. n \in Nat /\ i \in 0 .. n - 1
  BY ClusterAssumption DEF ClusterAssumption
<1>2. i \in DOMAIN Label
  BY <1>1, ClusterAssumption DEF ClusterAssumption
<1> QED  BY <1>2, ClusterAssumption DEF ClusterAssumption

\* A stored row: label i is an entry that leads to data.
RowAt(st, row, i) ==
    /\ st[Label[i]].type = "entry" /\ row.keys = {Label[i], st[Label[i]].of}
    /\ row.text = st[st[Label[i]].of] /\ row.text.type = "data"

LEMMA RowsAre ==
    ASSUME TypeOK, NEW n \in GetNums
    PROVE  /\ Rows(n) \subseteq StoredRows
           /\ \A row \in Rows(n) : \E i \in 0 .. n - 1 : RowAt(store, row, i)
<1> SUFFICES ASSUME NEW row \in Rows(n)
             PROVE  row \in StoredRows /\ \E i \in 0 .. n - 1 : RowAt(store, row, i)
  OBVIOUS
<1>1. PICK i \in 0 .. n - 1 :
        /\ store[Label[i]].type = "entry" /\ store[store[Label[i]].of].type = "data"
        /\ row = [keys |-> {Label[i], store[Label[i]].of},
                  text |-> store[store[Label[i]].of]]
  BY DEF Rows
<1>2. n \in Nat /\ i \in Nat /\ i < n
  BY ClusterAssumption DEF ClusterAssumption
<1>3. Label[i] \in Keys
  BY <1>2, LabelTypes
<1>4. store[Label[i]] \in Texts
  BY <1>3, TextTypes DEF TypeOK
<1>5. store[Label[i]].of \in Keys
  BY <1>1, <1>4, TextTypes
<1>6. store[store[Label[i]].of] \in Stored
  BY <1>5 DEF TypeOK
<1>7. row \in StoredRows
  BY <1>1, <1>3, <1>5, <1>6 DEF StoredRows
<1>8. RowAt(store, row, i)
  BY <1>1 DEF RowAt
<1> QED  BY <1>7, <1>8

LEMMA ProxyGetFields ==
    ASSUME ShapeInv, NEW t \in Threads, NEW k \in Keys, ProxyGet(t, k)
    PROVE  /\ th[t] = Nil
           /\ \E d \in Calls :
                /\ th' = [th EXCEPT ![t] = d]
                /\ d.op = "ProxyGet" /\ d.pc = "first" /\ d.key = k /\ d.text = None
                /\ d.seen = {store[k]} /\ ~d.moved
                /\ d.todo = <<>> /\ d.args = <<>> /\ d.sure = {} /\ d.num = 0
                /\ d.i = 0 /\ d.due = {} /\ d.ret = <<>>
<1>1. Call("ProxyGet") \in Calls
  BY CallMade DEF Ops
<1> DEFINE d == ClusterPoolGet(Call("ProxyGet"), k)
<1>3. th[t] = Nil /\ th' = [th EXCEPT ![t] = d]
  BY DEF ProxyGet, Start
<1>4. /\ d \in Calls /\ d.pc = "first" /\ d.key = k /\ d.text = None
      /\ d.seen = {store[k]} /\ d.moved = FALSE /\ SameMethod(Call("ProxyGet"), d)
  BY <1>1, PoolGetMade DEF ShapeInv
<1> HIDE DEF d
<1>5. /\ d.todo = <<>> /\ d.args = <<>> /\ d.sure = {} /\ d.num = 0
      /\ d.i = 0 /\ d.due = {} /\ d.ret = <<>> /\ d.op = "ProxyGet"
  BY <1>4, CallFields, ZenonT(60) DEF SameMethod
<1> QED  BY <1>3, <1>4, <1>5

\* A call of ProxyGetColumn as it begins.
ColumnCall(n) == [Call("ProxyGetColumn") EXCEPT !.num = n, !.due = Rows(n)]

LEMMA ColumnFields ==
    ASSUME ShapeInv, NEW t \in Threads, NEW n \in GetNums, ProxyGetColumn(t, n)
    PROVE  /\ th[t] = Nil
           /\ \E d \in Calls :
                /\ th' = [th EXCEPT ![t] = d]
                /\ d.op = "ProxyGetColumn" /\ d.pc = "next" /\ d.num = n /\ d.i = 0
                /\ d.due = Rows(n) /\ d.ret = <<>>
                /\ d.todo = <<>> /\ d.args = <<>> /\ d.sure = {}
<1> DEFINE c == Call("ProxyGetColumn")
           due == Rows(n)
           d == [c EXCEPT !.num = n, !.due = due]
<1>1. c \in Calls
  BY CallMade DEF Ops
<1>2. n \in Nat /\ due \in SUBSET StoredRows
  BY RowsAre, ClusterAssumption DEF ShapeInv, ClusterAssumption
<1>3. th[t] = Nil /\ th' = [th EXCEPT ![t] = d]
  BY DEF ProxyGetColumn, Start
<1>4. /\ c.op = "ProxyGetColumn" /\ c.pc = "next" /\ c.i = 0 /\ c.ret = <<>>
      /\ c.todo = <<>> /\ c.args = <<>> /\ c.sure = {}
  BY CallFields
<1> HIDE DEF c, due
<1>5. /\ d \in Calls /\ d.num = n /\ d.due = due /\ d.op = c.op /\ d.pc = c.pc /\ d.i = c.i
      /\ d.ret = c.ret /\ d.todo = c.todo /\ d.args = c.args /\ d.sure = c.sure
  BY <1>1, <1>2 DEF Calls
<1> HIDE DEF d
<1> QED  BY <1>3, <1>4, <1>5 DEF due

LEMMA UnservedFields ==
    ASSUME ShapeInv, NEW t \in Threads, Unserved(t)
    PROVE  /\ th[t] = Nil
           /\ \E d \in Calls :
                /\ th' = [th EXCEPT ![t] = d]
                /\ d.op = "search" /\ d.pc = "done"
                /\ d.todo = <<>> /\ d.args = <<>> /\ d.sure = {} /\ d.num = 0
                /\ d.i = 0 /\ d.due = {} /\ d.ret = <<>>
<1> DEFINE d == MovedOn(Call("search"), "done")
<1>1. Call("search") \in Calls
  BY CallMade DEF Ops
<1>2. "done" \in Steps
  BY DEF Steps
<1>3. d \in Calls /\ d.pc = "done" /\ SameMethod(Call("search"), d)
  BY <1>1, <1>2, MovedOnMade
<1>4. th[t] = Nil /\ th' = [th EXCEPT ![t] = d]
  BY DEF Unserved, Start, MovedOn
<1> HIDE DEF d
<1>5. /\ d.todo = <<>> /\ d.args = <<>> /\ d.sure = {} /\ d.num = 0
      /\ d.i = 0 /\ d.due = {} /\ d.ret = <<>> /\ d.op = "search"
  BY <1>3, CallFields DEF SameMethod
<1> QED  BY <1>3, <1>4, <1>5

\* GetLabel, and GotLabel when the label has a text: a ClusterPoolGet begins.
LEMMA AskFields ==
    ASSUME ShapeInv, NEW t \in Threads,
           \/ GetLabel(t)
           \/ GotLabel(t) /\ th[t].text # None
    PROVE  \E c, d \in Calls : \E k \in Keys :
             /\ Turns(t, c, d) /\ CallShape(c) /\ c.op = "ProxyGetColumn"
             /\ c.pc = "next" \/ c.pc = "got"
             /\ c.i < c.num /\ c.num \in GetNums
             /\ c.pc = "next" => k = Label[c.i]
             /\ c.pc = "got" => c.key = Label[c.i] /\ c.text # None /\ k = Trapdoor(c.text)
             /\ d.pc = "first" /\ d.key = k /\ d.text = None /\ d.pool = Nil
             /\ d.seen = {store[k]} /\ d.moved = FALSE /\ SameMethod(c, d)
<1> DEFINE c == th[t]
           k == IF c.pc = "next" THEN Label[c.i] ELSE Trapdoor(c.text)
           d == ClusterPoolGet(c, k)
<1>1. /\ c \in Calls /\ CallShape(c) /\ c.op = "ProxyGetColumn"
      /\ c.pc = "next" \/ c.pc = "got"
      /\ c.pc = "next" => c.i < c.num
      /\ c.pc = "got" => c.key = Label[c.i] /\ c.text # None
      /\ th' = [th EXCEPT ![t] = d]
  <2>1. CASE GetLabel(t)
    <3>1. c \in Calls /\ CallShape(c) /\ c.pc = "next"
      BY <2>1, AtUse DEF GetLabel, Column
    <3>2. c.op = "ProxyGetColumn" /\ c.i < c.num
          /\ th' = [th EXCEPT ![t] = ClusterPoolGet(c, Label[c.i])]
      BY <2>1 DEF GetLabel, Column
    <3> QED  BY <3>1, <3>2, Zenon
  <2>2. CASE GotLabel(t) /\ th[t].text # None
    <3>1. c \in Calls /\ CallShape(c) /\ c.pc = "got"
      BY <2>2, AtUse DEF GotLabel, Column
    <3>2. c.op = "ProxyGetColumn" /\ c.key = Label[c.i] /\ c.text # None
      BY <2>2 DEF GotLabel, Column
    <3>3. th' = [th EXCEPT ![t] = ClusterPoolGet(c, Trapdoor(c.text))]
      BY <2>2, Zenon DEF GotLabel
    <3> QED  BY <3>1, <3>2, <3>3, Zenon
  <2> QED  BY <2>1, <2>2
<1>2. c.i < c.num /\ c.i \in Nat /\ c.num \in Nat /\ c.num \in GetNums
  BY <1>1, CallTypes, ClusterAssumption DEF CallShape, Asking, ClusterAssumption
<1>3. k \in Keys
  <2>1. Label[c.i] \in Keys  BY <1>2, LabelTypes
  <2>2. Trapdoor(c.text) \in Keys
    BY <1>1, CallTypes, TextTypes, ClusterAssumption DEF Trapdoor, ClusterAssumption
  <2> QED  BY <2>1, <2>2
<1>4. /\ d \in Calls /\ d.pc = "first" /\ d.key = k /\ d.text = None /\ d.pool = Nil
      /\ d.seen = {store[k]} /\ d.moved = FALSE /\ SameMethod(c, d)
  BY <1>1, <1>3, PoolGetMade DEF ShapeInv
<1>5. /\ c.pc = "next" => k = Label[c.i]
      /\ c.pc = "got" => k = Trapdoor(c.text)
  OBVIOUS
<1> HIDE DEF d, k
<1> QED  BY <1>1, <1>2, <1>3, <1>4, <1>5 DEF Turns

\* GotLabel without a text, and GotValue: the column goes on to the next label.
LEMMA GoOnFields ==
    ASSUME ShapeInv, NEW t \in Threads,
           \/ GotLabel(t) /\ th[t].text = None
           \/ GotValue(t)
    PROVE  \E c, d \in Calls :
             /\ Turns(t, c, d) /\ CallShape(c) /\ c.op = "ProxyGetColumn" /\ c.pc = "got"
             /\ c.i < c.num /\ c.num \in GetNums
             /\ c.key = Label[c.i] => c.text = None
             /\ d.pc = "next" /\ d.i = c.i + 1 /\ d.op = c.op /\ d.num = c.num
             /\ d.todo = c.todo /\ d.args = c.args /\ d.sure = c.sure /\ d.due = c.due
             /\ d.ret = IF c.text = None THEN c.ret ELSE Append(c.ret, c.text)
<1> DEFINE c == th[t]
           b == Continue(c)
           x == c.text
           r == Append(c.ret, x)
           d == IF x = None THEN b ELSE [b EXCEPT !.ret = r]
<1>1. /\ c \in Calls /\ CallShape(c) /\ c.op = "ProxyGetColumn" /\ c.pc = "got"
      /\ c.key = Label[c.i] => c.text = None
      /\ b \in Calls /\ b.ret = c.ret
      /\ th' = [th EXCEPT ![t] = d]
  <2>1. CASE GotLabel(t) /\ th[t].text = None
    BY <2>1, AtUse, ContinueMade DEF GotLabel, Column, SkipHole
  <2>2. CASE GotValue(t)
    <3>1. c \in Calls /\ CallShape(c) /\ c.op = "ProxyGetColumn" /\ c.pc = "got"
          /\ c.key # Label[c.i]
      BY <2>2, AtUse DEF GotValue, Column
    <3>2. b \in Calls /\ b.ret = c.ret
      BY <3>1, ContinueMade
    <3>3. th' = [th EXCEPT ![t] = IF x = None THEN b ELSE [b EXCEPT !.ret = Append(b.ret, x)]]
      BY <2>2 DEF GotValue
    <3> QED  BY <3>1, <3>2, <3>3
  <2> QED  BY <2>1, <2>2
<1>2. c.i < c.num /\ c.num \in GetNums
  BY <1>1, CallTypes DEF CallShape, Asking
<1>3. /\ b.pc = "next" /\ b.i = c.i + 1 /\ b.op = c.op /\ b.num = c.num
      /\ b.todo = c.todo /\ b.args = c.args /\ b.sure = c.sure /\ b.due = c.due
  BY <1>1, ContinueMade
<1>4. r \in Seq(Texts)
  BY <1>1, CallTypes
<1> HIDE DEF b, r, x
<1>5. /\ d \in Calls /\ d.ret = (IF x = None THEN c.ret ELSE r)
      /\ d.pc = b.pc /\ d.i = b.i /\ d.op = b.op /\ d.num = b.num
      /\ d.todo = b.todo /\ d.args = b.args /\ d.sure = b.sure /\ d.due = b.due
  <2>1. CASE x = None  BY <2>1, <1>1
  <2>2. CASE x # None  BY <2>2, <1>1, <1>4 DEF Calls
  <2> QED  BY <2>1, <2>2
<1> HIDE DEF d
<1> QED  BY <1>1, <1>2, <1>3, <1>5 DEF Turns, x, r

\* A ProxyPut after its next SET.
Sent(c) ==
    LET a == Head(c.todo) IN
    [c EXCEPT !.todo = Rest(c), !.sure = IF owner[a.key] = Home THEN @ ELSE @ \ {a.key}]

LEMMA SentMade ==
    ASSUME NEW c \in Calls, c.todo # <<>>
    PROVE  LET a == Head(c.todo)
               d == Sent(c)
           IN /\ a \in Items /\ d \in Calls
              /\ d.op = c.op /\ d.pc = c.pc /\ d.args = c.args /\ d.num = c.num
              /\ d.i = c.i /\ d.due = c.due /\ d.ret = c.ret /\ d.text = c.text
              /\ d.key = c.key /\ d.todo = Tail(c.todo)
              /\ d.sure = IF owner[a.key] = Home THEN c.sure ELSE c.sure \ {a.key}
<1> DEFINE a == Head(c.todo)
           todo == Tail(c.todo)
           sure == IF owner[a.key] = Home THEN c.sure ELSE c.sure \ {a.key}
<1>1. a \in Items /\ todo \in Seq(Items) /\ sure \in SUBSET Keys
  BY CallTypes
<1> HIDE DEF todo, sure
<1>2. LET d == [c EXCEPT !.todo = todo, !.sure = sure] IN
      /\ d \in Calls
      /\ d.op = c.op /\ d.pc = c.pc /\ d.args = c.args /\ d.num = c.num
      /\ d.i = c.i /\ d.due = c.due /\ d.ret = c.ret /\ d.text = c.text
      /\ d.key = c.key /\ d.todo = todo /\ d.sure = sure
  BY <1>1 DEF Calls
<1> QED  BY <1>1, <1>2 DEF Rest, Sent, todo, sure, a

\* A SET at Home, seen by the other calls, or one elsewhere, of no effect.
LEMMA SetFields ==
    ASSUME ShapeInv, NEW t \in Threads, NEW mine \in Calls \cup {Nil}, NEW a \in Items,
           Set(t, mine, a)
    PROVE  /\ a.key \in Keys /\ a.text \in Stored
           /\ \/ /\ owner[a.key] = Home /\ store' = [store EXCEPT ![a.key] = a.text]
                 /\ \A u \in Threads :
                      th'[u] = IF u = t THEN mine ELSE Saw(th[u], a.key, a.text)
              \/ owner[a.key] # Home /\ store' = store /\ th' = [th EXCEPT ![t] = mine]
           /\ store' \in [Keys -> Stored] /\ th' \in [Threads -> Calls \cup {Nil}]
<1>1. a.key \in Keys /\ a.text \in Stored
  BY DEF Items
<1>2. store \in [Keys -> Stored] /\ th \in [Threads -> Calls \cup {Nil}]
  BY DEF ShapeInv, TypeOK
<1>3. CASE owner[a.key] = Home
  <2>1. /\ store' = [store EXCEPT ![a.key] = a.text]
        /\ th' = [u \in Threads |-> IF u = t THEN mine ELSE Saw(th[u], a.key, a.text)]
    BY <1>3 DEF Set
  <2>2. \A u \in Threads : Saw(th[u], a.key, a.text) \in Calls \cup {Nil}
    BY <1>1, <1>2, SawTypes
  <2>3. store' \in [Keys -> Stored]
    BY <1>1, <1>2, <2>1
  <2>4. th' \in [Threads -> Calls \cup {Nil}]
    BY <2>1, <2>2
  <2> QED  BY <1>1, <1>3, <2>1, <2>3, <2>4
<1>4. CASE owner[a.key] # Home
  <2>1. store' = store /\ th' = [th EXCEPT ![t] = mine]
    BY <1>4 DEF Set
  <2> QED  BY <1>1, <1>2, <1>4, <2>1
<1> QED  BY <1>3, <1>4

LEMMA PutFields ==
    ASSUME ShapeInv, NEW t \in Threads, ClusterPoolPut(t)
    PROVE  \E c, d \in Calls : \E a \in Items :
             /\ c = th[t] /\ CallShape(c) /\ c.op = "ProxyPut" /\ c.pc = "next"
             /\ c.todo # <<>> /\ a = Head(c.todo) /\ Set(t, d, a)
             /\ d.op = c.op /\ d.pc = c.pc /\ d.args = c.args /\ d.num = c.num
             /\ d.i = c.i /\ d.due = c.due /\ d.ret = c.ret /\ d.todo = Tail(c.todo)
             /\ d.sure = IF owner[a.key] = Home THEN c.sure ELSE c.sure \ {a.key}
<1> DEFINE c == th[t]
           a == Head(c.todo)
           d == Sent(c)
<1>1. c \in Calls /\ CallShape(c) /\ c.pc = "next"
  BY AtUse DEF ClusterPoolPut
<1>2. c.op = "ProxyPut" /\ c.todo # <<>> /\ Set(t, d, a)
  BY DEF ClusterPoolPut, Sent
<1>3. /\ a \in Items /\ d \in Calls
      /\ d.op = c.op /\ d.pc = c.pc /\ d.args = c.args /\ d.num = c.num
      /\ d.i = c.i /\ d.due = c.due /\ d.ret = c.ret /\ d.todo = Tail(c.todo)
      /\ d.sure = IF owner[a.key] = Home THEN c.sure ELSE c.sure \ {a.key}
  BY <1>1, <1>2, SentMade
<1> HIDE DEF d, a
<1>4. a = Head(c.todo)
  BY DEF a
<1> QED  BY <1>1, <1>2, <1>3, <1>4

\* A SET that is refused: the key is not sure.
LEMMA SetRefusedFields ==
    ASSUME ShapeInv, NEW t \in Threads, SetRefused(t)
    PROVE  \E c, d \in Calls : \E a \in Items :
             /\ Turns(t, c, d) /\ CallShape(c) /\ c.op = "ProxyPut" /\ c.pc = "next"
             /\ c.todo # <<>> /\ a = Head(c.todo)
             /\ d.op = c.op /\ d.pc = c.pc /\ d.args = c.args /\ d.num = c.num
             /\ d.i = c.i /\ d.due = c.due /\ d.ret = c.ret /\ d.todo = Tail(c.todo)
             /\ d.sure = c.sure \ {a.key}
<1> DEFINE c == th[t]
           a == Head(c.todo)
           todo == Tail(c.todo)
           sure == c.sure \ {a.key}
           d == [c EXCEPT !.todo = todo, !.sure = sure]
<1>1. c \in Calls /\ CallShape(c) /\ c.pc = "next"
  BY AtUse DEF SetRefused
<1>2. c.op = "ProxyPut" /\ c.todo # <<>> /\ th' = [th EXCEPT ![t] = d]
  BY DEF SetRefused, Rest
<1>3. a \in Items /\ todo \in Seq(Items) /\ sure \in SUBSET Keys
  BY <1>1, <1>2, CallTypes
<1> HIDE DEF todo, sure
<1>4. /\ d \in Calls /\ d.op = c.op /\ d.pc = c.pc /\ d.args = c.args /\ d.num = c.num
      /\ d.i = c.i /\ d.due = c.due /\ d.ret = c.ret /\ d.todo = todo /\ d.sure = sure
  BY <1>1, <1>3 DEF Calls
<1> HIDE DEF d, a
<1>5. a = Head(c.todo)
  BY DEF a
<1> QED  BY <1>1, <1>2, <1>3, <1>4, <1>5 DEF Turns, todo, sure

LEMMA SendingTypes ==
    ASSUME ShapeInv, NEW t \in Threads
    PROVE  Sending(t) \subseteq Items
<1>1. CASE th[t] # Nil /\ th[t].todo # <<>>
  <2>1. th[t].todo \in Seq(Items)
    BY <1>1, ShapeUse, CallTypes
  <2> QED  BY <1>1, <2>1 DEF Sending
<1>2. CASE ~(th[t] # Nil /\ th[t].todo # <<>>)
  BY <1>2 DEF Sending
<1> QED  BY <1>1, <1>2

\* A late SET, seen by the calls under way, or one of no effect.
LEMMA LateSetFields ==
    ASSUME ShapeInv, NEW a \in late, LateSet(a)
    PROVE  /\ a.key \in Keys /\ a.text \in Stored
           /\ \/ /\ store' = [store EXCEPT ![a.key] = a.text]
                 /\ \A u \in Threads : th'[u] = Saw(th[u], a.key, a.text)
                 /\ kept' = [kept EXCEPT ![a.key] = Nil]
              \/ store' = store /\ th' = th /\ kept' = kept
           /\ store' \in [Keys -> Stored] /\ th' \in [Threads -> Calls \cup {Nil}]
<1>1. a.key \in Keys /\ a.text \in Stored
  BY DEF ShapeInv, TypeOK, Items
<1>2. store \in [Keys -> Stored] /\ th \in [Threads -> Calls \cup {Nil}]
  BY DEF ShapeInv, TypeOK
<1>3. CASE /\ store' = [store EXCEPT ![a.key] = a.text]
           /\ th' = [t \in Threads |-> Saw(th[t], a.key, a.text)]
           /\ kept' = [kept EXCEPT ![a.key] = Nil]
  <2>1. \A u \in Threads : Saw(th[u], a.key, a.text) \in Calls \cup {Nil}
    BY <1>1, <1>2, SawTypes
  <2>2. store' \in [Keys -> Stored]
    BY <1>1, <1>2, <1>3
  <2> QED  BY <1>1, <1>3, <2>1, <2>2
<1>4. CASE UNCHANGED <<store, th, kept>>
  BY <1>1, <1>2, <1>4
<1> QED  BY <1>3, <1>4 DEF LateSet

\* What a ProxyPut of args leaves of another call.
Unsure(c, args) == [c EXCEPT !.sure = @ \ KeysOf(args)]

LEMMA UnsureMade ==
    ASSUME NEW c \in Calls, NEW args
    PROVE  LET d == Unsure(c, args) IN
           /\ d \in Calls /\ d.pc = c.pc /\ d.text = c.text /\ d.pool = c.pool
           /\ SameKey(c, d)
           /\ d.op = c.op /\ d.todo = c.todo /\ d.args = c.args /\ d.num = c.num
           /\ d.i = c.i /\ d.due = c.due /\ d.ret = c.ret
           /\ d.sure = c.sure \ KeysOf(args)
<1> DEFINE sure == c.sure \ KeysOf(args)
<1>1. sure \in SUBSET Keys
  BY CallTypes
<1> HIDE DEF sure
<1>2. LET d == [c EXCEPT !.sure = sure] IN
      /\ d \in Calls /\ d.pc = c.pc /\ d.text = c.text /\ d.pool = c.pool
      /\ SameKey(c, d)
      /\ d.op = c.op /\ d.todo = c.todo /\ d.args = c.args /\ d.num = c.num
      /\ d.i = c.i /\ d.due = c.due /\ d.ret = c.ret /\ d.sure = sure
  BY <1>1 DEF Calls, SameKey
<1> QED  BY <1>2 DEF sure, Unsure

\* The keys of the ProxyPuts under way.
OtherKeys == UNION {KeysOf(th[u].args) : u \in {u \in Threads : th[u] # Nil}}

LEMMA ProxyPutFields ==
    ASSUME ShapeInv, NEW t \in Threads, NEW args \in Puts, ProxyPut(t, args)
    PROVE  /\ th[t] = Nil /\ KeysOf(args) \subseteq Keys
           /\ \E d \in Calls :
                /\ d.op = "ProxyPut" /\ d.pc = "next" /\ d.todo = args /\ d.args = args
                /\ d.sure = KeysOf(args) \ OtherKeys /\ d.num = 0 /\ d.i = 0
                /\ d.due = {} /\ d.ret = <<>>
                /\ \A u \in Threads :
                     th'[u] = IF u = t THEN d
                              ELSE IF th[u] = Nil THEN Nil ELSE Unsure(th[u], args)
           /\ th' \in [Threads -> Calls \cup {Nil}]
<1> DEFINE c == Call("ProxyPut")
           sure == KeysOf(args) \ OtherKeys
           d == [c EXCEPT !.todo = args, !.args = args, !.sure = sure]
<1>1. args \in Seq(Items)
  BY ClusterAssumption DEF ClusterAssumption
<1>2. KeysOf(args) \subseteq Keys
  <2>1. \A i \in DOMAIN args : args[i] \in Items  BY <1>1
  <2> QED  BY <2>1 DEF KeysOf, Items
<1>3. /\ c \in Calls /\ c.op = "ProxyPut" /\ c.pc = "next" /\ c.num = 0 /\ c.i = 0
      /\ c.due = {} /\ c.ret = <<>>
  BY CallMade, CallFields DEF Ops
<1>4. sure \in SUBSET Keys
  BY <1>2
<1>5. th[t] = Nil /\ th' = [u \in Threads |-> IF u = t THEN d
                            ELSE IF th[u] = Nil THEN Nil ELSE Unsure(th[u], args)]
  BY DEF ProxyPut, Unsure, OtherKeys
<1> HIDE DEF c, sure
<1>6. /\ d \in Calls /\ d.op = c.op /\ d.pc = c.pc /\ d.num = c.num /\ d.i = c.i
      /\ d.due = c.due /\ d.ret = c.ret /\ d.todo = args /\ d.args = args /\ d.sure = sure
  BY <1>1, <1>3, <1>4 DEF Calls
<1> HIDE DEF d
<1>7. \A u \in Threads : th[u] # Nil => Unsure(th[u], args) \in Calls
  BY ShapeUse, UnsureMade
<1>8. th' \in [Threads -> Calls \cup {Nil}]
  BY <1>5, <1>6, <1>7
<1>9. \A u \in Threads : th'[u] = IF u = t THEN d
                              ELSE IF th[u] = Nil THEN Nil ELSE Unsure(th[u], args)
  BY <1>5
<1> QED  BY <1>2, <1>3, <1>5, <1>6, <1>8, <1>9 DEF sure

-----------------------------------------------------------------------------
(***************************************************************************)
(* Type correctness.                                                       *)
(***************************************************************************)

StoresTyped ==
    /\ owner \in [Keys -> Servers] /\ store \in [Keys -> Stored]
    /\ late \subseteq Items
    /\ pools \in [IPs -> Servers \cup {Nil}]
    /\ \A ip \in IPs : pools[ip] # Nil => IP[pools[ip]] = ip
    /\ moves \in 0 .. MaxMove /\ fails \in 0 .. MaxFail /\ puts \in 0 .. MaxPut
    /\ kept \in [Keys -> Stored \cup {Nil}]
CallsTyped == th \in [Threads -> Calls \cup {Nil}] /\ Shaped

LEMMA ShapeParts ==
    /\ ShapeInv <=> StoresTyped /\ CallsTyped
    /\ ShapeInv' <=> StoresTyped' /\ CallsTyped'
BY DEF ShapeInv, StoresTyped, CallsTyped, TypeOK, Shaped, CallShape

LEMMA TurnShaped ==
    ASSUME ShapeInv, NEW t \in Threads, NEW d \in Calls \cup {Nil},
           d # Nil => CallShape(d), th' = [th EXCEPT ![t] = d]
    PROVE  CallsTyped'
<1>1. th' \in [Threads -> Calls \cup {Nil}]
  BY DEF ShapeInv, TypeOK
<1>2. ASSUME NEW u \in Threads, th'[u] # Nil PROVE CallShape(th'[u])
  <2>1. th'[u] = IF u = t THEN d ELSE th[u]
    BY DEF ShapeInv, TypeOK
  <2> QED  BY <1>2, <2>1 DEF ShapeInv, Shaped
<1> QED  BY <1>1, <1>2 DEF CallsTyped, Shaped, CallShape

LEMMA SawShaped ==
    ASSUME NEW c \in Calls, CallShape(c), NEW k \in Keys, NEW x \in Stored
    PROVE  CallShape(Saw(c, k, x)) /\ CallShape(Lost(c, k))
<1>1. c # Nil /\ c \in Calls \cup {Nil}
  BY CallTypes
<1>0. PICK d \in Calls :
        /\ Saw(c, k, x) = d /\ SameCall(c, d)
        /\ d.due = Undisturbed(c, k) /\ d.sure = c.sure \ {k}
  BY SawFields
<1>2. /\ SameCall(c, d) /\ d.due = Undisturbed(c, k) /\ d.sure \subseteq c.sure
      /\ SameCall(c, Lost(c, k)) /\ Lost(c, k).due = Undisturbed(c, k)
      /\ Lost(c, k).sure = c.sure
  BY <1>0, <1>1, LostMade
<1>3. c.due = {} => Undisturbed(c, k) = {}
  BY DEF Undisturbed
<1>4. ASSUME NEW e, SameCall(c, e), e.due = Undisturbed(c, k), e.sure \subseteq c.sure
      PROVE  CallShape(e)
  BY <1>3, <1>4 DEF CallShape, SameCall
<1> QED  BY <1>0, <1>2, <1>4

LEMMA PoolStepShaped ==
    ASSUME ShapeInv, NEW t \in Threads, PoolStep(t)
    PROVE  ShapeInv'
<1> SUFFICES StoresTyped' /\ CallsTyped'
  BY ShapeParts
<1> USE DEF ShapeInv
<1>1. CASE FirstGet(t)
  <2>1. PICK c \in Calls, d \in Calls :
          /\ Turns(t, c, d) /\ CallShape(c) /\ c.pc = "first"
          /\ d.text = Reply(Home, c.key)
          /\ d.pc = (IF d.text.type = "moved" THEN "find" ELSE "got")
          /\ SameMethod(c, d) /\ SameKey(c, d)
    BY <1>1, FirstGetFields
  <2>2. CallShape(d)
    BY <2>1 DEF CallShape, SameMethod, SameKey, Asking
  <2>3. CallsTyped'
    BY <2>1, <2>2, TurnShaped DEF Turns
  <2>4. StoresTyped'
    BY <1>1 DEF FirstGet, StoresTyped, TypeOK, cluster
  <2> QED  BY <2>3, <2>4
<1>2. CASE FindPool(t)
  <2>1. PICK c \in Calls, d \in Calls : \E s \in Servers :
          /\ Turns(t, c, d) /\ CallShape(c) /\ c.pc = "find"
          /\ d.pool = s /\ d.pc \in {"insert", "second"}
          /\ SameMethod(c, d) /\ SameKey(c, d)
    BY <1>2, FindPoolFields
  <2>2. CallShape(d)
    BY <2>1 DEF CallShape, SameMethod, SameKey, Asking
  <2>3. CallsTyped'
    BY <2>1, <2>2, TurnShaped DEF Turns
  <2>4. StoresTyped'
    BY <1>2 DEF FindPool, StoresTyped, TypeOK, cluster
  <2> QED  BY <2>3, <2>4
<1>3. CASE InsertPool(t)
  <2>1. PICK c \in Calls, d \in Calls :
          /\ Turns(t, c, d) /\ CallShape(c) /\ c.pc = "insert" /\ d.pc = "second"
          /\ d.pool = c.pool
          /\ SameMethod(c, d) /\ SameKey(c, d)
    BY <1>3, InsertPoolFields
  <2>2. CallShape(d) /\ c.pool \in Servers
    BY <2>1 DEF CallShape, SameMethod, SameKey, Asking
  <2>3. CallsTyped'
    BY <2>1, <2>2, TurnShaped DEF Turns
  <2>4. pools' = [pools EXCEPT ![IP[c.pool]] = c.pool]
    BY <1>3, <2>1 DEF InsertPool, Turns
  <2>5. IP[c.pool] \in IPs
    BY <2>2 DEF IPs
  <2>6. /\ pools' \in [IPs -> Servers \cup {Nil}]
        /\ \A ip \in IPs : pools'[ip] # Nil => IP[pools'[ip]] = ip
    BY <2>2, <2>4, <2>5 DEF TypeOK
  <2>7. StoresTyped'
    BY <1>3, <2>6 DEF InsertPool, StoresTyped, TypeOK, cluster
  <2> QED  BY <2>3, <2>7
<1>4. CASE SecondGet(t)
  <2>1. PICK c \in Calls, d \in Calls :
          /\ Turns(t, c, d) /\ CallShape(c) /\ c.pc = "second" /\ d.pc = "got"
          /\ SameMethod(c, d) /\ SameKey(c, d)
    BY <1>4, SecondGetFields
  <2>2. CallShape(d)
    BY <2>1 DEF CallShape, SameMethod, SameKey, Asking
  <2>3. CallsTyped'
    BY <2>1, <2>2, TurnShaped DEF Turns
  <2>4. StoresTyped'
    BY <1>4 DEF SecondGet, StoresTyped, TypeOK, cluster
  <2> QED  BY <2>3, <2>4
<1> QED  BY <1>1, <1>2, <1>3, <1>4 DEF PoolStep

LEMMA AskedKeys == Asked \subseteq Keys
BY ClusterAssumption DEF ClusterAssumption

LEMMA ServeShaped ==
    ASSUME ShapeInv, NEW t \in Threads, Serve(t)
    PROVE  ShapeInv'
<1> SUFFICES StoresTyped' /\ CallsTyped'
  BY ShapeParts
<1> USE DEF ShapeInv
<1>1. ASSUME NEW k \in Keys, ProxyGet(t, k) PROVE StoresTyped' /\ CallsTyped'
  <2>1. PICK d \in Calls :
          /\ th' = [th EXCEPT ![t] = d]
          /\ d.op = "ProxyGet" /\ d.pc = "first" /\ d.key = k /\ d.text = None
          /\ d.seen = {store[k]} /\ ~d.moved
          /\ d.todo = <<>> /\ d.args = <<>> /\ d.sure = {} /\ d.num = 0
          /\ d.i = 0 /\ d.due = {} /\ d.ret = <<>>
    BY <1>1, ProxyGetFields, ZenonT(60)
  <2>2. CallShape(d)
    BY <2>1 DEF CallShape, Asking
  <2>3. CallsTyped'
    BY <2>1, <2>2, TurnShaped
  <2> QED  BY <1>1, <2>3 DEF ProxyGet, StoresTyped, TypeOK, cluster
<1>2. ASSUME NEW args \in Puts, ProxyPut(t, args) PROVE StoresTyped' /\ CallsTyped'
  <2>1. PICK d \in Calls :
          /\ d.op = "ProxyPut" /\ d.pc = "next" /\ d.todo = args /\ d.args = args
          /\ d.sure = KeysOf(args) \ OtherKeys /\ d.num = 0 /\ d.i = 0
          /\ d.due = {} /\ d.ret = <<>>
          /\ \A u \in Threads :
               th'[u] = IF u = t THEN d
                        ELSE IF th[u] = Nil THEN Nil ELSE Unsure(th[u], args)
    BY <1>2, ProxyPutFields
  <2>2. th' \in [Threads -> Calls \cup {Nil}]
    BY <1>2, ProxyPutFields
  <2>3. CallShape(d)
    BY <2>1 DEF CallShape, Asking
  <2>4. ASSUME NEW u \in Threads, th[u] # Nil PROVE CallShape(Unsure(th[u], args))
    <3> DEFINE e == Unsure(th[u], args)
               c == th[u]
    <3>1. c \in Calls /\ CallShape(c)
      BY <2>4, ShapeUse
    <3>2. /\ e \in Calls /\ e.pc = c.pc /\ e.text = c.text /\ e.pool = c.pool
          /\ e.key = c.key
          /\ e.op = c.op /\ e.todo = c.todo /\ e.args = c.args /\ e.num = c.num
          /\ e.i = c.i /\ e.due = c.due /\ e.ret = c.ret
          /\ e.sure = c.sure \ KeysOf(args)
      BY <3>1, UnsureMade DEF SameKey
    <3> HIDE DEF e, c
    <3>3. CallShape(e)
      BY <3>1, <3>2 DEF CallShape
    <3> QED  BY <3>3 DEF e
  <2>5. ASSUME NEW u \in Threads, th'[u] # Nil PROVE CallShape(th'[u])
    BY <2>1, <2>3, <2>4, <2>5
  <2>9. CallsTyped'
    BY <2>2, <2>5 DEF CallsTyped, Shaped, CallShape
  <2>6. puts' \in 0 .. MaxPut
    <3>1. puts \in 0 .. MaxPut /\ puts < MaxPut /\ puts' = puts + 1 /\ MaxPut \in Nat
      BY <1>2, ClusterAssumption DEF ProxyPut, ClusterAssumption, TypeOK
    <3> QED  BY <3>1
  <2>7. kept' \in [Keys -> Stored \cup {Nil}]
    BY <1>2 DEF ProxyPut, TypeOK
  <2>8. StoresTyped'
    BY <1>2, <2>6, <2>7 DEF ProxyPut, StoresTyped, TypeOK, cluster
  <2> QED  BY <2>9, <2>8
<1>3. ASSUME NEW n \in GetNums, ProxyGetColumn(t, n) PROVE StoresTyped' /\ CallsTyped'
  <2>1. PICK d \in Calls :
          /\ th' = [th EXCEPT ![t] = d]
          /\ d.op = "ProxyGetColumn" /\ d.pc = "next" /\ d.num = n /\ d.i = 0
          /\ d.ret = <<>> /\ d.todo = <<>> /\ d.args = <<>> /\ d.sure = {}
    BY <1>3, ColumnFields
  <2>2. n \in Nat
    BY ClusterAssumption DEF ClusterAssumption
  <2>3. CallShape(d)
    BY <2>1, <2>2 DEF CallShape, Asking
  <2>4. CallsTyped'
    BY <2>1, <2>3, TurnShaped
  <2> QED  BY <1>3, <2>4 DEF ProxyGetColumn, StoresTyped, TypeOK, cluster
<1>4. CASE Unserved(t)
  <2>1. PICK d \in Calls :
          /\ th' = [th EXCEPT ![t] = d]
          /\ d.op = "search" /\ d.pc = "done"
          /\ d.todo = <<>> /\ d.args = <<>> /\ d.sure = {} /\ d.num = 0
          /\ d.i = 0 /\ d.due = {} /\ d.ret = <<>>
    BY <1>4, UnservedFields
  <2>2. CallShape(d)
    BY <2>1 DEF CallShape, Asking
  <2>3. CallsTyped'
    BY <2>1, <2>2, TurnShaped
  <2> QED  BY <1>4, <2>3 DEF Unserved, StoresTyped, TypeOK, cluster
<1> QED  BY <1>1, <1>2, <1>3, <1>4, AskedKeys DEF Serve

\* A SET keeps the calls typed if the caller's own call keeps its shape.
LEMMA SetShaped ==
    ASSUME ShapeInv, NEW t \in Threads, NEW mine \in Calls \cup {Nil},
           mine # Nil => CallShape(mine), NEW a \in Items, Set(t, mine, a)
    PROVE  store' \in [Keys -> Stored] /\ CallsTyped'
<1>1. store' \in [Keys -> Stored] /\ th' \in [Threads -> Calls \cup {Nil}]
  BY SetFields
<1>2. a.key \in Keys /\ a.text \in Stored
  BY SetFields
<1>3. CASE /\ owner[a.key] = Home
           /\ \A u \in Threads : th'[u] = IF u = t THEN mine ELSE Saw(th[u], a.key, a.text)
  <2>1. ASSUME NEW u \in Threads, th'[u] # Nil PROVE CallShape(th'[u])
    <3>1. CASE u = t  BY <1>3, <2>1, <3>1
    <3>2. CASE u # t
      <4>1. th'[u] = Saw(th[u], a.key, a.text)
        BY <1>3, <3>2
      <4>2. th[u] # Nil
        BY <2>1, <4>1 DEF Saw
      <4> QED  BY <1>2, <4>1, <4>2, ShapeUse, SawShaped
    <3> QED  BY <3>1, <3>2
  <2> QED  BY <1>1, <2>1 DEF CallsTyped, Shaped, CallShape
<1>4. CASE th' = [th EXCEPT ![t] = mine]
  BY <1>1, <1>4, TurnShaped
<1> QED  BY <1>3, <1>4, SetFields

LEMMA MethodStepShaped ==
    ASSUME ShapeInv, NEW t \in Threads, MethodStep(t)
    PROVE  ShapeInv'
<1> SUFFICES StoresTyped' /\ CallsTyped'
  BY ShapeParts
<1> USE DEF ShapeInv
<1>1. ASSUME Return(t), th[t] # Nil, th[t].op # "search",
             th[t].op = "ProxyGetColumn" => th[t].i = th[t].num
      PROVE  CallsTyped'
  <2>1. PICK c \in Calls, d \in Calls :
          /\ Turns(t, c, d) /\ CallShape(c) /\ d.pc = "done"
          /\ d.text = c.text /\ d.pool = c.pool
          /\ SameMethod(c, d) /\ SameKey(c, d)
    <3>1. Return(t) /\ th[t] # Nil
      BY <1>1
    <3> QED  BY <3>1, ReturnFields, Zenon
  <2>2. CallShape(d)
    BY <1>1, <2>1 DEF CallShape, SameMethod, SameKey, Asking, Turns
  <2> QED  BY <2>1, <2>2, TurnShaped DEF Turns
<1>2. CASE GetReturn(t)
  <2>1. Return(t) /\ th[t] # Nil /\ th[t].op = "ProxyGet"
    BY <1>2 DEF GetReturn, At
  <2> QED  BY <1>1, <1>2, <2>1 DEF GetReturn, StoresTyped, TypeOK, cluster
<1>3. CASE ClusterPoolPut(t)
  <2>1. PICK c \in Calls, d \in Calls : \E a \in Items :
          /\ c = th[t] /\ CallShape(c) /\ c.op = "ProxyPut" /\ c.pc = "next"
          /\ c.todo # <<>> /\ a = Head(c.todo) /\ Set(t, d, a)
          /\ d.op = c.op /\ d.pc = c.pc /\ d.args = c.args /\ d.num = c.num
          /\ d.i = c.i /\ d.due = c.due /\ d.ret = c.ret /\ d.todo = Tail(c.todo)
          /\ d.sure = IF owner[a.key] = Home THEN c.sure ELSE c.sure \ {a.key}
    BY <1>3, PutFields, Zenon
  <2>2. CallShape(d)
    <3>1. d.sure \subseteq c.sure /\ d.sure \subseteq KeysOf(d.args)
      BY <2>1 DEF CallShape
    <3> QED  BY <2>1, <3>1 DEF CallShape, Asking
  <2>3. store' \in [Keys -> Stored] /\ CallsTyped'
    BY <2>1, <2>2, SetShaped
  <2> QED  BY <1>3, <2>3 DEF ClusterPoolPut, StoresTyped, TypeOK
<1>4. CASE PutReturn(t)
  <2>1. Return(t) /\ th[t] # Nil /\ th[t].op = "ProxyPut"
    BY <1>4 DEF PutReturn, At
  <2>2. CallsTyped'
    BY <1>1, <2>1
  <2>3. kept' \in [Keys -> Stored \cup {Nil}]
    <3> DEFINE args == th[t].args
               Last(k) == args[CHOOSE i \in DOMAIN args : args[i].key = k].text
    <3>1. th[t].sure \subseteq KeysOf(args) /\ args \in Seq(Items)
      BY <2>1, ShapeUse, CallTypes DEF CallShape
    <3>2. ASSUME NEW k \in Keys, k \in th[t].sure PROVE Last(k) \in Stored
      <4>1. \E i \in DOMAIN args : args[i].key = k
        BY <3>1, <3>2 DEF KeysOf
      <4> DEFINE i == CHOOSE i \in DOMAIN args : args[i].key = k
      <4>2. i \in DOMAIN args
        BY <4>1
      <4> HIDE DEF i
      <4>3. args[i] \in Items
        BY <3>1, <4>2
      <4>4. args[i].text \in Stored
        BY <4>3 DEF Items
      <4> QED  BY <4>4 DEF i
    <3>3. kept' = [k \in Keys |-> IF k \notin th[t].sure THEN kept[k] ELSE Last(k)]
      BY <1>4 DEF PutReturn
    <3> HIDE DEF Last
    <3> QED  BY <3>2, <3>3 DEF TypeOK
  <2> QED  BY <1>4, <2>2, <2>3 DEF PutReturn, StoresTyped, TypeOK, cluster
<1>5. CASE GetLabel(t) \/ (GotLabel(t) /\ th[t].text # None)
  <2>1. PICK c \in Calls, d \in Calls : \E k \in Keys :
          /\ Turns(t, c, d) /\ CallShape(c) /\ c.op = "ProxyGetColumn"
          /\ c.i < c.num
          /\ d.pc = "first" /\ d.key = k /\ SameMethod(c, d)
    BY <1>5, AskFields
  <2>2. CallShape(d)
    BY <2>1 DEF CallShape, SameMethod, Asking
  <2>3. CallsTyped'
    BY <2>1, <2>2, TurnShaped DEF Turns
  <2> QED  BY <1>5, <2>3 DEF GetLabel, GotLabel, StoresTyped, TypeOK, cluster
<1>6. CASE GotValue(t) \/ (GotLabel(t) /\ th[t].text = None)
  <2>1. PICK c \in Calls, d \in Calls :
          /\ Turns(t, c, d) /\ CallShape(c) /\ c.op = "ProxyGetColumn"
          /\ c.i < c.num
          /\ d.pc = "next" /\ d.i = c.i + 1 /\ d.op = c.op /\ d.num = c.num
          /\ d.todo = c.todo /\ d.args = c.args /\ d.sure = c.sure /\ d.due = c.due
          /\ d.ret = IF c.text = None THEN c.ret ELSE Append(c.ret, c.text)
    BY <1>6, GoOnFields
  <2>2. c.i \in Nat /\ c.num \in Nat /\ c.ret \in Seq(Texts) /\ c.text \in Texts
    BY <2>1, CallTypes
  <2>3. Len(d.ret) <= Len(c.ret) + 1 /\ Len(d.ret) \in Nat /\ Len(c.ret) \in Nat
    BY <2>1, <2>2
  <2>4. CallShape(d)
    BY <2>1, <2>2, <2>3 DEF CallShape, Asking
  <2>5. CallsTyped'
    BY <2>1, <2>4, TurnShaped DEF Turns
  <2> QED  BY <1>6, <2>5 DEF GotValue, GotLabel, StoresTyped, TypeOK, cluster
<1>7. CASE ColumnReturn(t)
  <2>1. Return(t) /\ th[t] # Nil /\ th[t].op = "ProxyGetColumn" /\ th[t].i = th[t].num
    BY <1>7 DEF ColumnReturn, Column, At
  <2> QED  BY <1>1, <1>7, <2>1 DEF ColumnReturn, StoresTyped, TypeOK, cluster
<1>8. CASE Free(t)
  <2>1. th' = [th EXCEPT ![t] = Nil]
    BY <1>8 DEF Free
  <2>2. CallsTyped'
    BY <2>1, TurnShaped
  <2> QED  BY <1>8, <2>2 DEF Free, StoresTyped, TypeOK, cluster
<1> QED  BY <1>2, <1>3, <1>4, <1>5, <1>6, <1>7, <1>8 DEF MethodStep

LEMMA FailsTyped ==
    ASSUME TypeOK, fails < MaxFail, fails' = fails + 1
    PROVE  fails' \in 0 .. MaxFail
<1>1. fails \in 0 .. MaxFail /\ MaxFail \in Nat
  BY ClusterAssumption DEF ClusterAssumption, TypeOK
<1> QED  BY <1>1

LEMMA FailureShaped ==
    ASSUME ShapeInv, NEW t \in Threads, Failure(t)
    PROVE  ShapeInv'
<1> SUFFICES StoresTyped' /\ CallsTyped'
  BY ShapeParts
<1> USE DEF ShapeInv
<1>1. fails' \in 0 .. MaxFail
  BY FailsTyped DEF Failure, GetRefused, SetRefused, CallThrows
<1>2. CASE GetRefused(t)
  <2>1. PICK c \in Calls, d \in Calls :
          /\ Turns(t, c, d) /\ CallShape(c) /\ c.pc \in Asking
          /\ d.pc = "got" /\ d.text = Error /\ SameKey(c, d)
          /\ d.op = c.op /\ d.todo = c.todo /\ d.args = c.args /\ d.sure = c.sure
          /\ d.num = c.num /\ d.i = c.i /\ d.ret = c.ret
          /\ d.due = Undisturbed(c, c.key)
    BY <1>2, GetRefusedFields
  <2>2. CallShape(d)
    BY <2>1 DEF CallShape, SameKey, Asking, Undisturbed
  <2>3. CallsTyped'
    BY <2>1, <2>2, TurnShaped DEF Turns
  <2> QED  BY <1>1, <1>2, <2>3 DEF GetRefused, StoresTyped, TypeOK, cluster
<1>3. CASE SetRefused(t)
  <2>1. PICK c \in Calls, d \in Calls : \E a \in Items :
          /\ Turns(t, c, d) /\ CallShape(c) /\ c.op = "ProxyPut" /\ c.pc = "next"
          /\ c.todo # <<>> /\ a = Head(c.todo)
          /\ d.op = c.op /\ d.pc = c.pc /\ d.args = c.args /\ d.num = c.num
          /\ d.i = c.i /\ d.due = c.due /\ d.ret = c.ret /\ d.todo = Tail(c.todo)
          /\ d.sure = c.sure \ {a.key}
    BY <1>3, SetRefusedFields
  <2>2. CallShape(d)
    <3>1. d.sure \subseteq KeysOf(d.args)
      BY <2>1 DEF CallShape
    <3> QED  BY <2>1, <3>1 DEF CallShape, Asking
  <2>3. CallsTyped'
    BY <2>1, <2>2, TurnShaped DEF Turns
  <2> QED  BY <1>1, <1>3, <2>3 DEF SetRefused, StoresTyped, TypeOK, cluster
<1>4. CASE CallThrows(t)
  <2>1. late' \subseteq Items
    BY <1>4, SendingTypes DEF CallThrows, TypeOK
  <2>2. CallsTyped'
    BY <1>4, TurnShaped DEF CallThrows
  <2> QED  BY <1>1, <1>4, <2>1, <2>2 DEF CallThrows, StoresTyped, TypeOK
<1> QED  BY <1>2, <1>3, <1>4 DEF Failure

LEMMA LateSetShaped ==
    ASSUME ShapeInv, NEW a \in late, LateSet(a)
    PROVE  ShapeInv'
<1>1. /\ a.key \in Keys /\ a.text \in Stored
      /\ store' \in [Keys -> Stored] /\ th' \in [Threads -> Calls \cup {Nil}]
  BY LateSetFields
<1>2. ASSUME NEW u \in Threads, th'[u] # Nil PROVE CallShape(th'[u])
  <2>1. th'[u] = th[u] \/ th'[u] = Saw(th[u], a.key, a.text)
    BY LateSetFields
  <2>2. th[u] # Nil
    BY <1>2, <2>1 DEF Saw
  <2> QED  BY <1>1, <2>1, <2>2, ShapeUse, SawShaped
<1>3. CallsTyped'
  BY <1>1, <1>2 DEF CallsTyped, Shaped, CallShape
<1>4. kept' \in [Keys -> Stored \cup {Nil}]
  <2>1. kept \in [Keys -> Stored \cup {Nil}]
    BY DEF ShapeInv, TypeOK
  <2> QED  BY <1>1, <2>1, LateSetFields
<1>5. late' \subseteq Items
  BY DEF LateSet, ShapeInv, TypeOK
<1>6. StoresTyped'
  BY <1>1, <1>4, <1>5 DEF LateSet, StoresTyped, ShapeInv, TypeOK
<1> QED  BY <1>3, <1>6, ShapeParts

LEMMA MapRaceShaped ==
    ASSUME ShapeInv, MapRace
    PROVE  ShapeInv'
<1>1. fails' \in 0 .. MaxFail
  BY FailsTyped DEF MapRace, ShapeInv
<1>2. /\ th' = [t \in Threads |-> Nil] /\ pools' = [ip \in IPs |-> Nil]
      /\ UNCHANGED <<owner, store, moves, puts, kept>>
  BY DEF MapRace
<1>3. CallsTyped'
  BY <1>2 DEF CallsTyped, Shaped, CallShape
<1>5. late' \subseteq Items
  BY SendingTypes DEF MapRace, ShapeInv, TypeOK
<1>4. StoresTyped'
  BY <1>1, <1>2, <1>5 DEF StoresTyped, ShapeInv, TypeOK
<1> QED  BY <1>3, <1>4, ShapeParts

LEMMA MoveShaped ==
    ASSUME ShapeInv, NEW k \in Keys, NEW s \in Servers, Move(k, s)
    PROVE  ShapeInv'
<1>1. moves' \in 0 .. MaxMove
  <2>1. moves \in 0 .. MaxMove /\ moves < MaxMove /\ moves' = moves + 1 /\ MaxMove \in Nat
    BY ClusterAssumption DEF Move, ClusterAssumption, ShapeInv, TypeOK
  <2> QED  BY <2>1
<1>2. /\ th' = [t \in Threads |-> Lost(th[t], k)] /\ owner' = [owner EXCEPT ![k] = s]
      /\ UNCHANGED <<store, late, pools, fails, puts, kept>>
  BY DEF Move
<1>3. \A t \in Threads : Lost(th[t], k) \in Calls \cup {Nil}
  BY LostMade DEF ShapeInv, TypeOK
<1>4. ASSUME NEW t \in Threads, th'[t] # Nil PROVE CallShape(th'[t])
  <2>1. th'[t] = Lost(th[t], k)
    BY <1>2
  <2>2. th[t] # Nil
    BY <1>4, <2>1 DEF Lost
  <2> QED  BY <2>1, <2>2, ShapeUse, SawShaped, TextTypes
<1>5. CallsTyped'
  BY <1>2, <1>3, <1>4 DEF CallsTyped, Shaped, CallShape
<1>6. StoresTyped'
  BY <1>1, <1>2 DEF StoresTyped, ShapeInv, TypeOK
<1> QED  BY <1>5, <1>6, ShapeParts

LEMMA ShapeInit == Init => ShapeInv
<1> SUFFICES ASSUME Init PROVE StoresTyped /\ CallsTyped
  BY ShapeParts
<1>1. StoresTyped
  BY ClusterAssumption DEF Init, StoresTyped, ClusterAssumption
<1>2. CallsTyped
  BY DEF Init, CallsTyped, Shaped
<1> QED  BY <1>1, <1>2

LEMMA ShapeStep == ShapeInv /\ [Next]_vars => ShapeInv'
<1> SUFFICES ASSUME ShapeInv, [Next]_vars PROVE ShapeInv'
  OBVIOUS
<1>1. CASE UNCHANGED vars
  BY <1>1 DEF vars, ShapeInv, TypeOK, Shaped, CallShape
<1>2. CASE Next
  <2>1. ASSUME NEW t \in Threads, Serve(t) PROVE ShapeInv'
    BY <2>1, ServeShaped
  <2>2. ASSUME NEW t \in Threads, PoolStep(t) PROVE ShapeInv'
    BY <2>2, PoolStepShaped
  <2>3. ASSUME NEW t \in Threads, MethodStep(t) PROVE ShapeInv'
    BY <2>3, MethodStepShaped
  <2>4. ASSUME NEW t \in Threads, Failure(t) PROVE ShapeInv'
    BY <2>4, FailureShaped
  <2>5. CASE MapRace
    BY <2>5, MapRaceShaped
  <2>6. ASSUME NEW k \in Keys, NEW s \in Servers, Move(k, s) PROVE ShapeInv'
    BY <2>6, MoveShaped
  <2>7. ASSUME NEW a \in late, LateSet(a) PROVE ShapeInv'
    BY <2>7, LateSetShaped
  <2> QED  BY <1>2, <2>1, <2>2, <2>3, <2>4, <2>5, <2>6, <2>7 DEF Next
<1> QED  BY <1>1, <1>2

\* Every call has the shape its step requires: a ClusterPoolGet has a key, a
\* redirected one the address it was sent to, a column a label left to ask for.
THEOREM ShapeInvariant == Spec => []ShapeInv
<1> QED  BY ShapeInit, ShapeStep, PTL DEF Spec

\* Stores, pools and calls keep their types, and the pool under an IP leads to
\* a node with that IP (RedisHelper.cpp:61-70).
THEOREM TypeCorrect == Spec => []TypeOK
<1>1. ShapeInv => TypeOK
  BY DEF ShapeInv
<1> QED  BY <1>1, ShapeInvariant, PTL

-----------------------------------------------------------------------------
(***************************************************************************)
(* What a ClusterPoolGet knows: while the slot has not moved, the address  *)
(* in a MOVED is the owner's, and so is the pool, unless nodes share an    *)
(* IP.                                                                     *)
(***************************************************************************)

Shared == \E s, r \in Servers : s # r /\ IP[s] = IP[r]

Asks(c, ow, st) ==
    /\ c.pc \in Asking \ {"got"} => st[c.key] \in c.seen
    /\ c.pc = "find" => c.moved \/ c.text.of = ow[c.key]
    /\ c.pc \in {"insert", "second"} => c.moved \/ Shared \/ c.pool = ow[c.key]
    /\ c.pc = "got" \/ (c.pc = "done" /\ c.op = "ProxyGet") =>
         \/ c.text \in c.seen
         \/ c.text.type = "moved" /\ (c.moved \/ Shared)
         \/ c.text = Error

AnswerInv == \A t \in Threads : th[t] # Nil => Asks(th[t], owner, store)

LEMMA SharedCounts == Shared => Cardinality(IPs) < Cardinality(Servers)
<1> SUFFICES ASSUME Shared PROVE Cardinality(IPs) < Cardinality(Servers)
  OBVIOUS
<1>1. PICK s \in Servers, r \in Servers : s # r /\ IP[s] = IP[r]
  BY DEF Shared
<1> DEFINE S == Servers \ {r}
           f == [x \in S |-> IP[x]]
<1>2. /\ IsFiniteSet(S) /\ Cardinality(S) = Cardinality(Servers) - 1
      /\ Cardinality(Servers) \in Nat /\ Cardinality(S) \in Nat
  BY ClusterAssumption, FS_RemoveElement, FS_CardinalityType DEF ClusterAssumption
<1>3. f \in Surjection(S, IPs)
  <2>1. f \in [S -> IPs]
    BY DEF IPs
  <2>2. ASSUME NEW ip \in IPs PROVE \E x \in S : f[x] = ip
    <3>1. PICK x \in Servers : IP[x] = ip
      BY DEF IPs
    <3>2. CASE x = r  BY <1>1, <3>1, <3>2
    <3>3. CASE x # r  BY <3>1, <3>3
    <3> QED  BY <3>2, <3>3
  <2> QED  BY <2>1, <2>2 DEF Surjection
<1> HIDE DEF f, S
<1>4. IsFiniteSet(IPs) /\ Cardinality(IPs) <= Cardinality(S)
  BY <1>2, <1>3, FS_Surjection
<1>5. Cardinality(IPs) \in Nat
  BY <1>4, FS_CardinalityType
<1> QED  BY <1>2, <1>4, <1>5

LEMMA TurnAnswers ==
    ASSUME ShapeInv, AnswerInv, NEW t \in Threads, NEW d \in Calls \cup {Nil},
           d # Nil => Asks(d, owner, store), th' = [th EXCEPT ![t] = d],
           owner' = owner, store' = store
    PROVE  AnswerInv'
<1> SUFFICES ASSUME NEW u \in Threads, th'[u] # Nil PROVE Asks(th'[u], owner', store')
  BY DEF AnswerInv
<1>1. th'[u] = IF u = t THEN d ELSE th[u]
  BY DEF ShapeInv, TypeOK
<1> QED  BY <1>1 DEF AnswerInv

LEMMA SawAnswers ==
    ASSUME TypeOK, NEW c \in Calls, CallShape(c), Asks(c, owner, store),
           NEW k \in Keys, NEW x \in Stored
    PROVE  Asks(Saw(c, k, x), owner, [store EXCEPT ![k] = x])
<1> DEFINE st == [store EXCEPT ![k] = x]
<1>2. PICK d \in Calls :
        /\ Saw(c, k, x) = d /\ SameCall(c, d) /\ d.moved = c.moved
        /\ c.key = k => d.seen = c.seen \cup {x}
        /\ c.key # k => d.seen = c.seen
  BY SawFields
<1>3. c.pc \in Asking => c.key \in Keys
  BY DEF CallShape
<1>4. c.pc \in Asking => st[c.key] = IF c.key = k THEN x ELSE store[c.key]
  BY <1>3 DEF TypeOK
<1>5. c.seen \subseteq d.seen
  BY <1>2
<1> HIDE DEF st
<1>6. d.pc \in Asking \ {"got"} => st[d.key] \in d.seen
  BY <1>2, <1>4 DEF Asks, SameCall
<1>7. Asks(d, owner, st)
  BY <1>2, <1>5, <1>6 DEF Asks, SameCall
<1> QED  BY <1>2, <1>7 DEF st

LEMMA LostAnswers ==
    ASSUME TypeOK, NEW c \in Calls, CallShape(c), Asks(c, owner, store),
           NEW k \in Keys, NEW s \in Servers
    PROVE  Asks(Lost(c, k), [owner EXCEPT ![k] = s], store)
<1> DEFINE d == Lost(c, k)
           ow == [owner EXCEPT ![k] = s]
<1>1. c # Nil /\ c \in Calls \cup {Nil}
  BY CallTypes
<1>2. SameCall(c, d) /\ d.seen = c.seen /\ (d.moved <=> c.moved \/ c.key = k)
  BY <1>1, LostMade
<1>3. c.pc \in Asking => c.key \in Keys
  BY DEF CallShape
<1>4. c.pc \in Asking => c.key = k \/ ow[c.key] = owner[c.key]
  BY <1>3 DEF TypeOK
<1> HIDE DEF d, ow
<1>5. Asks(d, ow, store)
  BY <1>2, <1>4 DEF Asks, SameCall, Asking
<1> QED  BY <1>5 DEF d, ow

LEMMA SetAnswers ==
    ASSUME ShapeInv, AnswerInv, NEW t \in Threads, NEW mine \in Calls \cup {Nil},
           mine # Nil => mine.pc = "next", NEW a \in Items, Set(t, mine, a), owner' = owner
    PROVE  AnswerInv'
<1>1. mine # Nil => \A st : Asks(mine, owner, st)
  BY DEF Asks, Asking
<1>2. a.key \in Keys /\ a.text \in Stored
  BY SetFields
<1>3. CASE /\ store' = [store EXCEPT ![a.key] = a.text]
           /\ \A u \in Threads : th'[u] = IF u = t THEN mine ELSE Saw(th[u], a.key, a.text)
  <2>1. ASSUME NEW u \in Threads, th'[u] # Nil PROVE Asks(th'[u], owner, store')
    <3>1. CASE u = t  BY <1>1, <1>3, <2>1, <3>1
    <3>2. CASE u # t
      <4>1. th'[u] = Saw(th[u], a.key, a.text)
        BY <1>3, <3>2
      <4>2. th[u] # Nil
        BY <2>1, <4>1 DEF Saw
      <4>3. th[u] \in Calls /\ CallShape(th[u]) /\ Asks(th[u], owner, store) /\ TypeOK
        BY <4>2, ShapeUse DEF AnswerInv, ShapeInv
      <4>4. Asks(Saw(th[u], a.key, a.text), owner, [store EXCEPT ![a.key] = a.text])
        BY <1>2, <4>3, SawAnswers
      <4> QED  BY <1>3, <4>1, <4>4
    <3> QED  BY <3>1, <3>2
  <2> QED  BY <2>1 DEF AnswerInv
<1>4. CASE store' = store /\ th' = [th EXCEPT ![t] = mine]
  BY <1>1, <1>4, TurnAnswers
<1> QED  BY <1>3, <1>4, SetFields

LEMMA PoolStepAnswers ==
    ASSUME ShapeInv, AnswerInv, NEW t \in Threads, PoolStep(t)
    PROVE  AnswerInv'
<1>0. owner' = owner /\ store' = store
  BY DEF PoolStep, FirstGet, FindPool, InsertPool, SecondGet, cluster
<1>1. TypeOK /\ \A c : c = th[t] /\ c # Nil => Asks(c, owner, store)
  BY DEF ShapeInv, AnswerInv
<1>n. \A c \in Calls : c # Nil
  BY CallTypes
<1>2. CASE FirstGet(t)
  <2>1. PICK c \in Calls, d \in Calls :
          /\ Turns(t, c, d) /\ CallShape(c) /\ c.pc = "first"
          /\ d.text = Reply(Home, c.key)
          /\ d.pc = (IF d.text.type = "moved" THEN "find" ELSE "got")
          /\ SameMethod(c, d) /\ SameKey(c, d)
    BY <1>2, FirstGetFields
  <2>2. Asks(c, owner, store) /\ c.key \in Keys /\ Home \in Servers
    BY <2>1, <1>1, <1>n, ClusterAssumption DEF CallShape, Asking, Turns, ClusterAssumption
  <2>3. /\ owner[c.key] = Home => d.text = store[c.key] /\ d.text.type # "moved"
        /\ owner[c.key] # Home => d.text.type = "moved" /\ d.text.of = owner[c.key]
    BY <2>1, <2>2, <1>1, ReplyTypes, TextTypes DEF TypeOK
  <2>4. Asks(d, owner, store)
    BY <2>1, <2>2, <2>3 DEF Asks, SameKey, SameMethod, Asking
  <2> QED  BY <2>1, <2>4, <1>0, TurnAnswers DEF Turns
<1>3. CASE FindPool(t)
  <2>1. PICK c \in Calls, d \in Calls : \E s \in Servers :
          /\ Turns(t, c, d) /\ CallShape(c) /\ c.pc = "find"
          /\ d.text = c.text /\ d.pool = s /\ d.pc \in {"insert", "second"}
          /\ c.text.of \in Servers /\ IP[s] = IP[c.text.of]
          /\ SameMethod(c, d) /\ SameKey(c, d)
    BY <1>3, FindPoolFields
  <2>2. Asks(c, owner, store)
    BY <2>1, <1>1, <1>n DEF Turns
  <2>3. Shared \/ d.pool = c.text.of
    BY <2>1 DEF Shared
  <2>4. Asks(d, owner, store)
    BY <2>1, <2>2, <2>3 DEF Asks, SameKey, SameMethod, Asking
  <2> QED  BY <2>1, <2>4, <1>0, TurnAnswers DEF Turns
<1>4. CASE InsertPool(t)
  <2>1. PICK c \in Calls, d \in Calls :
          /\ Turns(t, c, d) /\ CallShape(c) /\ c.pc = "insert" /\ d.pc = "second"
          /\ d.text = c.text /\ d.pool = c.pool
          /\ SameMethod(c, d) /\ SameKey(c, d)
    BY <1>4, InsertPoolFields
  <2>2. Asks(c, owner, store)
    BY <2>1, <1>1, <1>n DEF Turns
  <2>3. Asks(d, owner, store)
    BY <2>1, <2>2 DEF Asks, SameKey, SameMethod, Asking
  <2> QED  BY <2>1, <2>3, <1>0, TurnAnswers DEF Turns
<1>5. CASE SecondGet(t)
  <2>1. PICK c \in Calls, d \in Calls :
          /\ Turns(t, c, d) /\ CallShape(c) /\ c.pc = "second" /\ d.pc = "got"
          /\ d.text = Reply(c.pool, c.key)
          /\ SameMethod(c, d) /\ SameKey(c, d)
    BY <1>5, SecondGetFields
  <2>2. Asks(c, owner, store) /\ c.key \in Keys /\ c.pool \in Servers
    BY <2>1, <1>1, <1>n DEF Turns, CallShape, Asking
  <2>3. /\ owner[c.key] = c.pool => d.text = store[c.key]
        /\ owner[c.key] # c.pool => d.text.type = "moved"
    BY <2>1, <2>2, <1>1, ReplyTypes
  <2>4. Asks(d, owner, store)
    BY <2>1, <2>2, <2>3 DEF Asks, SameKey, SameMethod, Asking
  <2> QED  BY <2>1, <2>4, <1>0, TurnAnswers DEF Turns
<1> QED  BY <1>2, <1>3, <1>4, <1>5 DEF PoolStep

LEMMA ServeAnswers ==
    ASSUME ShapeInv, AnswerInv, NEW t \in Threads, Serve(t)
    PROVE  AnswerInv'
<1>1. ASSUME NEW k \in Keys, ProxyGet(t, k) PROVE AnswerInv'
  <2>1. PICK d \in Calls :
          /\ th' = [th EXCEPT ![t] = d]
          /\ d.op = "ProxyGet" /\ d.pc = "first" /\ d.key = k /\ d.text = None
          /\ d.seen = {store[k]} /\ ~d.moved
          /\ d.todo = <<>> /\ d.args = <<>> /\ d.sure = {} /\ d.num = 0
          /\ d.i = 0 /\ d.due = {} /\ d.ret = <<>>
    BY <1>1, ProxyGetFields, ZenonT(60)
  <2>2. Asks(d, owner, store)
    BY <2>1 DEF Asks
  <2> QED  BY <1>1, <2>1, <2>2, TurnAnswers DEF ProxyGet, cluster
<1>2. ASSUME NEW args \in Puts, ProxyPut(t, args) PROVE AnswerInv'
  <2>1. PICK d \in Calls :
          /\ d.op = "ProxyPut" /\ d.pc = "next" /\ d.todo = args /\ d.args = args
          /\ d.sure = KeysOf(args) \ OtherKeys /\ d.num = 0 /\ d.i = 0
          /\ d.due = {} /\ d.ret = <<>>
          /\ \A u \in Threads :
               th'[u] = IF u = t THEN d
                        ELSE IF th[u] = Nil THEN Nil ELSE Unsure(th[u], args)
    BY <1>2, ProxyPutFields
  <2>2. owner' = owner /\ store' = store
    BY <1>2 DEF ProxyPut, cluster
  <2>3. Asks(d, owner, store)
    BY <2>1 DEF Asks, Asking
  <2>4. ASSUME NEW u \in Threads, th[u] # Nil PROVE Asks(Unsure(th[u], args), owner, store)
    <3> DEFINE c == th[u]
               e == Unsure(c, args)
    <3>1. c \in Calls /\ Asks(c, owner, store)
      BY <2>4, ShapeUse DEF AnswerInv
    <3>2. e.pc = c.pc /\ e.text = c.text /\ e.pool = c.pool /\ SameKey(c, e) /\ e.op = c.op
      BY <3>1, UnsureMade
    <3> HIDE DEF e, c
    <3>3. Asks(e, owner, store)
      BY <3>1, <3>2 DEF Asks, SameKey
    <3> QED  BY <3>3 DEF e, c
  <2>5. ASSUME NEW u \in Threads, th'[u] # Nil PROVE Asks(th'[u], owner, store)
    BY <2>1, <2>3, <2>4, <2>5
  <2> QED  BY <2>2, <2>5 DEF AnswerInv
<1>3. ASSUME NEW n \in GetNums, ProxyGetColumn(t, n) PROVE AnswerInv'
  <2>1. PICK d \in Calls :
          /\ th' = [th EXCEPT ![t] = d]
          /\ d.op = "ProxyGetColumn" /\ d.pc = "next" /\ d.num = n /\ d.i = 0
          /\ d.due = Rows(n) /\ d.ret = <<>>
          /\ d.todo = <<>> /\ d.args = <<>> /\ d.sure = {}
    BY <1>3, ColumnFields
  <2>2. Asks(d, owner, store)
    BY <2>1 DEF Asks, Asking
  <2> QED  BY <1>3, <2>1, <2>2, TurnAnswers DEF ProxyGetColumn, cluster
<1>4. CASE Unserved(t)
  <2>1. PICK d \in Calls :
          /\ th' = [th EXCEPT ![t] = d]
          /\ d.op = "search" /\ d.pc = "done"
          /\ d.todo = <<>> /\ d.args = <<>> /\ d.sure = {} /\ d.num = 0
          /\ d.i = 0 /\ d.due = {} /\ d.ret = <<>>
    BY <1>4, UnservedFields, Zenon
  <2>2. Asks(d, owner, store)
    BY <2>1 DEF Asks, Asking
  <2> QED  BY <1>4, <2>1, <2>2, TurnAnswers DEF Unserved, cluster
<1> QED  BY <1>1, <1>2, <1>3, <1>4, AskedKeys DEF Serve

LEMMA MethodStepAnswers ==
    ASSUME ShapeInv, AnswerInv, NEW t \in Threads, MethodStep(t)
    PROVE  AnswerInv'
<1>0. owner' = owner
  BY DEF MethodStep, GetReturn, ClusterPoolPut, PutReturn, GetLabel, GotLabel, GotValue,
         ColumnReturn, Free, cluster
<1>1. /\ TypeOK
      /\ \A c \in Calls : c = th[t] => Asks(c, owner, store)
  BY CallTypes DEF ShapeInv, AnswerInv
<1>2. CASE Return(t) /\ th[t] # Nil /\ store' = store
           /\ (th[t].op = "ProxyGet" => th[t].pc = "got")
  <2>1. PICK c \in Calls, d \in Calls :
          /\ Turns(t, c, d) /\ CallShape(c) /\ d.pc = "done"
          /\ d.text = c.text /\ d.pool = c.pool
          /\ SameMethod(c, d) /\ SameKey(c, d)
    <3>1. Return(t) /\ th[t] # Nil
      BY <1>2
    <3> QED  BY <3>1, ReturnFields, Zenon
  <2>2. Asks(c, owner, store) /\ (c.op = "ProxyGet" => c.pc = "got")
    BY <2>1, <1>1, <1>2 DEF Turns
  <2>3. Asks(d, owner, store)
    BY <2>1, <2>2 DEF Asks, SameKey, SameMethod, Asking
  <2> QED  BY <1>2, <2>1, <2>3, <1>0, TurnAnswers DEF Turns
<1>3. CASE ClusterPoolPut(t)
  <2>1. PICK c \in Calls, d \in Calls : \E a \in Items :
          /\ c = th[t] /\ CallShape(c) /\ c.op = "ProxyPut" /\ c.pc = "next"
          /\ c.todo # <<>> /\ a = Head(c.todo) /\ Set(t, d, a)
          /\ d.op = c.op /\ d.pc = c.pc /\ d.args = c.args /\ d.num = c.num
          /\ d.i = c.i /\ d.due = c.due /\ d.ret = c.ret /\ d.todo = Tail(c.todo)
          /\ d.sure = IF owner[a.key] = Home THEN c.sure ELSE c.sure \ {a.key}
    BY <1>3, PutFields, Zenon
  <2>2. d.pc = "next"
    BY <2>1
  <2> QED  BY <1>0, <2>1, <2>2, SetAnswers
<1>4. CASE (GetLabel(t) \/ (GotLabel(t) /\ th[t].text # None))
  <2>1. PICK c \in Calls, d \in Calls : \E k \in Keys :
          /\ Turns(t, c, d) /\ CallShape(c) /\ c.op = "ProxyGetColumn"
          /\ c.pc = "next" \/ c.pc = "got"
          /\ c.i < c.num /\ c.num \in GetNums
          /\ c.pc = "next" => k = Label[c.i]
          /\ c.pc = "got" => c.key = Label[c.i] /\ c.text # None /\ k = Trapdoor(c.text)
          /\ d.pc = "first" /\ d.key = k /\ d.text = None /\ d.pool = Nil
          /\ d.seen = {store[k]} /\ d.moved = FALSE /\ SameMethod(c, d)
    BY <1>4, AskFields, Zenon
  <2>2. Asks(d, owner, store)
    BY <2>1 DEF Asks
  <2>3. store' = store
    BY <1>4 DEF GetLabel, GotLabel, cluster
  <2> QED  BY <2>1, <2>2, <2>3, <1>0, TurnAnswers DEF Turns
<1>5. CASE (GotValue(t) \/ (GotLabel(t) /\ th[t].text = None))
  <2>1. PICK c \in Calls, d \in Calls :
          /\ Turns(t, c, d) /\ CallShape(c) /\ c.op = "ProxyGetColumn"
          /\ d.pc = "next" /\ d.op = c.op
    BY <1>5, GoOnFields
  <2>2. Asks(d, owner, store)
    BY <2>1 DEF Asks, Asking
  <2>3. store' = store
    BY <1>5 DEF GotValue, GotLabel, cluster
  <2> QED  BY <2>1, <2>2, <2>3, <1>0, TurnAnswers DEF Turns
<1>6. CASE Free(t)
  <2>1. th' = [th EXCEPT ![t] = Nil] /\ store' = store
    BY <1>6 DEF Free, cluster
  <2> QED  BY <2>1, <1>0, TurnAnswers
<1>7. CASE GetReturn(t)
  <2>1. /\ Return(t) /\ th[t] # Nil /\ store' = store
        /\ th[t].op = "ProxyGet" => th[t].pc = "got"
    BY <1>7 DEF GetReturn, At, cluster
  <2> QED  BY <2>1, <1>2
<1>8. CASE PutReturn(t)
  <2>1. /\ Return(t) /\ th[t] # Nil /\ store' = store
        /\ th[t].op = "ProxyGet" => th[t].pc = "got"
    BY <1>8 DEF PutReturn, At, cluster
  <2> QED  BY <2>1, <1>2
<1>9. CASE ColumnReturn(t)
  <2>1. /\ Return(t) /\ th[t] # Nil /\ store' = store
        /\ th[t].op = "ProxyGet" => th[t].pc = "got"
    BY <1>9 DEF ColumnReturn, Column, At, cluster
  <2> QED  BY <2>1, <1>2
<1> QED  BY <1>3, <1>4, <1>5, <1>6, <1>7, <1>8, <1>9 DEF MethodStep

LEMMA AnswerInit == Init => AnswerInv
BY DEF Init, AnswerInv

LEMMA AnswerStep == ShapeInv /\ AnswerInv /\ [Next]_vars => AnswerInv'
<1> SUFFICES ASSUME ShapeInv, AnswerInv, [Next]_vars PROVE AnswerInv'
  OBVIOUS
<1>1. CASE UNCHANGED vars
  BY <1>1 DEF vars, AnswerInv
<1>2. ASSUME NEW t \in Threads, Failure(t) PROVE AnswerInv'
  <2>1. owner' = owner /\ store' = store
    BY <1>2 DEF Failure, GetRefused, SetRefused, CallThrows, cluster
  <2>2. CASE GetRefused(t)
    <3>1. PICK c \in Calls, d \in Calls : Turns(t, c, d) /\ d.pc = "got" /\ d.text = Error
      BY <2>2, GetRefusedFields
    <3>2. Asks(d, owner, store)
      BY <3>1 DEF Asks
    <3> QED  BY <2>1, <3>1, <3>2, TurnAnswers DEF Turns
  <2>3. CASE SetRefused(t)
    <3>1. PICK c \in Calls, d \in Calls : Turns(t, c, d) /\ c.pc = "next" /\ d.pc = c.pc
      BY <2>3, SetRefusedFields
    <3>2. Asks(d, owner, store)
      BY <3>1 DEF Asks, Asking
    <3> QED  BY <2>1, <3>1, <3>2, TurnAnswers DEF Turns
  <2>4. CASE CallThrows(t)
    BY <2>1, <2>4, TurnAnswers DEF CallThrows
  <2> QED  BY <1>2, <2>2, <2>3, <2>4 DEF Failure
<1>6. ASSUME NEW a \in late, LateSet(a) PROVE AnswerInv'
  <2>1. ASSUME NEW u \in Threads, th'[u] # Nil PROVE Asks(th'[u], owner', store')
    <3>1. /\ a.key \in Keys /\ a.text \in Stored /\ owner' = owner
          /\ \/ /\ store' = [store EXCEPT ![a.key] = a.text]
                /\ th'[u] = Saw(th[u], a.key, a.text)
             \/ store' = store /\ th'[u] = th[u]
      BY <1>6, LateSetFields DEF LateSet
    <3>2. th[u] # Nil
      BY <2>1, <3>1 DEF Saw
    <3>3. th[u] \in Calls /\ CallShape(th[u]) /\ Asks(th[u], owner, store) /\ TypeOK
      BY <3>2, ShapeUse DEF AnswerInv, ShapeInv
    <3>4. Asks(Saw(th[u], a.key, a.text), owner, [store EXCEPT ![a.key] = a.text])
      BY <3>1, <3>3, SawAnswers
    <3> QED  BY <3>1, <3>3, <3>4
  <2> QED  BY <2>1 DEF AnswerInv
<1>3. CASE MapRace
  BY <1>3 DEF MapRace, AnswerInv
<1>4. ASSUME NEW k \in Keys, NEW s \in Servers, Move(k, s) PROVE AnswerInv'
  <2>1. ASSUME NEW u \in Threads, th'[u] # Nil PROVE Asks(th'[u], owner', store')
    <3>1. th'[u] = Lost(th[u], k) /\ owner' = [owner EXCEPT ![k] = s] /\ store' = store
      BY <1>4 DEF Move
    <3>2. th[u] # Nil
      BY <2>1, <3>1 DEF Lost
    <3>3. th[u] \in Calls /\ CallShape(th[u]) /\ Asks(th[u], owner, store) /\ TypeOK
      BY <3>2, ShapeUse DEF AnswerInv, ShapeInv
    <3> QED  BY <3>1, <3>3, LostAnswers
  <2> QED  BY <2>1 DEF AnswerInv
<1>5. CASE Next
  BY <1>2, <1>3, <1>4, <1>5, <1>6, ServeAnswers, PoolStepAnswers, MethodStepAnswers DEF Next
<1> QED  BY <1>1, <1>5

THEOREM AnswerInvariant == Spec => [](ShapeInv /\ AnswerInv)
<1>1. Init => ShapeInv /\ AnswerInv
  BY ShapeInit, AnswerInit
<1>2. ShapeInv /\ AnswerInv /\ [Next]_vars => (ShapeInv /\ AnswerInv)'
  BY ShapeStep, AnswerStep
<1> QED  BY <1>1, <1>2, PTL DEF Spec

\* What ProxyGet returns its key has had during the call, or it is the text of
\* a MOVED, because the slot moved meanwhile or two nodes share an IP, or of
\* another error a node answered with (RedisHelper.cpp:48-83, TProxyCluster.cpp:43).
THEOREM AnswersAreValues == Spec => []AnswerIsValue
<1>1. ShapeInv /\ AnswerInv => AnswerIsValue
  <2> SUFFICES ASSUME ShapeInv, AnswerInv, NEW t \in Threads, At(t, "done"),
                      th[t].op = "ProxyGet"
               PROVE  \/ th[t].text \in th[t].seen
                      \/ /\ th[t].text.type = "moved"
                         /\ th[t].moved \/ Cardinality(IPs) < Cardinality(Servers)
                      \/ th[t].text = Error
    BY DEF AnswerIsValue
  <2>1. Asks(th[t], owner, store) /\ th[t].pc = "done"
    BY DEF AnswerInv, At
  <2> QED  BY <2>1, SharedCounts DEF Asks
<1> QED  BY <1>1, AnswerInvariant, PTL

-----------------------------------------------------------------------------
(***************************************************************************)
(* What a column still owes.  A row that is due lies under a label not yet *)
(* reached, or under the label the column is at, whose entry or data it is *)
(* asking for, or is in the answer already.                                *)
(***************************************************************************)

Fresh(c, row, st) ==
    c.pc \in Asking =>
        ~c.moved /\ c.seen = {st[c.key]} /\ c.key \in row.keys /\ c.text # Error

Owed(c, row, st, i) ==
    /\ RowAt(st, row, i)
    /\ \/ \E j \in DOMAIN c.ret : c.ret[j] = row.text
       \/ c.i < i
       \/ c.i = i /\ Fresh(c, row, st)

OwesDue(c, st) == \A row \in c.due : \E i \in 0 .. c.num - 1 : Owed(c, row, st, i)

ColumnInv == \A t \in Threads : th[t] # Nil => OwesDue(th[t], store)

LEMMA TurnColumn ==
    ASSUME ShapeInv, ColumnInv, NEW t \in Threads, NEW d \in Calls \cup {Nil},
           d # Nil => OwesDue(d, store), th' = [th EXCEPT ![t] = d], store' = store
    PROVE  ColumnInv'
<1> SUFFICES ASSUME NEW u \in Threads, th'[u] # Nil PROVE OwesDue(th'[u], store')
  BY DEF ColumnInv
<1>1. th'[u] = IF u = t THEN d ELSE th[u]
  BY DEF ShapeInv, TypeOK
<1> QED  BY <1>1 DEF ColumnInv

\* The keys of a row that is stored.
LEMMA RowKeys ==
    ASSUME TypeOK, NEW c \in Calls, CallShape(c), NEW row, NEW i \in 0 .. c.num - 1,
           RowAt(store, row, i)
    PROVE  /\ Label[i] \in Keys /\ store[Label[i]].of \in Keys
           /\ row.keys = {Label[i], store[Label[i]].of}
<1>1. c.num \in GetNums /\ i \in Nat /\ i < c.num
  BY CallTypes DEF CallShape
<1>2. Label[i] \in Keys
  BY <1>1, LabelTypes
<1>3. store[Label[i]] \in Texts
  BY <1>2, TextTypes DEF TypeOK
<1>4. store[Label[i]].of \in Keys
  BY <1>3, TextTypes DEF RowAt
<1> QED  BY <1>2, <1>4 DEF RowAt

\* A SET to another key, or a slot of another key that moves, leaves a row due.
LEMMA SawColumn ==
    ASSUME TypeOK, NEW c \in Calls, CallShape(c), OwesDue(c, store),
           NEW k \in Keys, NEW x \in Stored
    PROVE  OwesDue(Saw(c, k, x), [store EXCEPT ![k] = x])
<1> DEFINE st == [store EXCEPT ![k] = x]
<1>2. PICK d \in Calls :
        /\ Saw(c, k, x) = d /\ SameCall(c, d) /\ d.moved = c.moved
        /\ d.due = Undisturbed(c, k)
        /\ c.key = k => d.seen = c.seen \cup {x}
        /\ c.key # k => d.seen = c.seen
  BY SawFields
<1>3. ASSUME NEW y \in Keys, y # k PROVE st[y] = store[y]
  BY <1>3 DEF TypeOK
<1>4. c.pc \in Asking => c.key \in Keys
  BY DEF CallShape
<1> HIDE DEF st
<1>5. ASSUME NEW row \in d.due PROVE \E i \in 0 .. d.num - 1 : Owed(d, row, st, i)
  <2>1. row \in c.due /\ k \notin row.keys
    BY <1>2 DEF Undisturbed
  <2>2. PICK i \in 0 .. c.num - 1 : Owed(c, row, store, i)
    BY <2>1 DEF OwesDue
  <2>3. /\ Label[i] \in Keys /\ store[Label[i]].of \in Keys
        /\ row.keys = {Label[i], store[Label[i]].of}
    BY <2>2, RowKeys DEF Owed
  <2>4. st[Label[i]] = store[Label[i]] /\ st[store[Label[i]].of] = store[store[Label[i]].of]
    BY <1>3, <2>1, <2>3
  <2>5. RowAt(st, row, i)
    BY <2>2, <2>4 DEF Owed, RowAt
  <2>6. Fresh(c, row, store) => Fresh(d, row, st)
    BY <1>2, <1>3, <1>4, <2>1 DEF Fresh, SameCall
  <2>7. Owed(d, row, st, i)
    BY <1>2, <2>2, <2>5, <2>6 DEF Owed, SameCall
  <2>8. d.num = c.num
    BY <1>2 DEF SameCall
  <2> QED  BY <2>7, <2>8
<1>6. OwesDue(d, st)
  BY <1>5 DEF OwesDue
<1> QED  BY <1>2, <1>6 DEF st

LEMMA LostColumn ==
    ASSUME NEW c \in Calls, OwesDue(c, store), NEW k \in Keys
    PROVE  OwesDue(Lost(c, k), store)
<1> DEFINE d == Lost(c, k)
<1>1. c # Nil /\ c \in Calls \cup {Nil}
  BY CallTypes
<1>2. /\ SameCall(c, d) /\ d.seen = c.seen /\ d.due = Undisturbed(c, k)
      /\ d.moved <=> c.moved \/ c.key = k
  BY <1>1, LostMade
<1> HIDE DEF d
<1>3. ASSUME NEW row \in d.due PROVE \E i \in 0 .. d.num - 1 : Owed(d, row, store, i)
  <2>1. row \in c.due /\ k \notin row.keys
    BY <1>2, <1>3 DEF Undisturbed
  <2>2. PICK i \in 0 .. c.num - 1 : Owed(c, row, store, i)
    BY <2>1 DEF OwesDue
  <2>3. Fresh(c, row, store) => Fresh(d, row, store)
    BY <1>2, <2>1 DEF Fresh, SameCall
  <2>4. Owed(d, row, store, i)
    BY <1>2, <2>2, <2>3 DEF Owed, SameCall
  <2>5. d.num = c.num
    BY <1>2 DEF SameCall
  <2> QED  BY <2>4, <2>5
<1>4. OwesDue(d, store)
  BY <1>3 DEF OwesDue
<1> QED  BY <1>4 DEF d

LEMMA SetColumn ==
    ASSUME ShapeInv, ColumnInv, NEW t \in Threads, NEW mine \in Calls \cup {Nil},
           mine # Nil => mine.due = {}, NEW a \in Items, Set(t, mine, a)
    PROVE  ColumnInv'
<1>1. mine # Nil => \A st : OwesDue(mine, st)
  BY DEF OwesDue
<1>2. a.key \in Keys /\ a.text \in Stored
  BY SetFields
<1>3. CASE /\ store' = [store EXCEPT ![a.key] = a.text]
           /\ \A u \in Threads : th'[u] = IF u = t THEN mine ELSE Saw(th[u], a.key, a.text)
  <2>1. ASSUME NEW u \in Threads, th'[u] # Nil PROVE OwesDue(th'[u], store')
    <3>1. CASE u = t  BY <1>1, <1>3, <2>1, <3>1
    <3>2. CASE u # t
      <4>1. th'[u] = Saw(th[u], a.key, a.text)
        BY <1>3, <3>2
      <4>2. th[u] # Nil
        BY <2>1, <4>1 DEF Saw
      <4>3. th[u] \in Calls /\ CallShape(th[u]) /\ OwesDue(th[u], store) /\ TypeOK
        BY <4>2, ShapeUse DEF ColumnInv, ShapeInv
      <4>4. OwesDue(Saw(th[u], a.key, a.text), [store EXCEPT ![a.key] = a.text])
        BY <1>2, <4>3, SawColumn
      <4> QED  BY <1>3, <4>1, <4>4
    <3> QED  BY <3>1, <3>2
  <2> QED  BY <2>1 DEF ColumnInv
<1>4. CASE store' = store /\ th' = [th EXCEPT ![t] = mine]
  BY <1>1, <1>4, TurnColumn
<1> QED  BY <1>3, <1>4, SetFields

\* A step that stays with its label and key, or ends the call.
LEMMA SameColumn ==
    ASSUME NEW c \in Calls, NEW d \in Calls, OwesDue(c, store), SameMethod(c, d),
           SameKey(c, d), d.pc \in Asking => c.pc \in Asking,
           d.text # Error \/ d.text = c.text
    PROVE  OwesDue(d, store)
<1> SUFFICES ASSUME NEW row \in c.due PROVE \E i \in 0 .. c.num - 1 : Owed(d, row, store, i)
  BY DEF OwesDue, SameMethod
<1>1. PICK i \in 0 .. c.num - 1 : Owed(c, row, store, i)
  BY DEF OwesDue
<1>2. Fresh(c, row, store) => Fresh(d, row, store)
  BY DEF Fresh, SameKey
<1>3. Owed(d, row, store, i)
  BY <1>1, <1>2 DEF Owed, SameMethod
<1> QED  BY <1>3

LEMMA PoolStepColumn ==
    ASSUME ShapeInv, ColumnInv, NEW t \in Threads, PoolStep(t)
    PROVE  ColumnInv'
<1>0. store' = store
  BY DEF PoolStep, FirstGet, FindPool, InsertPool, SecondGet, cluster
<1>1. \A c \in Calls : c = th[t] => OwesDue(c, store)
  BY CallTypes DEF ColumnInv
<1>3. PICK c \in Calls, d \in Calls : /\ Turns(t, c, d) /\ c.pc \in Asking
                                      /\ SameMethod(c, d) /\ SameKey(c, d)
                                      /\ d.text # Error \/ d.text = c.text
  BY PoolStepFields
<1>4. OwesDue(c, store)
  BY <1>1, <1>3 DEF Turns
<1>5. OwesDue(d, store)
  BY <1>3, <1>4, SameColumn
<1> QED  BY <1>0, <1>3, <1>5, TurnColumn DEF Turns

\* A row whose GET was refused is not due; what is left is owed as before.
LEMMA GetRefusedColumn ==
    ASSUME ShapeInv, ColumnInv, NEW t \in Threads, GetRefused(t)
    PROVE  ColumnInv'
<1>1. PICK c \in Calls, d \in Calls :
        /\ Turns(t, c, d) /\ CallShape(c) /\ c.pc \in Asking
        /\ d.pc = "got" /\ d.text = Error /\ SameKey(c, d)
        /\ d.op = c.op /\ d.todo = c.todo /\ d.args = c.args /\ d.sure = c.sure
        /\ d.num = c.num /\ d.i = c.i /\ d.ret = c.ret
        /\ d.due = Undisturbed(c, c.key)
  BY GetRefusedFields
<1>2. OwesDue(c, store)
  BY <1>1, CallTypes DEF ColumnInv, Turns
<1>3. ASSUME NEW row \in d.due PROVE \E i \in 0 .. d.num - 1 : Owed(d, row, store, i)
  <2>1. row \in c.due /\ c.key \notin row.keys
    BY <1>1 DEF Undisturbed
  <2>2. PICK i \in 0 .. c.num - 1 : Owed(c, row, store, i)
    BY <1>2, <2>1 DEF OwesDue
  <2>3. ~Fresh(c, row, store)
    BY <1>1, <2>1 DEF Fresh
  <2>4. Owed(d, row, store, i)
    BY <1>1, <2>2, <2>3 DEF Owed
  <2> QED  BY <1>1, <2>4
<1>4. OwesDue(d, store)
  BY <1>3 DEF OwesDue
<1>5. store' = store
  BY DEF GetRefused, cluster
<1> QED  BY <1>1, <1>4, <1>5, TurnColumn DEF Turns

LEMMA ServeColumn ==
    ASSUME ShapeInv, ColumnInv, NEW t \in Threads, Serve(t)
    PROVE  ColumnInv'
<1>1. ASSUME NEW k \in Keys, ProxyGet(t, k) PROVE ColumnInv'
  <2>1. PICK d \in Calls :
          /\ th' = [th EXCEPT ![t] = d]
          /\ d.op = "ProxyGet" /\ d.pc = "first" /\ d.key = k /\ d.text = None
          /\ d.seen = {store[k]} /\ ~d.moved
          /\ d.todo = <<>> /\ d.args = <<>> /\ d.sure = {} /\ d.num = 0
          /\ d.i = 0 /\ d.due = {} /\ d.ret = <<>>
    BY <1>1, ProxyGetFields, ZenonT(60)
  <2>2. OwesDue(d, store)
    BY <2>1 DEF OwesDue
  <2> QED  BY <1>1, <2>1, <2>2, TurnColumn DEF ProxyGet, cluster
<1>2. ASSUME NEW args \in Puts, ProxyPut(t, args) PROVE ColumnInv'
  <2>1. PICK d \in Calls :
          /\ d.op = "ProxyPut" /\ d.pc = "next" /\ d.todo = args /\ d.args = args
          /\ d.sure = KeysOf(args) \ OtherKeys /\ d.num = 0 /\ d.i = 0
          /\ d.due = {} /\ d.ret = <<>>
          /\ \A u \in Threads :
               th'[u] = IF u = t THEN d
                        ELSE IF th[u] = Nil THEN Nil ELSE Unsure(th[u], args)
    BY <1>2, ProxyPutFields
  <2>2. store' = store
    BY <1>2 DEF ProxyPut, cluster
  <2>3. OwesDue(d, store)
    BY <2>1 DEF OwesDue
  <2>4. ASSUME NEW u \in Threads, th[u] # Nil PROVE OwesDue(Unsure(th[u], args), store)
    <3> DEFINE c == th[u]
               e == Unsure(c, args)
    <3>1. c \in Calls /\ OwesDue(c, store)
      BY <2>4, ShapeUse DEF ColumnInv
    <3>2. /\ e.pc = c.pc /\ SameKey(c, e) /\ e.num = c.num /\ e.i = c.i
          /\ e.due = c.due /\ e.ret = c.ret /\ e.text = c.text
      BY <3>1, UnsureMade
    <3> HIDE DEF e, c
    <3>3. \A row, i : Owed(c, row, store, i) => Owed(e, row, store, i)
      BY <3>2 DEF Owed, Fresh, SameKey
    <3>4. OwesDue(e, store)
      BY <3>1, <3>2, <3>3 DEF OwesDue
    <3> QED  BY <3>4 DEF e, c
  <2>5. ASSUME NEW u \in Threads, th'[u] # Nil PROVE OwesDue(th'[u], store)
    BY <2>1, <2>3, <2>4, <2>5
  <2> QED  BY <2>2, <2>5 DEF ColumnInv
<1>3. ASSUME NEW n \in GetNums, ProxyGetColumn(t, n) PROVE ColumnInv'
  <2>1. PICK d \in Calls :
          /\ th' = [th EXCEPT ![t] = d]
          /\ d.op = "ProxyGetColumn" /\ d.pc = "next" /\ d.num = n /\ d.i = 0
          /\ d.due = Rows(n) /\ d.ret = <<>>
          /\ d.todo = <<>> /\ d.args = <<>> /\ d.sure = {}
    BY <1>3, ColumnFields
  <2>2. ASSUME NEW row \in Rows(n) PROVE \E i \in 0 .. n - 1 : Owed(d, row, store, i)
    <3>1. PICK i \in 0 .. n - 1 : RowAt(store, row, i)
      BY RowsAre DEF ShapeInv
    <3>2. d.i < i \/ d.i = i
      BY <2>1, ClusterAssumption DEF ClusterAssumption
    <3>3. Fresh(d, row, store)
      BY <2>1 DEF Fresh, Asking
    <3> QED  BY <3>1, <3>2, <3>3 DEF Owed
  <2>3. OwesDue(d, store)
    BY <2>1, <2>2 DEF OwesDue
  <2> QED  BY <1>3, <2>1, <2>3, TurnColumn DEF ProxyGetColumn, cluster
<1>4. CASE Unserved(t)
  <2>1. PICK d \in Calls :
          /\ th' = [th EXCEPT ![t] = d]
          /\ d.op = "search" /\ d.pc = "done"
          /\ d.todo = <<>> /\ d.args = <<>> /\ d.sure = {} /\ d.num = 0
          /\ d.i = 0 /\ d.due = {} /\ d.ret = <<>>
    BY <1>4, UnservedFields, Zenon
  <2>2. OwesDue(d, store)
    BY <2>1 DEF OwesDue
  <2> QED  BY <1>4, <2>1, <2>2, TurnColumn DEF Unserved, cluster
<1> QED  BY <1>1, <1>2, <1>3, <1>4, AskedKeys DEF Serve

\* The answer the column has come back with is the text of its key, if the
\* slot has not moved and no two nodes share an IP.
LEMMA GotFresh ==
    ASSUME ~Shared, NEW c \in Calls, CallShape(c), Asks(c, owner, store), c.pc = "got",
           NEW row, Fresh(c, row, store)
    PROVE  c.text = store[c.key] /\ c.key \in row.keys
BY DEF Asks, Fresh, Asking

\* A new ClusterPoolGet: for the label itself, or for what it leads to.
LEMMA AskColumn ==
    ASSUME ShapeInv, AnswerInv, ColumnInv, ~Shared, NEW t \in Threads,
           \/ GetLabel(t)
           \/ GotLabel(t) /\ th[t].text # None
    PROVE  ColumnInv'
<1>1. PICK c \in Calls, d \in Calls : \E k \in Keys :
        /\ Turns(t, c, d) /\ CallShape(c) /\ c.op = "ProxyGetColumn"
        /\ c.pc = "next" \/ c.pc = "got"
        /\ c.i < c.num /\ c.num \in GetNums
        /\ c.pc = "next" => k = Label[c.i]
        /\ c.pc = "got" => c.key = Label[c.i] /\ c.text # None /\ k = Trapdoor(c.text)
        /\ d.pc = "first" /\ d.key = k /\ d.text = None /\ d.pool = Nil
        /\ d.seen = {store[k]} /\ d.moved = FALSE /\ SameMethod(c, d)
  BY AskFields, Zenon
<1>2. OwesDue(c, store) /\ Asks(c, owner, store)
  BY <1>1, CallTypes DEF ColumnInv, AnswerInv, Turns
<1>6. None # Error
  BY TextTypes
<1>3. ASSUME NEW row \in c.due PROVE \E i \in 0 .. c.num - 1 : Owed(d, row, store, i)
  <2>1. PICK i \in 0 .. c.num - 1 : Owed(c, row, store, i)
    BY <1>2 DEF OwesDue
  <2>2. RowAt(store, row, i)
    BY <2>1 DEF Owed
  <2>3. CASE c.i = i /\ Fresh(c, row, store)
    <3>1. d.key \in row.keys
      <4>1. CASE c.pc = "next"
        BY <1>1, <2>2, <2>3, <4>1 DEF RowAt
      <4>2. CASE c.pc = "got"
        <5>1. c.text = store[Label[i]]
          BY <1>1, <1>2, <2>3, <4>2, GotFresh
        <5>2. d.key = store[Label[i]].of
          BY <1>1, <2>2, <4>2, <5>1 DEF Trapdoor, RowAt
        <5> QED  BY <2>2, <5>2 DEF RowAt
      <4> QED  BY <1>1, <4>1, <4>2
    <3>2. Fresh(d, row, store)
      BY <1>1, <1>6, <3>1 DEF Fresh
    <3>3. d.i = i
      BY <1>1, <2>3 DEF SameMethod
    <3> QED  BY <2>2, <3>2, <3>3 DEF Owed
  <2>4. CASE (\E j \in DOMAIN c.ret : c.ret[j] = row.text) \/ c.i < i
    BY <1>1, <2>2, <2>4 DEF Owed, SameMethod
  <2> QED  BY <2>1, <2>3, <2>4 DEF Owed
<1>4. OwesDue(d, store)
  BY <1>1, <1>3 DEF OwesDue, SameMethod
<1>5. store' = store
  BY DEF GetLabel, GotLabel, cluster
<1> QED  BY <1>1, <1>4, <1>5, TurnColumn DEF Turns

\* The column leaves a label: whatever was due there is in the answer.
LEMMA GoOnColumn ==
    ASSUME ShapeInv, AnswerInv, ColumnInv, ~Shared, NEW t \in Threads,
           \/ GotLabel(t) /\ th[t].text = None
           \/ GotValue(t)
    PROVE  ColumnInv'
<1>1. PICK c \in Calls, d \in Calls :
        /\ Turns(t, c, d) /\ CallShape(c) /\ c.op = "ProxyGetColumn" /\ c.pc = "got"
        /\ c.i < c.num /\ c.num \in GetNums
        /\ c.key = Label[c.i] => c.text = None
        /\ d.pc = "next" /\ d.i = c.i + 1 /\ d.op = c.op /\ d.num = c.num
        /\ d.todo = c.todo /\ d.args = c.args /\ d.sure = c.sure /\ d.due = c.due
        /\ d.ret = IF c.text = None THEN c.ret ELSE Append(c.ret, c.text)
  BY GoOnFields
<1>2. OwesDue(c, store) /\ Asks(c, owner, store)
  BY <1>1, CallTypes DEF ColumnInv, AnswerInv, Turns
<1>3. c.ret \in Seq(Texts) /\ c.text \in Texts /\ c.i \in Nat
  BY <1>1, CallTypes
<1>4. ASSUME NEW j \in DOMAIN c.ret PROVE j \in DOMAIN d.ret /\ d.ret[j] = c.ret[j]
  BY <1>1, <1>3
<1>5. c.text # None => \E j \in DOMAIN d.ret : d.ret[j] = c.text
  <2>1. CASE c.text # None
    <3>1. d.ret = Append(c.ret, c.text)  BY <1>1, <2>1
    <3>2. Len(c.ret) + 1 \in DOMAIN d.ret /\ d.ret[Len(c.ret) + 1] = c.text
      BY <1>3, <3>1
    <3> QED  BY <3>2
  <2> QED  BY <2>1
<1>6. None.type = "none"
  BY DEF None, Text
<1>7. ASSUME NEW row \in c.due PROVE \E i \in 0 .. c.num - 1 : Owed(d, row, store, i)
  <2>1. PICK i \in 0 .. c.num - 1 : Owed(c, row, store, i)
    BY <1>2 DEF OwesDue
  <2>2. RowAt(store, row, i)
    BY <2>1 DEF Owed
  <2>3. CASE c.i = i /\ Fresh(c, row, store)
    <3>1. c.text = store[c.key] /\ c.key \in row.keys
      BY <1>1, <1>2, <2>3, GotFresh
    <3>2. c.key # Label[i]
      BY <1>1, <1>6, <2>2, <2>3, <3>1 DEF RowAt
    <3>3. c.key = store[Label[i]].of
      BY <2>2, <3>1, <3>2 DEF RowAt
    <3>4. c.text = row.text /\ c.text # None
      BY <1>6, <2>2, <3>1, <3>3 DEF RowAt
    <3> QED  BY <1>5, <2>2, <3>4 DEF Owed
  <2>4. CASE \E j \in DOMAIN c.ret : c.ret[j] = row.text
    BY <1>4, <2>2, <2>4 DEF Owed
  <2>5. CASE c.i < i
    <3>1. d.i < i \/ d.i = i
      BY <1>1, <1>3, <2>5
    <3>2. Fresh(d, row, store)
      BY <1>1 DEF Fresh, Asking
    <3> QED  BY <2>2, <3>1, <3>2 DEF Owed
  <2> QED  BY <2>1, <2>3, <2>4, <2>5 DEF Owed
<1>8. OwesDue(d, store)
  BY <1>1, <1>7 DEF OwesDue
<1>9. store' = store
  BY DEF GotLabel, GotValue, cluster
<1> QED  BY <1>1, <1>8, <1>9, TurnColumn DEF Turns

LEMMA MethodStepColumn ==
    ASSUME ShapeInv, AnswerInv, ColumnInv, ~Shared, NEW t \in Threads, MethodStep(t)
    PROVE  ColumnInv'
<1>1. CASE Return(t) /\ th[t] # Nil /\ store' = store
  <2>1. PICK c \in Calls, d \in Calls :
          /\ Turns(t, c, d) /\ CallShape(c) /\ d.pc = "done"
          /\ d.text = c.text /\ d.pool = c.pool
          /\ SameMethod(c, d) /\ SameKey(c, d)
    <3>1. Return(t) /\ th[t] # Nil
      BY <1>1
    <3> QED  BY <3>1, ReturnFields, Zenon
  <2>2. OwesDue(c, store)
    BY <2>1, CallTypes DEF ColumnInv, Turns
  <2>3. OwesDue(d, store)
    BY <2>1, <2>2, SameColumn DEF Asking
  <2> QED  BY <1>1, <2>1, <2>3, TurnColumn DEF Turns
<1>2. CASE ClusterPoolPut(t)
  <2>1. PICK c \in Calls, d \in Calls : \E a \in Items :
          /\ c = th[t] /\ CallShape(c) /\ c.op = "ProxyPut" /\ c.pc = "next"
          /\ c.todo # <<>> /\ a = Head(c.todo) /\ Set(t, d, a)
          /\ d.op = c.op /\ d.pc = c.pc /\ d.args = c.args /\ d.num = c.num
          /\ d.i = c.i /\ d.due = c.due /\ d.ret = c.ret /\ d.todo = Tail(c.todo)
          /\ d.sure = IF owner[a.key] = Home THEN c.sure ELSE c.sure \ {a.key}
    BY <1>2, PutFields, Zenon
  <2>2. d.due = {}
    BY <2>1 DEF CallShape
  <2> QED  BY <2>1, <2>2, SetColumn
<1>3. CASE Free(t)
  <2>1. th' = [th EXCEPT ![t] = Nil] /\ store' = store
    BY <1>3 DEF Free, cluster
  <2> QED  BY <2>1, TurnColumn
<1>4. CASE GetReturn(t) \/ PutReturn(t) \/ ColumnReturn(t)
  <2>1. Return(t) /\ th[t] # Nil /\ store' = store
    BY <1>4 DEF GetReturn, PutReturn, ColumnReturn, Column, At, cluster
  <2> QED  BY <2>1, <1>1
<1>5. CASE GetLabel(t)
  BY <1>5, AskColumn
<1>6. CASE GotLabel(t)
  BY <1>6, AskColumn, GoOnColumn
<1>7. CASE GotValue(t)
  BY <1>7, GoOnColumn
<1> QED  BY <1>2, <1>3, <1>4, <1>5, <1>6, <1>7 DEF MethodStep

LEMMA ColumnStep ==
    ASSUME ~Shared
    PROVE  ShapeInv /\ AnswerInv /\ ColumnInv /\ [Next]_vars => ColumnInv'
<1> SUFFICES ASSUME ShapeInv, AnswerInv, ColumnInv, [Next]_vars PROVE ColumnInv'
  OBVIOUS
<1>1. CASE UNCHANGED vars
  BY <1>1 DEF vars, ColumnInv
<1>2. ASSUME NEW t \in Threads, Failure(t) PROVE ColumnInv'
  <2>1. store' = store
    BY <1>2 DEF Failure, GetRefused, SetRefused, CallThrows, cluster
  <2>2. CASE GetRefused(t)
    BY <2>2, GetRefusedColumn
  <2>3. CASE SetRefused(t)
    <3>1. PICK c \in Calls, d \in Calls :
            /\ Turns(t, c, d) /\ CallShape(c) /\ c.op = "ProxyPut" /\ d.due = c.due
      BY <2>3, SetRefusedFields
    <3>2. OwesDue(d, store)
      BY <3>1 DEF OwesDue, CallShape
    <3> QED  BY <2>1, <3>1, <3>2, TurnColumn DEF Turns
  <2>4. CASE CallThrows(t)
    BY <2>1, <2>4, TurnColumn DEF CallThrows
  <2> QED  BY <1>2, <2>2, <2>3, <2>4 DEF Failure
<1>6. ASSUME NEW a \in late, LateSet(a) PROVE ColumnInv'
  <2>1. ASSUME NEW u \in Threads, th'[u] # Nil PROVE OwesDue(th'[u], store')
    <3>1. /\ a.key \in Keys /\ a.text \in Stored
          /\ \/ /\ store' = [store EXCEPT ![a.key] = a.text]
                /\ th'[u] = Saw(th[u], a.key, a.text)
             \/ store' = store /\ th'[u] = th[u]
      BY <1>6, LateSetFields
    <3>2. th[u] # Nil
      BY <2>1, <3>1 DEF Saw
    <3>3. th[u] \in Calls /\ CallShape(th[u]) /\ OwesDue(th[u], store) /\ TypeOK
      BY <3>2, ShapeUse DEF ColumnInv, ShapeInv
    <3>4. OwesDue(Saw(th[u], a.key, a.text), [store EXCEPT ![a.key] = a.text])
      BY <3>1, <3>3, SawColumn
    <3> QED  BY <3>1, <3>3, <3>4
  <2> QED  BY <2>1 DEF ColumnInv
<1>3. CASE MapRace
  BY <1>3 DEF MapRace, ColumnInv
<1>4. ASSUME NEW k \in Keys, NEW s \in Servers, Move(k, s) PROVE ColumnInv'
  <2>1. ASSUME NEW u \in Threads, th'[u] # Nil PROVE OwesDue(th'[u], store')
    <3>1. th'[u] = Lost(th[u], k) /\ store' = store
      BY <1>4 DEF Move
    <3>2. th[u] # Nil
      BY <2>1, <3>1 DEF Lost
    <3>3. th[u] \in Calls /\ OwesDue(th[u], store)
      BY <3>2, ShapeUse DEF ColumnInv
    <3> QED  BY <3>1, <3>3, LostColumn
  <2> QED  BY <2>1 DEF ColumnInv
<1>5. CASE Next
  BY <1>2, <1>3, <1>4, <1>5, <1>6, ServeColumn, PoolStepColumn, MethodStepColumn DEF Next
<1> QED  BY <1>1, <1>5

THEOREM ColumnInvariant ==
    ASSUME ~Shared
    PROVE  Spec => [](ShapeInv /\ AnswerInv /\ ColumnInv)
<1>1. Init => ShapeInv /\ AnswerInv /\ ColumnInv
  BY ShapeInit, AnswerInit DEF Init, ColumnInv
<1>2. ShapeInv /\ AnswerInv /\ ColumnInv /\ [Next]_vars => (ShapeInv /\ AnswerInv /\ ColumnInv)'
  BY ShapeStep, AnswerStep, ColumnStep
<1> QED  BY <1>1, <1>2, PTL DEF Spec

\* If every node has an IP of its own, a column comes with every row that was
\* stored when it was asked for, that nothing has touched since and no GET of
\* which was refused, wherever it lies and whatever slots move
\* (TProxyCluster.cpp:107-157).
THEOREM ColumnsComplete ==
    ASSUME ~Shared
    PROVE  Spec => []ColumnComplete
<1>1. ShapeInv /\ ColumnInv => ColumnComplete
  <2> SUFFICES ASSUME ShapeInv, ColumnInv, NEW t \in Threads, At(t, "done"),
                      th[t].op = "ProxyGetColumn", NEW row \in th[t].due
               PROVE  \E j \in DOMAIN th[t].ret : th[t].ret[j] = row.text
    BY DEF ColumnComplete
  <2> DEFINE c == th[t]
  <2>1. c \in Calls /\ CallShape(c) /\ c.pc = "done"
    BY AtUse
  <2>2. PICK i \in 0 .. c.num - 1 : Owed(c, row, store, i)
    BY <2>1, ShapeUse, CallTypes DEF ColumnInv, OwesDue
  <2>3. c.i = c.num /\ c.num \in Nat
    BY <2>1, CallTypes DEF CallShape
  <2>4. ~(c.i < i) /\ c.i # i
    BY <2>3
  <2> QED  BY <2>2, <2>4 DEF Owed
<1> QED  BY <1>1, ColumnInvariant, PTL

-----------------------------------------------------------------------------
(***************************************************************************)
(* What a ProxyPut has stored.  Of the keys nobody else puts since it      *)
(* began, those it has sent hold its texts; the keys that are kept are not *)
(* on the way of any call.                                                 *)
(***************************************************************************)

Distinct(args) == \A i, j \in DOMAIN args : args[i].key = args[j].key => i = j
TextIn(args, k) == args[CHOOSE i \in DOMAIN args : args[i].key = k].text

PutOwn(c, st) ==
    /\ Distinct(c.args) /\ Distinct(c.todo)
    /\ \A i \in DOMAIN c.todo : \E j \in DOMAIN c.args : c.todo[i] = c.args[j]
    /\ \A k \in c.sure \ KeysOf(c.todo) : st[k] = TextIn(c.args, k)

PutInv ==
    /\ \A t \in Threads : th[t] # Nil => PutOwn(th[t], store)
    /\ \A t, u \in Threads : t # u /\ th[t] # Nil /\ th[u] # Nil =>
         th[t].sure \cap KeysOf(th[u].args) = {}

KeptInv ==
    \A k \in Keys : kept[k] # Nil =>
      /\ store[k] = kept[k]
      /\ \A t \in Threads : th[t] # Nil => k \notin KeysOf(th[t].todo)

\* A call without puts, and one that is as sure of its puts as before, or less.
NoPut(d) == d.todo = <<>> /\ d.args = <<>> /\ d.sure = {}
AsSure(c, d) == d.todo = c.todo /\ d.args = c.args /\ d.sure \subseteq c.sure

LEMMA NoPutOwn ==
    ASSUME NEW d, NoPut(d), NEW st
    PROVE  PutOwn(d, st) /\ KeysOf(d.args) = {} /\ KeysOf(d.todo) = {}
BY DEF NoPut, PutOwn, Distinct, KeysOf

LEMMA AsSureOwn ==
    ASSUME NEW c, NEW d, AsSure(c, d), NEW st, PutOwn(c, st)
    PROVE  PutOwn(d, st) /\ KeysOf(d.args) = KeysOf(c.args) /\ KeysOf(d.todo) = KeysOf(c.todo)
BY DEF AsSure, PutOwn

\* What is still to be sent is among the arguments, each of which has its own
\* key.
LEMMA TodoKeys ==
    ASSUME NEW c, NEW st, PutOwn(c, st)
    PROVE  /\ KeysOf(c.todo) \subseteq KeysOf(c.args)
           /\ \A i \in DOMAIN c.todo : TextIn(c.args, c.todo[i].key) = c.todo[i].text
<1>1. ASSUME NEW i \in DOMAIN c.todo
      PROVE  /\ c.todo[i].key \in KeysOf(c.args)
             /\ TextIn(c.args, c.todo[i].key) = c.todo[i].text
  <2>1. PICK j \in DOMAIN c.args : c.todo[i] = c.args[j]
    BY DEF PutOwn
  <2> DEFINE h == CHOOSE x \in DOMAIN c.args : c.args[x].key = c.todo[i].key
  <2>2. h \in DOMAIN c.args /\ c.args[h].key = c.todo[i].key
    BY <2>1
  <2> HIDE DEF h
  <2>3. h = j
    BY <2>1, <2>2 DEF PutOwn, Distinct
  <2>4. TextIn(c.args, c.todo[i].key) = c.args[h].text
    BY DEF TextIn, h
  <2> QED  BY <2>1, <2>3, <2>4 DEF KeysOf
<1> QED  BY <1>1 DEF KeysOf

LEMMA PutFrame ==
    ASSUME PutInv, KeptInv, store' = store, kept' = kept,
           \A u \in Threads : \/ th'[u] = Nil
                              \/ NoPut(th'[u])
                              \/ th[u] # Nil /\ AsSure(th[u], th'[u])
    PROVE  PutInv' /\ KeptInv'
<1>1. ASSUME NEW u \in Threads, th'[u] # Nil PROVE PutOwn(th'[u], store')
  <2>1. CASE NoPut(th'[u])  BY <2>1, NoPutOwn
  <2>2. CASE th[u] # Nil /\ AsSure(th[u], th'[u])
    BY <2>2, AsSureOwn DEF PutInv
  <2> QED  BY <1>1, <2>1, <2>2
<1>2. ASSUME NEW t \in Threads, NEW u \in Threads, t # u, th'[t] # Nil, th'[u] # Nil
      PROVE  th'[t].sure \cap KeysOf(th'[u].args) = {}
  <2>1. CASE NoPut(th'[t])  BY <2>1 DEF NoPut
  <2>2. CASE NoPut(th'[u])  BY <2>2, NoPutOwn
  <2>3. CASE th[t] # Nil /\ AsSure(th[t], th'[t]) /\ th[u] # Nil /\ AsSure(th[u], th'[u])
    <3>1. th[t].sure \cap KeysOf(th[u].args) = {}
      BY <1>2, <2>3 DEF PutInv
    <3> QED  BY <2>3, <3>1 DEF AsSure
  <2> QED  BY <1>2, <2>1, <2>2, <2>3
<1>3. ASSUME NEW k \in Keys, kept'[k] # Nil
      PROVE  /\ store'[k] = kept'[k]
             /\ \A t \in Threads : th'[t] # Nil => k \notin KeysOf(th'[t].todo)
  <2>1. /\ store[k] = kept[k]
        /\ \A t \in Threads : th[t] # Nil => k \notin KeysOf(th[t].todo)
    BY <1>3 DEF KeptInv
  <2>2. ASSUME NEW t \in Threads, th'[t] # Nil PROVE k \notin KeysOf(th'[t].todo)
    <3>1. CASE NoPut(th'[t])  BY <3>1, NoPutOwn
    <3>2. CASE th[t] # Nil /\ AsSure(th[t], th'[t])
      BY <2>1, <3>2 DEF AsSure
    <3> QED  BY <2>2, <3>1, <3>2
  <2> QED  BY <2>1, <2>2
<1>4. PutInv'
  BY <1>1, <1>2 DEF PutInv
<1>5. KeptInv'
  BY <1>3 DEF KeptInv
<1> QED  BY <1>4, <1>5

\* A step of one call that puts nothing.
LEMMA TurnPut ==
    ASSUME ShapeInv, PutInv, KeptInv, store' = store, kept' = kept, NEW t \in Threads,
           NEW d \in Calls \cup {Nil}, th' = [th EXCEPT ![t] = d],
           d = Nil \/ NoPut(d) \/ (th[t] # Nil /\ AsSure(th[t], d))
    PROVE  PutInv' /\ KeptInv'
<1>1. \A u \in Threads : th'[u] = IF u = t THEN d ELSE th[u]
  BY DEF ShapeInv, TypeOK
<1>2. \A c : AsSure(c, c)
  BY DEF AsSure
<1>3. ASSUME NEW u \in Threads
      PROVE  \/ th'[u] = Nil
             \/ NoPut(th'[u])
             \/ th[u] # Nil /\ AsSure(th[u], th'[u])
  BY <1>1, <1>2
<1> QED  BY <1>3, PutFrame

\* A SET of t's next item, stored at Home or not, after which t goes on as mine.
LEMMA SetPut ==
    ASSUME ShapeInv, PutInv, KeptInv, NEW t \in Threads, th[t] # Nil, th[t].todo # <<>>,
           NEW mine \in Calls, NEW a \in Items, NEW stored \in BOOLEAN,
           stored => /\ store' = [store EXCEPT ![a.key] = a.text]
                     /\ \A u \in Threads :
                          th'[u] = IF u = t THEN mine ELSE Saw(th[u], a.key, a.text),
           ~stored => store' = store /\ th' = [th EXCEPT ![t] = mine],
           a = Head(th[t].todo), kept' = kept,
           mine.todo = Tail(th[t].todo), mine.args = th[t].args,
           mine.sure = IF stored THEN th[t].sure ELSE th[t].sure \ {a.key}
    PROVE  PutInv' /\ KeptInv'
<1> DEFINE c == th[t]
           todo == c.todo
<1>1. c \in Calls /\ PutOwn(c, store) /\ todo \in Seq(Items) /\ todo # <<>>
  BY ShapeUse, CallTypes DEF PutInv
<1>2. /\ 1 \in DOMAIN todo /\ a = todo[1]
      /\ \A i \in DOMAIN Tail(todo) : i + 1 \in DOMAIN todo /\ Tail(todo)[i] = todo[i + 1]
                                      /\ i + 1 # 1
      /\ \A i \in DOMAIN todo : i # 1 => i - 1 \in DOMAIN Tail(todo)
                                         /\ todo[i] = Tail(todo)[i - 1]
      /\ \A i, j \in DOMAIN Tail(todo) : i + 1 = j + 1 => i = j
  BY <1>1
<1>3. a.key \in Keys /\ a.text \in Stored
  BY DEF Items
<1>k. \A args, k : k \in KeysOf(args) <=> \E i \in DOMAIN args : args[i].key = k
  BY DEF KeysOf
<1>4. a.key \in KeysOf(todo) /\ KeysOf(todo) \subseteq KeysOf(c.args)
      /\ TextIn(c.args, a.key) = a.text
  <2>1. a.key \in KeysOf(todo)
    BY <1>2, <1>k
  <2>2. KeysOf(todo) \subseteq KeysOf(c.args)
    BY <1>1, TodoKeys
  <2>3. TextIn(c.args, a.key) = a.text
    BY <1>1, <1>2, TodoKeys
  <2> QED  BY <2>1, <2>2, <2>3
<1>5. /\ KeysOf(Tail(todo)) \subseteq KeysOf(todo)
      /\ \A k \in KeysOf(todo) : k = a.key \/ k \in KeysOf(Tail(todo))
  <2> DEFINE rest == Tail(todo)
  <2>1. /\ a = todo[1]
        /\ \A i \in DOMAIN rest : i + 1 \in DOMAIN todo /\ rest[i] = todo[i + 1]
        /\ \A i \in DOMAIN todo : i # 1 => i - 1 \in DOMAIN rest /\ todo[i] = rest[i - 1]
    BY <1>2
  <2> HIDE DEF rest, todo
  <2>2. ASSUME NEW k \in KeysOf(rest) PROVE k \in KeysOf(todo)
    <3>1. PICK i \in DOMAIN rest : rest[i].key = k  BY <1>k
    <3>2. i + 1 \in DOMAIN todo /\ todo[i + 1].key = k  BY <2>1, <3>1
    <3> QED  BY <1>k, <3>2
  <2>3. ASSUME NEW k \in KeysOf(todo), k # a.key PROVE k \in KeysOf(rest)
    <3>1. PICK i \in DOMAIN todo : todo[i].key = k  BY <1>k
    <3>2. i - 1 \in DOMAIN rest /\ rest[i - 1].key = k  BY <2>1, <2>3, <3>1
    <3> QED  BY <1>k, <3>2
  <2> QED  BY <2>2, <2>3 DEF rest
<1>6. /\ Distinct(Tail(todo))
      /\ \A i \in DOMAIN Tail(todo) : \E j \in DOMAIN c.args : Tail(todo)[i] = c.args[j]
  BY <1>1, <1>2, SMTT(60) DEF PutOwn, Distinct
<1>7. /\ \A k \in Keys : k # a.key => store'[k] = store[k]
      /\ stored => store'[a.key] = a.text
      /\ ~stored => store' = store
      /\ \A u \in Threads : u # t => \/ th'[u] = th[u]
                                     \/ th'[u] = Saw(th[u], a.key, a.text)
      /\ th'[t] = mine
  <2>1. store \in [Keys -> Stored] /\ th \in [Threads -> Calls \cup {Nil}]
    BY DEF ShapeInv, TypeOK
  <2> QED  BY <1>3, <2>1
<1>8. ASSUME NEW u \in Threads, u # t, th'[u] # Nil
      PROVE  /\ th[u] # Nil /\ th[u] \in Calls
             /\ th'[u].todo = th[u].todo /\ th'[u].args = th[u].args
             /\ th'[u].sure \subseteq th[u].sure
  <2>1. CASE th'[u] = th[u]
    BY <1>8, <2>1, ShapeUse
  <2>2. CASE th'[u] = Saw(th[u], a.key, a.text)
    <3>1. th[u] # Nil
      BY <1>8, <2>2 DEF Saw
    <3>2. th[u] \in Calls
      BY <3>1, ShapeUse
    <3>3. PICK d \in Calls : /\ Saw(th[u], a.key, a.text) = d /\ SameCall(th[u], d)
                             /\ d.sure = th[u].sure \ {a.key}
      BY <1>3, <3>2, SawFields
    <3> QED  BY <2>2, <3>1, <3>2, <3>3 DEF SameCall
  <2> QED  BY <1>7, <1>8, <2>1, <2>2
<1> HIDE DEF todo
<1>9. ASSUME NEW u \in Threads, th'[u] # Nil PROVE PutOwn(th'[u], store')
  <2>1. CASE u = t
    <3>1. /\ th'[u] = mine /\ mine.todo = Tail(todo) /\ mine.args = c.args
          /\ mine.sure = IF stored THEN c.sure ELSE c.sure \ {a.key}
      BY <1>7, <1>9, <2>1 DEF todo
    <3>2. c.sure \subseteq Keys
      BY <1>1, CallTypes
    <3>3. ASSUME NEW k \in mine.sure \ KeysOf(mine.todo) PROVE store'[k] = TextIn(mine.args, k)
      <4>1. CASE k = a.key
        BY <1>4, <1>7, <3>1, <3>3, <4>1
      <4>2. CASE k # a.key
        <5>1. k \in c.sure \ KeysOf(todo) /\ k \in Keys
          BY <1>5, <3>1, <3>2, <3>3, <4>2
        <5>2. store[k] = TextIn(c.args, k)
          BY <1>1, <5>1 DEF PutOwn, todo
        <5> QED  BY <1>7, <3>1, <4>2, <5>1, <5>2
      <4> QED  BY <4>1, <4>2
    <3>4. Distinct(c.args)
      BY <1>1 DEF PutOwn
    <3>5. /\ Distinct(mine.args) /\ Distinct(mine.todo)
          /\ \A i \in DOMAIN mine.todo : \E j \in DOMAIN mine.args :
               mine.todo[i] = mine.args[j]
      BY <1>6, <3>1, <3>4 DEF todo
    <3>6. PutOwn(mine, store')
      BY <3>3, <3>5 DEF PutOwn
    <3> QED  BY <3>1, <3>6
  <2>2. CASE u # t
    <3> DEFINE e == th[u]
    <3>1. /\ e # Nil /\ e \in Calls /\ th'[u].todo = e.todo /\ th'[u].args = e.args
          /\ th'[u].sure \subseteq e.sure
      BY <1>8, <1>9, <2>2
    <3>2. PutOwn(e, store) /\ e.sure \cap KeysOf(c.args) = {} /\ e.sure \subseteq Keys
      BY <2>2, <3>1, CallTypes DEF PutInv
    <3>3. a.key \notin e.sure
      BY <1>4, <3>2
    <3>4. \A k \in e.sure : store'[k] = store[k]
      BY <1>7, <3>2, <3>3
    <3> HIDE DEF e
    <3> QED  BY <3>1, <3>2, <3>4 DEF PutOwn
  <2> QED  BY <2>1, <2>2
<1>10. ASSUME NEW x \in Threads, NEW u \in Threads, x # u, th'[x] # Nil, th'[u] # Nil
       PROVE  th'[x].sure \cap KeysOf(th'[u].args) = {}
  <2>1. ASSUME NEW y \in Threads, th'[y] # Nil
        PROVE  th[y] # Nil /\ th'[y].args = th[y].args /\ th'[y].sure \subseteq th[y].sure
    <3>1. CASE y = t  BY <1>7, <2>1, <3>1
    <3>2. CASE y # t  BY <1>8, <2>1, <3>2
    <3> QED  BY <3>1, <3>2
  <2>2. th[x].sure \cap KeysOf(th[u].args) = {}
    BY <1>10, <2>1 DEF PutInv
  <2> QED  BY <1>10, <2>1, <2>2
<1>11. ASSUME NEW k \in Keys, kept'[k] # Nil
       PROVE  /\ store'[k] = kept'[k]
              /\ \A u \in Threads : th'[u] # Nil => k \notin KeysOf(th'[u].todo)
  <2>1. /\ store[k] = kept[k]
        /\ \A u \in Threads : th[u] # Nil => k \notin KeysOf(th[u].todo)
    BY <1>11 DEF KeptInv
  <2>2. k \notin KeysOf(todo)
    BY <2>1 DEF todo
  <2>3. store'[k] = kept'[k]
    BY <1>4, <1>7, <2>1, <2>2
  <2>4. ASSUME NEW u \in Threads, th'[u] # Nil PROVE k \notin KeysOf(th'[u].todo)
    <3>1. CASE u = t
      <4>1. th'[u].todo = Tail(todo)
        BY <1>7, <2>4, <3>1 DEF todo
      <4> QED  BY <1>5, <2>2, <4>1
    <3>2. CASE u # t
      BY <1>8, <2>1, <2>4, <3>2
    <3> QED  BY <3>1, <3>2
  <2> QED  BY <2>3, <2>4
<1>12. PutInv'
  BY <1>9, <1>10 DEF PutInv
<1>13. KeptInv'
  BY <1>11 DEF KeptInv
<1> QED  BY <1>12, <1>13

LEMMA ServePut ==
    ASSUME ShapeInv, PutInv, KeptInv, NEW t \in Threads, Serve(t)
    PROVE  PutInv' /\ KeptInv'
<1>1. ASSUME NEW d \in Calls, th' = [th EXCEPT ![t] = d], store' = store, kept' = kept,
             d.todo = <<>>, d.args = <<>>, d.sure = {}
      PROVE  PutInv' /\ KeptInv'
  BY <1>1, TurnPut DEF NoPut
<1>2. ASSUME NEW k \in Keys, ProxyGet(t, k) PROVE PutInv' /\ KeptInv'
  <2>1. PICK d \in Calls :
          /\ th' = [th EXCEPT ![t] = d]
          /\ d.op = "ProxyGet" /\ d.pc = "first" /\ d.key = k /\ d.text = None
          /\ d.seen = {store[k]} /\ ~d.moved
          /\ d.todo = <<>> /\ d.args = <<>> /\ d.sure = {} /\ d.num = 0
          /\ d.i = 0 /\ d.due = {} /\ d.ret = <<>>
    BY <1>2, ProxyGetFields, ZenonT(60)
  <2> QED  BY <1>1, <1>2, <2>1 DEF ProxyGet, cluster
<1>3. ASSUME NEW n \in GetNums, ProxyGetColumn(t, n) PROVE PutInv' /\ KeptInv'
  <2>1. PICK d \in Calls :
          /\ th' = [th EXCEPT ![t] = d]
          /\ d.op = "ProxyGetColumn" /\ d.pc = "next" /\ d.num = n /\ d.i = 0
          /\ d.due = Rows(n) /\ d.ret = <<>>
          /\ d.todo = <<>> /\ d.args = <<>> /\ d.sure = {}
    BY <1>3, ColumnFields
  <2> QED  BY <1>1, <1>3, <2>1 DEF ProxyGetColumn, cluster
<1>4. CASE Unserved(t)
  <2>1. PICK d \in Calls :
          /\ th' = [th EXCEPT ![t] = d]
          /\ d.op = "search" /\ d.pc = "done"
          /\ d.todo = <<>> /\ d.args = <<>> /\ d.sure = {} /\ d.num = 0
          /\ d.i = 0 /\ d.due = {} /\ d.ret = <<>>
    BY <1>4, UnservedFields, Zenon
  <2> QED  BY <1>1, <1>4, <2>1 DEF Unserved, cluster
<1>5. ASSUME NEW args \in Puts, ProxyPut(t, args) PROVE PutInv' /\ KeptInv'
  <2> DEFINE K == KeysOf(args)
  <2>1. PICK d \in Calls :
          /\ d.op = "ProxyPut" /\ d.pc = "next" /\ d.todo = args /\ d.args = args
          /\ d.sure = KeysOf(args) \ OtherKeys /\ d.num = 0 /\ d.i = 0
          /\ d.due = {} /\ d.ret = <<>>
          /\ \A u \in Threads :
               th'[u] = IF u = t THEN d
                        ELSE IF th[u] = Nil THEN Nil ELSE Unsure(th[u], args)
    BY <1>5, ProxyPutFields
  <2>2. /\ store' = store /\ K \subseteq Keys
        /\ \A k \in Keys : kept'[k] = IF k \in K THEN Nil ELSE kept[k]
    <3>1. K \subseteq Keys
      BY <1>5, ProxyPutFields
    <3>2. store' = store /\ kept' = [k \in Keys |-> IF k \in K THEN Nil ELSE kept[k]]
      BY <1>5 DEF ProxyPut, cluster
    <3> HIDE DEF K
    <3> QED  BY <3>1, <3>2
  <2>3. PutOwn(d, store)
    <3>1. Distinct(args)
      BY ClusterAssumption DEF ClusterAssumption, Distinct
    <3>2. d.sure \ KeysOf(d.todo) = {}
      BY <2>1
    <3> QED  BY <2>1, <3>1, <3>2 DEF PutOwn
  <2>4. ASSUME NEW u \in Threads, u # t, th'[u] # Nil
        PROVE  /\ th[u] # Nil /\ AsSure(th[u], th'[u])
               /\ th'[u].sure = th[u].sure \ K
    <3>1. th[u] # Nil /\ th'[u] = Unsure(th[u], args)
      BY <2>1, <2>4
    <3>2. LET e == Unsure(th[u], args) IN
          /\ e.todo = th[u].todo /\ e.args = th[u].args
          /\ e.sure = th[u].sure \ KeysOf(args)
      BY <3>1, ShapeUse, UnsureMade
    <3> QED  BY <3>1, <3>2 DEF AsSure
  <2>5. ASSUME NEW u \in Threads, th'[u] # Nil PROVE PutOwn(th'[u], store')
    <3>1. CASE u = t  BY <2>1, <2>2, <2>3, <3>1
    <3>2. CASE u # t
      BY <2>2, <2>4, <2>5, <3>2, AsSureOwn DEF PutInv
    <3> QED  BY <3>1, <3>2
  <2>6. ASSUME NEW u \in Threads, th[u] # Nil PROVE KeysOf(th[u].args) \subseteq OtherKeys
    BY <2>6 DEF OtherKeys
  <2>7. ASSUME NEW x \in Threads, NEW u \in Threads, x # u, th'[x] # Nil, th'[u] # Nil
        PROVE  th'[x].sure \cap KeysOf(th'[u].args) = {}
    <3>1. CASE x = t
      <4>1. th[u] # Nil /\ th'[u].args = th[u].args /\ th'[x].sure = K \ OtherKeys
        BY <2>1, <2>4, <2>7, <3>1 DEF AsSure
      <4> QED  BY <2>6, <4>1
    <3>2. CASE x # t /\ u = t
      <4>1. th'[x].sure = th[x].sure \ K /\ th'[u].args = args
        BY <2>1, <2>4, <2>7, <3>2
      <4> QED  BY <4>1
    <3>3. CASE x # t /\ u # t
      <4>1. /\ th[x] # Nil /\ th[u] # Nil /\ th'[u].args = th[u].args
            /\ th'[x].sure \subseteq th[x].sure
        BY <2>4, <2>7, <3>3 DEF AsSure
      <4>2. th[x].sure \cap KeysOf(th[u].args) = {}
        BY <2>7, <4>1 DEF PutInv
      <4> QED  BY <4>1, <4>2
    <3> QED  BY <2>7, <3>1, <3>2, <3>3
  <2>8. ASSUME NEW k \in Keys, kept'[k] # Nil
        PROVE  /\ store'[k] = kept'[k]
               /\ \A u \in Threads : th'[u] # Nil => k \notin KeysOf(th'[u].todo)
    <3>1. k \notin K /\ kept'[k] = kept[k] /\ kept[k] # Nil
      BY <2>2, <2>8
    <3>2. /\ store[k] = kept[k]
          /\ \A u \in Threads : th[u] # Nil => k \notin KeysOf(th[u].todo)
      BY <3>1 DEF KeptInv
    <3>3. ASSUME NEW u \in Threads, th'[u] # Nil PROVE k \notin KeysOf(th'[u].todo)
      <4>1. CASE u = t  BY <2>1, <3>1, <4>1
      <4>2. CASE u # t  BY <2>4, <3>2, <3>3, <4>2 DEF AsSure
      <4> QED  BY <4>1, <4>2
    <3> QED  BY <2>2, <3>1, <3>2, <3>3
  <2>9. PutInv'
    BY <2>5, <2>7 DEF PutInv
  <2>10. KeptInv'
    BY <2>8 DEF KeptInv
  <2> QED  BY <2>9, <2>10
<1> QED  BY <1>2, <1>3, <1>4, <1>5, AskedKeys DEF Serve

\* What ProxyPut leaves behind when it returns.
LEMMA PutReturnPut ==
    ASSUME ShapeInv, PutInv, KeptInv, NEW t \in Threads, PutReturn(t)
    PROVE  PutInv' /\ KeptInv'
<1>1. Return(t) /\ th[t] # Nil /\ th[t].todo = <<>> /\ store' = store
  BY DEF PutReturn, At, cluster
<1>2. PICK c \in Calls, d \in Calls :
        /\ Turns(t, c, d) /\ CallShape(c) /\ d.pc = "done"
        /\ d.text = c.text /\ d.pool = c.pool
        /\ SameMethod(c, d) /\ SameKey(c, d)
  <2>1. Return(t) /\ th[t] # Nil
    BY <1>1
  <2> QED  BY <2>1, ReturnFields, Zenon
<1>3. /\ c = th[t] /\ c.todo = <<>> /\ PutOwn(c, store)
      /\ d.todo = c.todo /\ d.args = c.args /\ d.sure = c.sure
  BY <1>1, <1>2 DEF Turns, SameMethod, PutInv
<1>4. ASSUME NEW u \in Threads, th'[u] # Nil
      PROVE  th[u] # Nil /\ th'[u].todo = th[u].todo /\ th'[u].args = th[u].args
             /\ th'[u].sure = th[u].sure
  <2>1. th'[u] = IF u = t THEN d ELSE th[u]
    BY <1>2 DEF Turns, ShapeInv, TypeOK
  <2> QED  BY <1>1, <1>3, <1>4, <2>1
<1>5. PutInv'
  <2>1. ASSUME NEW u \in Threads, th'[u] # Nil PROVE PutOwn(th'[u], store')
    <3>1. PutOwn(th[u], store) /\ AsSure(th[u], th'[u])
      BY <1>4, <2>1 DEF PutInv, AsSure
    <3> QED  BY <1>1, <3>1, AsSureOwn
  <2>2. ASSUME NEW x \in Threads, NEW u \in Threads, x # u, th'[x] # Nil, th'[u] # Nil
        PROVE  th'[x].sure \cap KeysOf(th'[u].args) = {}
    BY <1>4, <2>2 DEF PutInv
  <2> QED  BY <2>1, <2>2 DEF PutInv
<1>6. ASSUME NEW k \in Keys
      PROVE  kept'[k] = IF k \notin c.sure THEN kept[k] ELSE TextIn(c.args, k)
  BY <1>3 DEF PutReturn, TextIn
<1>7. KeysOf(c.todo) = {}
  BY <1>3 DEF KeysOf
<1>8. ASSUME NEW k \in Keys, kept'[k] # Nil
      PROVE  /\ store'[k] = kept'[k]
             /\ \A u \in Threads : th'[u] # Nil => k \notin KeysOf(th'[u].todo)
  <2>1. CASE k \in c.sure
    <3>1. kept'[k] = TextIn(c.args, k) /\ store[k] = TextIn(c.args, k)
      BY <1>3, <1>6, <1>7, <2>1 DEF PutOwn
    <3>2. ASSUME NEW u \in Threads, th'[u] # Nil PROVE k \notin KeysOf(th'[u].todo)
      <4>1. CASE u = t
        BY <1>3, <1>4, <1>7, <3>2, <4>1
      <4>2. CASE u # t
        <5>1. /\ th[u] # Nil /\ th'[u].todo = th[u].todo /\ PutOwn(th[u], store)
              /\ c.sure \cap KeysOf(th[u].args) = {}
          BY <1>1, <1>3, <1>4, <3>2, <4>2 DEF PutInv
        <5>2. KeysOf(th[u].todo) \subseteq KeysOf(th[u].args)
          BY <5>1, TodoKeys
        <5> QED  BY <2>1, <5>1, <5>2
      <4> QED  BY <4>1, <4>2
    <3> QED  BY <1>1, <3>1, <3>2
  <2>2. CASE k \notin c.sure
    <3>1. kept'[k] = kept[k]
      BY <1>6, <2>2
    <3> QED  BY <1>1, <1>4, <1>8, <3>1 DEF KeptInv
  <2> QED  BY <2>1, <2>2
<1>9. KeptInv'
  BY <1>8 DEF KeptInv
<1> QED  BY <1>5, <1>9

LEMMA PoolStepPut ==
    ASSUME ShapeInv, PutInv, KeptInv, NEW t \in Threads, PoolStep(t)
    PROVE  PutInv' /\ KeptInv'
<1>1. store' = store /\ kept' = kept
  BY DEF PoolStep, FirstGet, FindPool, InsertPool, SecondGet, cluster
<1>2. PICK c \in Calls, d \in Calls : /\ Turns(t, c, d) /\ c.pc \in Asking
                                     /\ SameMethod(c, d) /\ SameKey(c, d)
  BY PoolStepFields
<1>3. th[t] # Nil /\ AsSure(th[t], d) /\ th' = [th EXCEPT ![t] = d]
  BY <1>2, CallTypes DEF Turns, SameMethod, AsSure
<1> QED  BY <1>1, <1>3, TurnPut

LEMMA MethodStepPut ==
    ASSUME ShapeInv, PutInv, KeptInv, NEW t \in Threads, MethodStep(t)
    PROVE  PutInv' /\ KeptInv'
<1>1. ASSUME NEW c \in Calls, NEW d \in Calls, Turns(t, c, d), AsSure(c, d),
             store' = store, kept' = kept
      PROVE  PutInv' /\ KeptInv'
  <2>1. th[t] # Nil /\ AsSure(th[t], d) /\ th' = [th EXCEPT ![t] = d]
    BY <1>1, CallTypes DEF Turns
  <2> QED  BY <1>1, <2>1, TurnPut
<1>2. CASE GetReturn(t) \/ ColumnReturn(t)
  <2>1. Return(t) /\ th[t] # Nil /\ store' = store /\ kept' = kept
    BY <1>2 DEF GetReturn, ColumnReturn, Column, At, cluster
  <2>2. PICK c \in Calls, d \in Calls :
          /\ Turns(t, c, d) /\ CallShape(c) /\ d.pc = "done"
          /\ d.text = c.text /\ d.pool = c.pool
          /\ SameMethod(c, d) /\ SameKey(c, d)
    <3>1. Return(t) /\ th[t] # Nil
      BY <2>1
    <3> QED  BY <3>1, ReturnFields, Zenon
  <2>3. AsSure(c, d)
    BY <2>2 DEF SameMethod, AsSure
  <2> QED  BY <1>1, <2>1, <2>2, <2>3
<1>3. CASE ClusterPoolPut(t)
  <2>1. PICK c \in Calls, d \in Calls : \E a \in Items :
          /\ c = th[t] /\ CallShape(c) /\ c.op = "ProxyPut" /\ c.pc = "next"
          /\ c.todo # <<>> /\ a = Head(c.todo) /\ Set(t, d, a)
          /\ d.op = c.op /\ d.pc = c.pc /\ d.args = c.args /\ d.num = c.num
          /\ d.i = c.i /\ d.due = c.due /\ d.ret = c.ret /\ d.todo = Tail(c.todo)
          /\ d.sure = IF owner[a.key] = Home THEN c.sure ELSE c.sure \ {a.key}
    BY <1>3, PutFields, Zenon
  <2>2. kept' = kept /\ th[t] # Nil
    BY <1>3 DEF ClusterPoolPut, At
  <2>3. PICK a \in Items :
          /\ c = th[t] /\ c.todo # <<>> /\ a = Head(c.todo) /\ Set(t, d, a)
          /\ d.args = c.args /\ d.todo = Tail(c.todo)
          /\ d.sure = IF owner[a.key] = Home THEN c.sure ELSE c.sure \ {a.key}
    BY <2>1
  <2>4. \/ /\ owner[a.key] = Home /\ store' = [store EXCEPT ![a.key] = a.text]
           /\ \A u \in Threads : th'[u] = IF u = t THEN d ELSE Saw(th[u], a.key, a.text)
        \/ owner[a.key] # Home /\ store' = store /\ th' = [th EXCEPT ![t] = d]
    BY <2>3, SetFields
  <2> DEFINE stored == owner[a.key] = Home
  <2>5. /\ stored \in BOOLEAN /\ d.sure = IF stored THEN c.sure ELSE c.sure \ {a.key}
        /\ stored => /\ store' = [store EXCEPT ![a.key] = a.text]
                     /\ \A u \in Threads :
                          th'[u] = IF u = t THEN d ELSE Saw(th[u], a.key, a.text)
        /\ ~stored => store' = store /\ th' = [th EXCEPT ![t] = d]
    BY <2>3, <2>4
  <2> HIDE DEF stored
  <2>6. /\ th[t] # Nil /\ th[t].todo # <<>> /\ a = Head(th[t].todo) /\ kept' = kept
        /\ d.todo = Tail(th[t].todo) /\ d.args = th[t].args
        /\ d.sure = IF stored THEN th[t].sure ELSE th[t].sure \ {a.key}
    BY <2>2, <2>3, <2>5
  <2> QED  BY <2>5, <2>6, SetPut, ZenonT(60)
<1>4. CASE PutReturn(t)
  BY <1>4, PutReturnPut
<1>5. CASE GetLabel(t) \/ (GotLabel(t) /\ th[t].text # None)
  <2>1. PICK c \in Calls, d \in Calls : \E k \in Keys :
          /\ Turns(t, c, d) /\ CallShape(c) /\ c.op = "ProxyGetColumn"
          /\ c.pc = "next" \/ c.pc = "got"
          /\ c.i < c.num /\ c.num \in GetNums
          /\ c.pc = "next" => k = Label[c.i]
          /\ c.pc = "got" => c.key = Label[c.i] /\ c.text # None /\ k = Trapdoor(c.text)
          /\ d.pc = "first" /\ d.key = k /\ d.text = None /\ d.pool = Nil
          /\ d.seen = {store[k]} /\ d.moved = FALSE /\ SameMethod(c, d)
    BY <1>5, AskFields, Zenon
  <2>2. AsSure(c, d)
    BY <2>1 DEF SameMethod, AsSure
  <2>3. store' = store /\ kept' = kept
    BY <1>5 DEF GetLabel, GotLabel, cluster
  <2> QED  BY <1>1, <2>1, <2>2, <2>3
<1>6. CASE GotValue(t) \/ (GotLabel(t) /\ th[t].text = None)
  <2>1. PICK c \in Calls, d \in Calls :
          /\ Turns(t, c, d)
          /\ d.todo = c.todo /\ d.args = c.args /\ d.sure = c.sure
    BY <1>6, GoOnFields
  <2>2. AsSure(c, d)
    BY <2>1 DEF AsSure
  <2>3. store' = store /\ kept' = kept
    BY <1>6 DEF GotLabel, GotValue, cluster
  <2> QED  BY <1>1, <2>1, <2>2, <2>3
<1>7. CASE Free(t)
  <2>1. th' = [th EXCEPT ![t] = Nil] /\ store' = store /\ kept' = kept
    BY <1>7 DEF Free, cluster
  <2> QED  BY <2>1, TurnPut
<1> QED  BY <1>2, <1>3, <1>4, <1>5, <1>6, <1>7 DEF MethodStep

\* After a late SET nobody is sure of its key, and nothing is kept under it.
LEMMA LateSetPut ==
    ASSUME ShapeInv, PutInv, KeptInv, NEW a \in late, LateSet(a)
    PROVE  PutInv' /\ KeptInv'
<1>1. CASE store' = store /\ th' = th /\ kept' = kept
  BY <1>1 DEF PutInv, KeptInv
<1>2. CASE /\ store' = [store EXCEPT ![a.key] = a.text]
           /\ \A u \in Threads : th'[u] = Saw(th[u], a.key, a.text)
           /\ kept' = [kept EXCEPT ![a.key] = Nil]
  <2>1. /\ a.key \in Keys /\ a.text \in Stored
        /\ store \in [Keys -> Stored] /\ kept \in [Keys -> Stored \cup {Nil}]
    BY LateSetFields DEF ShapeInv, TypeOK
  <2>2. \A k \in Keys : k # a.key => store'[k] = store[k] /\ kept'[k] = kept[k]
    BY <1>2, <2>1
  <2>3. kept'[a.key] = Nil
    BY <1>2, <2>1
  <2>4. ASSUME NEW u \in Threads, th'[u] # Nil
        PROVE  /\ th[u] # Nil /\ th[u].sure \subseteq Keys
               /\ th'[u].todo = th[u].todo /\ th'[u].args = th[u].args
               /\ th'[u].sure = th[u].sure \ {a.key}
    <3>1. th'[u] = Saw(th[u], a.key, a.text)
      BY <1>2
    <3>2. th[u] # Nil
      BY <2>4, <3>1 DEF Saw
    <3>3. th[u] \in Calls
      BY <3>2, ShapeUse
    <3>4. PICK d \in Calls : /\ Saw(th[u], a.key, a.text) = d /\ SameCall(th[u], d)
                             /\ d.sure = th[u].sure \ {a.key}
      BY <2>1, <3>3, SawFields
    <3> QED  BY <3>1, <3>2, <3>3, <3>4, CallTypes DEF SameCall
  <2>5. ASSUME NEW u \in Threads, th'[u] # Nil PROVE PutOwn(th'[u], store')
    <3>1. PutOwn(th[u], store)
      BY <2>4, <2>5 DEF PutInv
    <3>2. ASSUME NEW k \in th'[u].sure PROVE store'[k] = store[k] /\ k \in th[u].sure
      BY <2>2, <2>4, <2>5, <3>2
    <3> QED  BY <2>4, <2>5, <3>1, <3>2 DEF PutOwn
  <2>6. ASSUME NEW x \in Threads, NEW u \in Threads, x # u, th'[x] # Nil, th'[u] # Nil
        PROVE  th'[x].sure \cap KeysOf(th'[u].args) = {}
    <3>1. th[x].sure \cap KeysOf(th[u].args) = {}
      BY <2>4, <2>6 DEF PutInv
    <3> QED  BY <2>4, <2>6, <3>1
  <2>7. ASSUME NEW k \in Keys, kept'[k] # Nil
        PROVE  /\ store'[k] = kept'[k]
               /\ \A u \in Threads : th'[u] # Nil => k \notin KeysOf(th'[u].todo)
    <3>1. k # a.key /\ kept'[k] = kept[k] /\ store'[k] = store[k]
      BY <2>2, <2>3, <2>7
    <3>2. /\ store[k] = kept[k]
          /\ \A u \in Threads : th[u] # Nil => k \notin KeysOf(th[u].todo)
      BY <2>7, <3>1 DEF KeptInv
    <3> QED  BY <2>4, <3>1, <3>2
  <2>8. PutInv'
    BY <2>5, <2>6 DEF PutInv
  <2>9. KeptInv'
    BY <2>7 DEF KeptInv
  <2> QED  BY <2>8, <2>9
<1> QED  BY <1>1, <1>2, LateSetFields

LEMMA PutStep == ShapeInv /\ PutInv /\ KeptInv /\ [Next]_vars => PutInv' /\ KeptInv'
<1> SUFFICES ASSUME ShapeInv, PutInv, KeptInv, [Next]_vars PROVE PutInv' /\ KeptInv'
  OBVIOUS
<1>1. CASE UNCHANGED vars
  BY <1>1 DEF vars, PutInv, KeptInv
<1>2. ASSUME NEW t \in Threads, Failure(t) PROVE PutInv' /\ KeptInv'
  <2>1. kept' = kept /\ store' = store
    BY <1>2 DEF Failure, GetRefused, SetRefused, CallThrows, cluster
  <2>2. CASE GetRefused(t)
    <3>1. PICK c \in Calls, d \in Calls :
            Turns(t, c, d) /\ d.todo = c.todo /\ d.args = c.args /\ d.sure = c.sure
      BY <2>2, GetRefusedFields
    <3>2. th[t] # Nil /\ AsSure(th[t], d) /\ th' = [th EXCEPT ![t] = d]
      BY <3>1, CallTypes DEF Turns, AsSure
    <3> QED  BY <2>1, <3>2, TurnPut
  <2>3. CASE SetRefused(t)
    <3>1. PICK c \in Calls, d \in Calls : \E a \in Items :
            /\ Turns(t, c, d) /\ c.todo # <<>> /\ a = Head(c.todo)
            /\ d.args = c.args /\ d.todo = Tail(c.todo) /\ d.sure = c.sure \ {a.key}
      BY <2>3, SetRefusedFields
    <3>2. c = th[t] /\ th[t] # Nil /\ th' = [th EXCEPT ![t] = d]
      BY <3>1, CallTypes DEF Turns
    <3>3. FALSE \in BOOLEAN
      OBVIOUS
    <3> QED  BY <2>1, <3>1, <3>2, <3>3, SetPut, ZenonT(60)
  <2>4. CASE CallThrows(t)
    BY <2>1, <2>4, TurnPut DEF CallThrows
  <2> QED  BY <1>2, <2>2, <2>3, <2>4 DEF Failure
<1>6. ASSUME NEW a \in late, LateSet(a) PROVE PutInv' /\ KeptInv'
  BY <1>6, LateSetPut
<1>3. CASE MapRace
  <2>1. store' = store /\ kept' = kept /\ \A u \in Threads : th'[u] = Nil
    BY <1>3 DEF MapRace, cluster
  <2> QED  BY <2>1, PutFrame
<1>4. ASSUME NEW k \in Keys, NEW s \in Servers, Move(k, s) PROVE PutInv' /\ KeptInv'
  <2>1. store' = store /\ kept' = kept /\ \A u \in Threads : th'[u] = Lost(th[u], k)
    BY <1>4 DEF Move
  <2>2. ASSUME NEW u \in Threads PROVE th'[u] = Nil \/ (th[u] # Nil /\ AsSure(th[u], th'[u]))
    <3>1. CASE th[u] = Nil  BY <2>1, <3>1 DEF Lost
    <3>2. CASE th[u] # Nil
      <4>1. th[u] \in Calls \cup {Nil}
        BY <3>2, ShapeUse
      <4>2. SameCall(th[u], Lost(th[u], k)) /\ Lost(th[u], k).sure = th[u].sure
        BY <3>2, <4>1, LostMade
      <4> QED  BY <2>1, <3>2, <4>2 DEF SameCall, AsSure
    <3> QED  BY <3>1, <3>2
  <2> QED  BY <2>1, <2>2, PutFrame
<1>5. CASE Next
  BY <1>2, <1>3, <1>4, <1>5, <1>6, ServePut, PoolStepPut, MethodStepPut DEF Next
<1> QED  BY <1>1, <1>5

THEOREM PutInvariant == Spec => [](ShapeInv /\ PutInv /\ KeptInv)
<1>1. Init => ShapeInv /\ PutInv /\ KeptInv
  BY ShapeInit DEF Init, PutInv, KeptInv
<1>2. ShapeInv /\ PutInv /\ KeptInv /\ [Next]_vars => (ShapeInv /\ PutInv /\ KeptInv)'
  BY ShapeStep, PutStep
<1> QED  BY <1>1, <1>2, PTL DEF Spec

\* What a ProxyPut that returned has stored at the proxy's own node stays until
\* the next ProxyPut of the key or the late SET of one that failed, whatever
\* slots move, whatever else is refused and whoever fails
\* (TProxyCluster.cpp:76-82).
THEOREM PutsStay == Spec => []PutKept
<1>1. KeptInv => PutKept
  BY DEF KeptInv, PutKept
<1> QED  BY <1>1, PutInvariant, PTL
=============================================================================
