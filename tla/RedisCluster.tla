---------------------------- MODULE RedisCluster ----------------------------
(***************************************************************************)
(* The proxy for a Redis cluster: TProxyCluster.cpp and the cluster half   *)
(* of RedisHelper.cpp.  A thread per connection serves ProxyGet, ProxyPut  *)
(* and ProxyGetColumn, by GETs and SETs sent to the node on the proxy's    *)
(* own host.  A node that does not own a key's slot answers "MOVED ..."    *)
(* and the owner's address; a GET is then sent there, through a pool kept  *)
(* in a map by IP that all threads share without a lock.                   *)
(*                                                                         *)
(* The cluster is external: a key's slot has one owner at a time, which    *)
(* may change, and only the owner answers.  It may refuse any command      *)
(* (ASK while a slot migrates, TRYAGAIN, CLUSTERDOWN, LOADING, OOM): to    *)
(* redis3m an error is a reply like others.  A text is a record of what it *)
(* is: nothing, data, an index entry (which hides a trapdoor), MOVED or    *)
(* another error.  The proxy's search methods return an empty list.        *)
(***************************************************************************)
EXTENDS Naturals, Sequences, FiniteSets

CONSTANTS
    Threads,
    Servers, Home, \* Redis nodes, and the one the proxy opens
    IP,            \* the IP of each node
    Keys, Data,
    Label,         \* the key the label of each counter, from 0, is
    Asked,         \* the keys clients ask ProxyGet for
    GetNums,       \* numbers of rows they ask ProxyGetColumn for
    Junk,          \* the key that deciphering what is no entry leads to
    Puts,          \* arguments of ProxyPut: sequences of one or two of
                   \* trapdoor and text
    InitStores,    \* what the cluster may hold before the proxy starts
    Nil,
    MaxMove, MaxPut, \* bounds on moved slots and ProxyPuts
    MaxFail          \* and on calls that throw, commands refused and crashes

Text(type, of) == [type |-> type, of |-> of]
None == Text("none", Nil)
Error == Text("error", Nil)
\* What the cluster stores are ciphertexts: none of them reads "MOVED ...".
Stored == {None} \cup {Text("data", d) : d \in Data} \cup {Text("entry", k) : k \in Keys}
Texts == Stored \cup {Text("moved", s) : s \in Servers} \cup {Error}
IPs == {IP[s] : s \in Servers}

Items == [key : Keys \ {Junk}, text : Stored]
StoredRows == [keys : SUBSET Keys, text : Stored]
Ops == {"ProxyGet", "ProxyPut", "ProxyGetColumn", "search"}
Asking == {"first", "find", "insert", "second", "got"}
Calls == [op : Ops, pc : Asking \cup {"next", "done"}, key : Keys \cup {Nil},
          text : Texts, pool : Servers \cup {Nil}, seen : SUBSET Stored, moved : BOOLEAN,
          todo : Seq(Items), args : Seq(Items), sure : SUBSET Keys,
          num : Nat, i : Nat, due : SUBSET StoredRows, ret : Seq(Texts)]

ASSUME ClusterAssumption ==
    /\ Home \in Servers /\ IsFiniteSet(Servers)
    /\ Junk \in Keys /\ Asked \subseteq Keys
    /\ Label \in [DOMAIN Label -> Keys \ {Junk}]
    /\ GetNums \subseteq Nat /\ \A n \in GetNums : 0 .. n - 1 \subseteq DOMAIN Label
    /\ Puts \subseteq Seq(Items)
    /\ \A a \in Puts : \A i, j \in DOMAIN a : a[i].key = a[j].key => i = j
    /\ InitStores \subseteq [Keys -> Stored]
    /\ MaxMove \in Nat /\ MaxFail \in Nat /\ MaxPut \in Nat
ASSUME NilAssumption ==
    Nil \notin Keys /\ Nil \notin Servers /\ Nil \notin Texts /\ Nil \notin Calls

VARIABLES
    owner,  \* the cluster: owner of each key's slot
    store,  \* the cluster: the text under each key, at its owner
    late,   \* SETs whose caller failed, not executed
    pools,  \* m_mapPtrPool: the node the pool of each IP leads to, or Nil
    th,     \* the call each thread is serving or has just served, or Nil
    moves, fails, puts,
    kept    \* history: the text a returned ProxyPut left under a key whose
            \* slot was at Home, until the next one for that key, or until a
            \* late SET of the key is executed

cluster == <<owner, store, late>>
vars == <<owner, store, late, pools, th, moves, fails, puts, kept>>

Init ==
    /\ owner \in [Keys -> Servers]
    /\ store \in InitStores
    /\ late = {}
    /\ pools = [ip \in IPs |-> Nil]
    /\ th = [t \in Threads |-> Nil]
    /\ moves = 0 /\ fails = 0 /\ puts = 0
    /\ kept = [k \in Keys |-> Nil]

-----------------------------------------------------------------------------
\* What server s answers to a GET it does not refuse.
Reply(s, k) == IF owner[k] = s THEN store[k] ELSE Text("moved", owner[k])

At(t, pc) == th[t] # Nil /\ th[t].pc = pc

\* For the properties: what calls under way see of a key that is written or
\* whose slot moves.
Undisturbed(c, k) == {row \in c.due : k \notin row.keys}
Saw(c, k, text) ==
    IF c = Nil THEN c
    ELSE [c EXCEPT !.seen = IF c.key = k THEN @ \cup {text} ELSE @,
                   !.due = Undisturbed(c, k),
                   !.sure = @ \ {k}]
Lost(c, k) ==
    IF c = Nil THEN c
    ELSE [c EXCEPT !.moved = @ \/ c.key = k, !.due = Undisturbed(c, k)]

-----------------------------------------------------------------------------
(***************************************************************************)
(* RedisHelper::ClusterPoolGet, a step per command and per access to the   *)
(* map.                                                                    *)
(***************************************************************************)
ClusterPoolGet(c, k) ==
    [c EXCEPT !.pc = "first", !.key = k, !.text = None, !.pool = Nil,
              !.seen = {store[k]}, !.moved = FALSE]

FirstGet(t) ==
    /\ At(t, "first")
    /\ LET text == Reply(Home, th[t].key) IN
       th' = [th EXCEPT ![t].text = text,
                        ![t].pc = IF text.type = "moved" THEN "find" ELSE "got"]
    /\ UNCHANGED <<cluster, pools, moves, fails, puts, kept>>

\* Mutant: every address leads to the pool that is there already.
AnyPool(s) == IF \E ip \in IPs : pools[ip] # Nil
              THEN pools[CHOOSE ip \in IPs : pools[ip] # Nil] ELSE Nil
PoolOf(s) == pools[IP[s]]

FindPool(t) ==
    /\ At(t, "find")
    /\ LET s == PoolOf(th[t].text.of) IN
       th' = [th EXCEPT ![t].pool = IF s = Nil THEN th[t].text.of ELSE s,
                        ![t].pc = IF s = Nil THEN "insert" ELSE "second"]
    /\ UNCHANGED <<cluster, pools, moves, fails, puts, kept>>

\* Mutant: the pool is kept under the proxy's own host.
InsertAtHome(t) ==
    /\ At(t, "insert")
    /\ pools' = [pools EXCEPT ![IP[Home]] = th[t].pool]
    /\ th' = [th EXCEPT ![t].pc = "second"]
    /\ UNCHANGED <<cluster, moves, fails, puts, kept>>
\* Two threads that both found none each make a pool; the later one stays.
InsertPool(t) ==
    /\ At(t, "insert")
    /\ pools' = [pools EXCEPT ![IP[th[t].pool]] = th[t].pool]
    /\ th' = [th EXCEPT ![t].pc = "second"]
    /\ UNCHANGED <<cluster, moves, fails, puts, kept>>

\* The second answer is returned, whatever it is.
SecondGet(t) ==
    /\ At(t, "second")
    /\ th' = [th EXCEPT ![t].text = Reply(th[t].pool, th[t].key), ![t].pc = "got"]
    /\ UNCHANGED <<cluster, pools, moves, fails, puts, kept>>

\* An error that is not MOVED is not told from a value (RedisHelper.cpp:48).
GetRefused(t) ==
    LET c == th[t] IN
    /\ At(t, "first") \/ At(t, "second")
    /\ fails < MaxFail
    /\ th' = [th EXCEPT ![t] = [c EXCEPT !.text = Error, !.pc = "got",
                                        !.due = Undisturbed(c, c.key)]]
    /\ fails' = fails + 1
    /\ UNCHANGED <<cluster, pools, moves, puts, kept>>

\* The SET a thread has sent, if it has.
Sending(t) == IF th[t] = Nil \/ th[t].todo = <<>> THEN {} ELSE {Head(th[t].todo)}

\* A thread that inserts while another is in the map: undefined.  It may go
\* well (the actions above), or the process dies and is started again.
MapRace ==
    /\ fails < MaxFail
    /\ \E t, u \in Threads : /\ t # u /\ At(t, "insert")
                             /\ At(u, "insert") \/ At(u, "find")
    /\ th' = [t \in Threads |-> Nil]
    /\ pools' = [ip \in IPs |-> Nil]
    /\ late' = late \cup UNION {Sending(t) : t \in Threads}
    /\ fails' = fails + 1
    /\ UNCHANGED <<owner, store, moves, puts, kept>>

-----------------------------------------------------------------------------
(***************************************************************************)
(* The methods.  A call is kept with what the properties know of it: seen, *)
(* the texts its key has had since it was asked for; moved, whether the    *)
(* key's slot has moved since; due, the stored rows nothing has touched     *)
(* since and no GET was refused of; sure, keys nobody else puts.            *)
(***************************************************************************)
Call(op) == [op |-> op, pc |-> "next", key |-> Nil, text |-> None, pool |-> Nil,
             seen |-> {}, moved |-> FALSE, todo |-> <<>>, args |-> <<>>, sure |-> {},
             num |-> 0, i |-> 0, due |-> {}, ret |-> <<>>]
Start(t, c) == th[t] = Nil /\ th' = [th EXCEPT ![t] = c]
\* The answer is written; then the thread is free.
Return(t) == th' = [th EXCEPT ![t] = [th[t] EXCEPT !.pc = "done"]]
Free(t) ==
    /\ At(t, "done")
    /\ th' = [th EXCEPT ![t] = Nil]
    /\ UNCHANGED <<cluster, pools, moves, fails, puts, kept>>

ProxyGet(t, k) ==
    /\ Start(t, ClusterPoolGet(Call("ProxyGet"), k))
    /\ UNCHANGED <<cluster, pools, moves, fails, puts, kept>>
GetReturn(t) ==
    /\ At(t, "got") /\ th[t].op = "ProxyGet"
    /\ Return(t)
    /\ UNCHANGED <<cluster, pools, moves, fails, puts, kept>>

KeysOf(args) == {args[i].key : i \in DOMAIN args}

\* ProxyPut: the trapdoor first, then, if there is one, the index trapdoor.
ProxyPut(t, args) ==
    LET others == UNION {KeysOf(th[u].args) : u \in {u \in Threads : th[u] # Nil}} IN
    /\ th[t] = Nil /\ puts < MaxPut
    /\ th' = [u \in Threads |->
                IF u = t THEN [Call("ProxyPut") EXCEPT !.todo = args, !.args = args,
                                                       !.sure = KeysOf(args) \ others]
                ELSE IF th[u] = Nil THEN Nil
                ELSE [th[u] EXCEPT !.sure = @ \ KeysOf(args)]]
    /\ puts' = puts + 1
    /\ kept' = [k \in Keys |-> IF k \in KeysOf(args) THEN Nil ELSE kept[k]]
    /\ UNCHANGED <<cluster, pools, moves, fails>>

\* A SET at Home: elsewhere the key is not stored.
Set(t, mine, a) ==
    IF owner[a.key] = Home
    THEN /\ store' = [store EXCEPT ![a.key] = a.text]
         /\ th' = [u \in Threads |-> IF u = t THEN mine ELSE Saw(th[u], a.key, a.text)]
    ELSE /\ th' = [th EXCEPT ![t] = mine]
         /\ UNCHANGED store

\* Mutant: the index trapdoor is left out.
FirstOnly(c) == <<>>
Rest(c) == Tail(c.todo)

\* ClusterPoolPut, whose answer nobody reads: after MOVED the key is not sure.
ClusterPoolPut(t) ==
    /\ At(t, "next") /\ th[t].op = "ProxyPut" /\ th[t].todo # <<>>
    /\ LET a == Head(th[t].todo) IN
       Set(t, [th[t] EXCEPT !.todo = Rest(th[t]),
                            !.sure = IF owner[a.key] = Home THEN @ ELSE @ \ {a.key}], a)
    /\ UNCHANGED <<owner, late, pools, moves, fails, puts, kept>>

\* A SET that is refused is not told from one that is stored.
SetRefused(t) ==
    LET c == th[t] IN
    /\ At(t, "next") /\ c.op = "ProxyPut" /\ c.todo # <<>>
    /\ fails < MaxFail
    /\ th' = [th EXCEPT ![t] = [c EXCEPT !.todo = Rest(c), !.sure = @ \ {Head(c.todo).key}]]
    /\ fails' = fails + 1
    /\ UNCHANGED <<cluster, pools, moves, puts, kept>>

PutReturn(t) ==
    /\ At(t, "next") /\ th[t].op = "ProxyPut" /\ th[t].todo = <<>>
    /\ kept' = [k \in Keys |->
                  IF k \notin th[t].sure THEN kept[k]
                  ELSE LET args == th[t].args
                       IN args[CHOOSE i \in DOMAIN args : args[i].key = k].text]
    /\ Return(t)
    /\ UNCHANGED <<cluster, pools, moves, fails, puts>>

\* ProxyGetColumn: the label of each counter, and what it leads to.  The test
\* for the stop flag compares before it xors and never stops (line 124).
Rows(n) ==
    LET Entry(i) == store[Label[i]] IN
    {[keys |-> {Label[i], Entry(i).of}, text |-> store[Entry(i).of]] :
        i \in {i \in 0 .. n - 1 : /\ Entry(i).type = "entry"
                                  /\ store[Entry(i).of].type = "data"}}
ProxyGetColumn(t, GetNum) ==
    /\ Start(t, [Call("ProxyGetColumn") EXCEPT
                   !.num = GetNum, !.due = Rows(GetNum)])
    /\ UNCHANGED <<cluster, pools, moves, fails, puts, kept>>

Column(t, pc) == At(t, pc) /\ th[t].op = "ProxyGetColumn"
Continue(c) ==
    [c EXCEPT !.pc = "next", !.i = @ + 1, !.key = Nil, !.text = None, !.pool = Nil,
              !.seen = {}, !.moved = FALSE]

GetLabel(t) ==
    /\ Column(t, "next") /\ th[t].i < th[t].num
    /\ th' = [th EXCEPT ![t] = ClusterPoolGet(th[t], Label[th[t].i])]
    /\ UNCHANGED <<cluster, pools, moves, fails, puts, kept>>

\* Mutant: a label without entry ends the column.
StopAtHole(c) == [Continue(c) EXCEPT !.i = c.num]
SkipHole(c) == Continue(c)

Trapdoor(text) == IF text.type = "entry" THEN text.of ELSE Junk
GotLabel(t) ==
    LET c == th[t] IN
    /\ Column(t, "got") /\ c.key = Label[c.i]
    /\ th' = [th EXCEPT ![t] = IF c.text = None THEN SkipHole(c)
                                ELSE ClusterPoolGet(c, Trapdoor(c.text))]
    /\ UNCHANGED <<cluster, pools, moves, fails, puts, kept>>
GotValue(t) ==
    LET c == th[t] IN
    /\ Column(t, "got") /\ c.key # Label[c.i]
    /\ th' = [th EXCEPT ![t] =
                IF c.text = None THEN Continue(c)
                ELSE [Continue(c) EXCEPT !.ret = Append(@, c.text)]]
    /\ UNCHANGED <<cluster, pools, moves, fails, puts, kept>>

ColumnReturn(t) ==
    /\ Column(t, "next") /\ th[t].i = th[t].num
    /\ Return(t)
    /\ UNCHANGED <<cluster, pools, moves, fails, puts, kept>>

\* EqualSearch1 to OrderSearchPlainText: an empty list is the answer.
Unserved(t) ==
    /\ Start(t, [Call("search") EXCEPT !.pc = "done"])
    /\ UNCHANGED <<cluster, pools, moves, fails, puts, kept>>

\* A command fails too often: the method throws.  A SET may have been executed,
\* or be executed later.
CallThrows(t) ==
    /\ th[t] # Nil /\ fails < MaxFail
    /\ th[t].pc \in {"first", "second"} \/ th[t].todo # <<>>
    /\ th' = [th EXCEPT ![t] = Nil]
    /\ late' = late \cup Sending(t)
    /\ fails' = fails + 1
    /\ UNCHANGED <<owner, store, pools, moves, puts, kept>>

LateSet(a) ==
    /\ late' = late \ {a}
    /\ \/ /\ owner[a.key] = Home
          /\ store' = [store EXCEPT ![a.key] = a.text]
          /\ th' = [t \in Threads |-> Saw(th[t], a.key, a.text)]
          /\ kept' = [kept EXCEPT ![a.key] = Nil]
       \/ owner[a.key] # Home /\ UNCHANGED <<store, th, kept>>
    /\ UNCHANGED <<owner, pools, moves, fails, puts>>

\* The cluster moves a slot, and what is stored in it.
Move(k, s) ==
    /\ moves < MaxMove /\ s # owner[k]
    /\ owner' = [owner EXCEPT ![k] = s]
    /\ th' = [t \in Threads |-> Lost(th[t], k)]
    /\ moves' = moves + 1
    /\ UNCHANGED <<store, late, pools, fails, puts, kept>>

-----------------------------------------------------------------------------
Serve(t) ==
    \/ \E k \in Asked : ProxyGet(t, k)
    \/ \E a \in Puts : ProxyPut(t, a)
    \/ \E n \in GetNums : ProxyGetColumn(t, n)
    \/ Unserved(t)
PoolStep(t) == FirstGet(t) \/ FindPool(t) \/ InsertPool(t) \/ SecondGet(t)
MethodStep(t) ==
    \/ GetReturn(t) \/ ClusterPoolPut(t) \/ PutReturn(t) \/ GetLabel(t)
    \/ GotLabel(t) \/ GotValue(t) \/ ColumnReturn(t) \/ Free(t)

Failure(t) == GetRefused(t) \/ SetRefused(t) \/ CallThrows(t)

Next ==
    \/ \E t \in Threads : Serve(t) \/ PoolStep(t) \/ MethodStep(t) \/ Failure(t)
    \/ MapRace
    \/ \E a \in late : LateSet(a)
    \/ \E k \in Keys, s \in Servers : Move(k, s)

Spec == Init /\ [][Next]_vars

-----------------------------------------------------------------------------
(***************************************************************************)
(* Properties.                                                             *)
(***************************************************************************)
TypeOK ==
    /\ owner \in [Keys -> Servers] /\ store \in [Keys -> Stored]
    /\ late \subseteq Items
    /\ pools \in [IPs -> Servers \cup {Nil}]
    /\ \A ip \in IPs : pools[ip] # Nil => IP[pools[ip]] = ip
    /\ th \in [Threads -> Calls \cup {Nil}]
    /\ \A t \in Threads : th[t] # Nil =>
        th[t].i <= th[t].num /\ Len(th[t].ret) <= th[t].i
    /\ moves \in 0 .. MaxMove /\ fails \in 0 .. MaxFail /\ puts \in 0 .. MaxPut
    /\ kept \in [Keys -> Stored \cup {Nil}]

\* A ProxyGet returns a text its key had during the call, or an error: that of
\* a MOVED only if the key's slot moved meanwhile or two nodes share an IP, or
\* whatever else a node answered (RedisHelper.cpp:48-77, TProxyCluster.cpp:43).
AnswerIsValue ==
    \A t \in Threads : At(t, "done") /\ th[t].op = "ProxyGet" =>
        \/ th[t].text \in th[t].seen
        \/ /\ th[t].text.type = "moved"
           /\ th[t].moved \/ Cardinality(IPs) < Cardinality(Servers)
        \/ th[t].text = Error

\* A column comes with every row whose entry and data were stored before, on
\* whatever nodes, if nothing touched them since and none of the column's own
\* GETs of them was refused, past labels that have no entry or lead to nothing
\* or to an error (TProxyCluster.cpp:107-157).
ColumnComplete ==
    \A t \in Threads : At(t, "done") /\ th[t].op = "ProxyGetColumn" =>
        \A row \in th[t].due : \E j \in DOMAIN th[t].ret : th[t].ret[j] = row.text

\* What a ProxyPut that returned has stored at Home stays, through the slot's
\* moves and the failures of others, until the next ProxyPut of the key, or
\* until the SET of one that failed is executed late (TProxyCluster.cpp:76-82).
PutKept == \A k \in Keys : kept[k] # Nil => store[k] = kept[k]
=============================================================================
