-------------------------------- MODULE EncKV --------------------------------
(***************************************************************************)
(* The encrypted key-value store: the client library ClientCpp, the proxies*)
(* (TProxy.cpp) and the Redis server behind each proxy.                    *)
(*                                                                         *)
(* A Put stores, on the node its trapdoor is routed to, one index entry    *)
(* per requested index and then the data.  The label of an index entry is  *)
(* derived from a counter the client keeps in memory for every node and    *)
(* index stream, and a query makes every proxy walk a stream from counter  *)
(* 0 up to the first label that has no entry.  The correctness of every    *)
(* query therefore rests on the counters and the stored entries agreeing.  *)
(*                                                                         *)
(* Abstracted: a label is the tuple of what it is derived from (the PRFs   *)
(* do not collide); an entry is the record of what it hides; a ciphertext  *)
(* is its plaintext.  The Redis commands SET and GET are atomic.           *)
(*                                                                         *)
(* Redis may also refuse a command and answer with an error reply, which   *)
(* redis3m hands on like any other: nobody reads the answer of a SET, and  *)
(* that of a GET is its error text (RedisHelper.cpp:108-125).              *)
(***************************************************************************)
EXTENDS SimConHash, Sequences, FiniteSets

CONSTANTS
    Clients,      \* ClientCpp objects (one thread each)
    Writers,      \* the clients that call Put
    Readers,      \* the clients that call Get, Search, RangeQuery and GetCol
    Keys, Cols,   \* primary keys and columns of the one table
    Values,       \* column values
    FlagSets,     \* the combinations of indexes a Put may ask for
    Calls,        \* the kinds of call readers make: Kinds and "get"
    Nums,         \* uiNum arguments of GetCol
    FirstWord,    \* first word of the trapdoor of a record (Get routes by it)
    XorWord,      \* xor of the words of the trapdoor (Put routes by it)
    Nil,          \* no value
    ErrorText,    \* the text of an error reply
    MaxCtr,       \* bound on every counter
    MaxFail,      \* bound on the calls that throw
    MaxRefuse,    \* bound on the commands Redis refuses
    MaxRestart,   \* bound on the restarts of clients
    Rewrite       \* may a client Put a record again that it already Put

Kinds == {"col", "v1", "v2", "ore"}
Cmps == {"SMALL", "LARGE"}
Tds == Keys \X Cols

\* The streams of entries: the counter maps' keys. V2 has one per value.
Stream(kind, c, v) == <<kind, c, IF kind = "v2" THEN v ELSE Nil>>
Streams == ((Kinds \ {"v2"}) \X Cols \X {Nil}) \cup ({"v2"} \X Cols \X Values)

Labels == Nodes \X Streams \X (0 .. MaxCtr - 1)
Entries == [td : Tds, tag : Values \cup {Nil}, row : Nat]

\* What Put hides in an index entry: the trapdoor, the tag to compare, and
\* the counter that enters the tag's PRF, the mask or the ORE row key.
Entry(kind, td, v, i) ==
    [td |-> td, tag |-> IF kind = "col" THEN Nil ELSE v, row |-> i]

Records == [td : Tds, val : Values, kinds : SUBSET Kinds]
Puts == [td : Tds, val : Values, kinds : SUBSET Kinds, todo : SUBSET Kinds]
Hits == [td : Tds, val : Values]
ErrorRow == [td |-> Nil, val |-> ErrorText]
Rows == Hits \cup {ErrorRow}
Queries == [kind : Kinds, col : Cols, val : Nat, cmp : Cmps \cup {Nil},
            node : 0 .. NodeNum, ctr : Nat, hit : Tds \cup {Nil},
            ret : Seq(Rows), all : Seq(Rows), must : SUBSET Tds]
Gets == [td : Tds, ans : Values \cup {Nil, ErrorText}, must : Values \cup {Nil}]

ASSUME ClientAssumption == Writers \subseteq Clients /\ Readers \subseteq Clients
ASSUME DataAssumption ==
    /\ Values \subseteq Nat
    /\ FlagSets \subseteq SUBSET Kinds
    /\ Nums \subseteq Nat
    /\ FirstWord \in [Tds -> Word]
    /\ XorWord \in [Tds -> Word]
ASSUME BoundAssumption ==
    /\ MaxCtr \in Nat /\ MaxFail \in Nat /\ MaxRefuse \in Nat
    /\ MaxRestart \in Nat /\ Rewrite \in BOOLEAN
ASSUME NilAssumption ==
    /\ Nil \notin Tds \cup Values \cup Entries \cup Records \cup Puts \cup Queries \cup Gets
    /\ ErrorText \notin Values \cup {Nil}

VARIABLES
    index,      \* Redis: the entry stored under each label, by node
    data,       \* Redis: the value stored under each trapdoor, by node
    lateIndex,  \* index SETs whose caller was told of a failure, not executed
    lateData,   \* the same for data SETs
    ctr,        \* client: m_map{Column,EqualV1,EqualV2,Order}Counter
    put,        \* client: the Put it is executing
    qry,        \* client and proxies: the query it is executing
    got,        \* client: the Get it has just had answered
    fails, restarts,  \* number of throws and restarts so far
    refusals,   \* number of commands Redis refused so far
    refusedIndex, refusedData,  \* history: the SETs among them
    issued,     \* history: Puts whose data SET was sent
    acked       \* history: for each record, its last Put that returned

clientVars == <<ctr, put>>
storeVars == <<index, data, lateIndex, lateData>>
refusalVars == <<refusals, refusedIndex, refusedData>>
historyVars == <<refusalVars, issued, acked>>
vars == <<index, data, lateIndex, lateData, ctr, put, qry, got,
          fails, restarts, refusals, refusedIndex, refusedData, issued, acked>>

-----------------------------------------------------------------------------
\* The node Put sends a record and its index entries to.
PutNode(td) == Query(XorWord[td])
\* The node Get asks for it.
\* Mutant: route by the word modulo the number of nodes.
ModuloNode(td) == FirstWord[td] % NodeNum
GetNode(td) == Query(FirstWord[td])

Init ==
    /\ index = [l \in Labels |-> Nil]
    /\ data = [d \in Nodes \X Tds |-> Nil]
    /\ lateIndex = {} /\ lateData = {}
    /\ ctr = [p \in Clients |-> [s \in Nodes \X Streams |-> 0]]
    /\ put = [p \in Clients |-> Nil]
    /\ qry = [p \in Clients |-> Nil]
    /\ got = [p \in Clients |-> Nil]
    /\ fails = 0 /\ restarts = 0
    /\ refusals = 0 /\ refusedIndex = {} /\ refusedData = {}
    /\ issued = {}
    /\ acked = [td \in Tds |-> Nil]

\* A ClientCpp has one thread: one call at a time.
Idle(p) == put[p] = Nil /\ qry[p] = Nil /\ got[p] = Nil

-----------------------------------------------------------------------------
(***************************************************************************)
(* Put.  The order in which it visits the indexes is fixed by the code.    *)
(***************************************************************************)
Rank == [col |-> 1, v1 |-> 2, v2 |-> 3, ore |-> 4]
IsNext(kind, todo) == kind \in todo /\ \A k \in todo : Rank[kind] <= Rank[k]

CtrKey(w, kind) == <<PutNode(w.td), Stream(kind, w.td[2], w.val)>>
LabelOf(p, w, kind) ==
    <<PutNode(w.td), Stream(kind, w.td[2], w.val), ctr[p][CtrKey(w, kind)]>>
\* Mutant: the entry takes the counter after counting up.
CountedEntry(p, w, kind) == Entry(kind, w.td, w.val, ctr[p][CtrKey(w, kind)] + 1)
EntryOf(p, w, kind) == Entry(kind, w.td, w.val, ctr[p][CtrKey(w, kind)])

\* The two sorts of SET a Put sends.
IndexSet(p, w, kind) == [label |-> LabelOf(p, w, kind), entry |-> EntryOf(p, w, kind)]
DataKey(td) == <<PutNode(td), td>>
DataSet(w) == [label |-> DataKey(w.td), entry |-> w.val]

\* Bound on the model, not a guard of the code.
HasRoom(p, w, kind) == ctr[p][CtrKey(w, kind)] < MaxCtr

PutBegin(p, td, v, kinds) ==
    LET w == [td |-> td, val |-> v, kinds |-> kinds, todo |-> kinds] IN
    /\ p \in Writers /\ Idle(p)
    /\ Rewrite \/ acked[td] = Nil
    /\ \A k \in kinds : HasRoom(p, w, k)
    /\ put' = [put EXCEPT ![p] = w]
    /\ UNCHANGED <<storeVars, ctr, qry, got, fails, restarts, historyVars>>

\* Mutant: the counter is not counted up.
NoCountUp(p, w, kind) == ctr' = ctr
\* uiCounter = m_map...Counter[iID][...]++, before the entry is sent.
CountUp(p, w, kind) == ctr' = [ctr EXCEPT ![p][CtrKey(w, kind)] = @ + 1]

\* ProxyPut's redis SET is executed, or still is on its way.
StoreEntry(p, w, kind) ==
    /\ index' = [index EXCEPT ![LabelOf(p, w, kind)] = EntryOf(p, w, kind)]
    /\ UNCHANGED lateIndex
DelayEntry(p, w, kind) ==
    /\ lateIndex' = lateIndex \cup {IndexSet(p, w, kind)}
    /\ UNCHANGED index

\* One index: count up, then ProxyPut(label, entry), executed and answered.
PutIndex(p, kind) ==
    LET w == put[p] IN
    /\ w # Nil /\ IsNext(kind, w.todo) /\ HasRoom(p, w, kind)
    /\ StoreEntry(p, w, kind)
    /\ CountUp(p, w, kind)
    /\ put' = [put EXCEPT ![p] = [w EXCEPT !.todo = w.todo \ {kind}]]
    /\ UNCHANGED <<data, lateData, qry, got, fails, restarts, historyVars>>

Refuse ==
    /\ refusals < MaxRefuse
    /\ refusals' = refusals + 1

\* Redis refuses the SET; PoolPut drops the error reply and the Put goes on.
PutIndexRefused(p, kind) ==
    LET w == put[p] IN
    /\ w # Nil /\ IsNext(kind, w.todo) /\ HasRoom(p, w, kind)
    /\ Refuse
    /\ refusedIndex' = refusedIndex \cup {IndexSet(p, w, kind)}
    /\ CountUp(p, w, kind)
    /\ put' = [put EXCEPT ![p] = [w EXCEPT !.todo = w.todo \ {kind}]]
    /\ UNCHANGED <<storeVars, qry, got, fails, restarts, refusedData, issued, acked>>

\* Mutant: the exception takes the counter back, so that no number is wasted.
PutIndexRollsBack(p, kind) ==
    LET w == put[p] IN
    /\ w # Nil /\ IsNext(kind, w.todo) /\ HasRoom(p, w, kind)
    /\ fails < MaxFail
    /\ StoreEntry(p, w, kind) \/ DelayEntry(p, w, kind)
    /\ put' = [put EXCEPT ![p] = Nil]
    /\ fails' = fails + 1
    /\ UNCHANGED <<ctr, data, lateData, qry, got, restarts, historyVars>>

(***************************************************************************)
(* The same call, but ProxyPut throws: the transport broke, or redis3m     *)
(* gave up in the proxy, which answers with a TApplicationException.  The  *)
(* SET was executed, or it still is on its way and may be executed later   *)
(* or never.  The exception leaves Put; the counter stays counted up.      *)
(***************************************************************************)
PutIndexThrows(p, kind) ==
    LET w == put[p] IN
    /\ w # Nil /\ IsNext(kind, w.todo) /\ HasRoom(p, w, kind)
    /\ fails < MaxFail
    /\ StoreEntry(p, w, kind) \/ DelayEntry(p, w, kind)
    /\ CountUp(p, w, kind)
    /\ put' = [put EXCEPT ![p] = Nil]
    /\ fails' = fails + 1
    /\ UNCHANGED <<data, lateData, qry, got, restarts, historyVars>>

\* Mutant: the data is sent before the index entries.
AnyTime(w) == TRUE
\* All the indexes are done: only now the data is sent.
Indexed(w) == w.todo = {}

RecordOf(w) == [td |-> w.td, val |-> w.val, kinds |-> w.kinds]

\* The last call of Put: ProxyPut(trapdoor, ciphertext), executed and answered.
PutData(p) ==
    LET w == put[p] IN
    /\ w # Nil /\ Indexed(w)
    /\ data' = [data EXCEPT ![DataKey(w.td)] = w.val]
    /\ issued' = issued \cup {RecordOf(w)}
    /\ acked' = [acked EXCEPT ![w.td] = RecordOf(w)]
    /\ put' = [put EXCEPT ![p] = Nil]
    /\ UNCHANGED <<index, lateIndex, lateData, ctr, qry, got, fails, restarts, refusalVars>>

\* Redis refuses the SET, and the Put is acknowledged all the same.
PutDataRefused(p) ==
    LET w == put[p] IN
    /\ w # Nil /\ Indexed(w)
    /\ Refuse
    /\ refusedData' = refusedData \cup {DataSet(w)}
    /\ issued' = issued \cup {RecordOf(w)}
    /\ acked' = [acked EXCEPT ![w.td] = RecordOf(w)]
    /\ put' = [put EXCEPT ![p] = Nil]
    /\ UNCHANGED <<storeVars, ctr, qry, got, fails, restarts, refusedIndex>>

\* Mutant: the exception is caught and the Put reported as done.
PutDataCaught(p) ==
    LET w == put[p] IN
    /\ w # Nil /\ Indexed(w)
    /\ fails < MaxFail
    /\ lateData' = lateData \cup {DataSet(w)}
    /\ issued' = issued \cup {RecordOf(w)}
    /\ acked' = [acked EXCEPT ![w.td] = RecordOf(w)]
    /\ put' = [put EXCEPT ![p] = Nil]
    /\ fails' = fails + 1
    /\ UNCHANGED <<data, index, lateIndex, ctr, qry, got, restarts, refusalVars>>
PutDataThrows(p) ==
    LET w == put[p] IN
    /\ w # Nil /\ Indexed(w)
    /\ fails < MaxFail
    /\ \/ /\ data' = [data EXCEPT ![DataKey(w.td)] = w.val]
          /\ UNCHANGED lateData
       \/ /\ lateData' = lateData \cup {DataSet(w)}
          /\ UNCHANGED data
    /\ issued' = issued \cup {RecordOf(w)}
    /\ put' = [put EXCEPT ![p] = Nil]
    /\ fails' = fails + 1
    /\ UNCHANGED <<index, lateIndex, ctr, qry, got, restarts, refusalVars, acked>>

\* A proxy thread whose client is gone executes the SET after all.
LateIndexSet(s) ==
    /\ lateIndex' = lateIndex \ {s}
    /\ index' = [index EXCEPT ![s.label] = s.entry]
    /\ UNCHANGED <<data, lateData, ctr, put, qry, got, fails, restarts, historyVars>>

LateDataSet(s) ==
    /\ lateData' = lateData \ {s}
    /\ data' = [data EXCEPT ![s.label] = s.entry]
    /\ UNCHANGED <<index, lateIndex, ctr, put, qry, got, fails, restarts, historyVars>>

\* A client process ends, whatever it was doing, and another takes its place.
Restart(p) ==
    /\ p \in Writers /\ restarts < MaxRestart
    /\ ctr' = [ctr EXCEPT ![p] = [s \in Nodes \X Streams |-> 0]]
    /\ put' = [put EXCEPT ![p] = Nil]
    /\ qry' = [qry EXCEPT ![p] = Nil]
    /\ got' = [got EXCEPT ![p] = Nil]
    /\ restarts' = restarts + 1
    /\ UNCHANGED <<storeVars, fails, historyVars>>

-----------------------------------------------------------------------------
(***************************************************************************)
(* Get: one ProxyGet at the node the first word routes to.  got keeps the  *)
(* answer and, for the properties, the value the last answered Put stored. *)
(***************************************************************************)
Answer(p, td, ans) ==
    /\ p \in Readers /\ Idle(p) /\ "get" \in Calls
    /\ got' = [got EXCEPT ![p] =
                 [td |-> td, ans |-> ans,
                  must |-> IF acked[td] = Nil THEN Nil ELSE acked[td].val]]
    /\ UNCHANGED <<storeVars, clientVars, qry, fails, restarts, issued, acked>>

Get(p, td) == Answer(p, td, data[<<GetNode(td), td>>]) /\ UNCHANGED refusalVars

\* Redis refuses the GET: the answer is the error text.
GetRefused(p, td) ==
    Answer(p, td, ErrorText) /\ Refuse /\ UNCHANGED <<refusedIndex, refusedData>>

GetReturn(p) ==
    /\ got[p] # Nil
    /\ got' = [got EXCEPT ![p] = Nil]
    /\ UNCHANGED <<storeVars, clientVars, qry, fails, restarts, historyVars>>

-----------------------------------------------------------------------------
(***************************************************************************)
(* Search, RangeQuery and GetCol.  The client asks the nodes one after the *)
(* other; ret is the list the proxy is building, all the list the client   *)
(* has collected.  A query's val is the value searched for, the bound of a *)
(* range or, for GetCol, the number of labels each proxy is to try.        *)
(***************************************************************************)

\* What a query has to find: the meaning of the call, not the code.
Satisfies(q, v) ==
    \/ q.kind = "col"
    \/ q.kind \in {"v1", "v2"} /\ v = q.val
    \/ q.kind = "ore" /\ q.cmp = "LARGE" /\ v < q.val
    \/ q.kind = "ore" /\ q.cmp = "SMALL" /\ v > q.val

\* GetCol asks for a number of rows: only the streams it covers count.
Covers(q, td) ==
    q.kind = "col" =>
        \A w \in Writers : ctr[w][<<PutNode(td), Stream("col", q.col, Nil)>>] <= q.val

MustFind(q) ==
    {td \in Tds : /\ td[2] = q.col /\ acked[td] # Nil
                  /\ q.kind \in acked[td].kinds
                  /\ Satisfies(q, acked[td].val)
                  /\ Covers(q, td)}

Begin(p, q) ==
    /\ p \in Readers /\ Idle(p) /\ q.kind \in Calls
    /\ qry' = [qry EXCEPT ![p] = [q EXCEPT !.must = MustFind(q)]]
    /\ UNCHANGED <<storeVars, clientVars, got, fails, restarts, historyVars>>

NewQuery(kind, c, v, cmp) ==
    [kind |-> kind, col |-> c, val |-> v, cmp |-> cmp, node |-> 0, ctr |-> 0,
     hit |-> Nil, ret |-> <<>>, all |-> <<>>, must |-> {}]

Search(p, c, v, bIndexV2) ==
    Begin(p, NewQuery(IF bIndexV2 THEN "v2" ELSE "v1", c, v, Nil))
\* iCmp > 0 asks for the records below the bound: the query is the larger.
RangeQuery(p, c, iCmp, v) ==
    Begin(p, NewQuery("ore", c, v, IF iCmp > 0 THEN "LARGE" ELSE "SMALL"))
GetCol(p, c, uiNum) ==
    Begin(p, NewQuery("col", c, uiNum \div NodeNum, Nil))

\* redisHelper.PoolGet of the label at q's counter.
IndexGet(q) ==
    IF q.ctr < MaxCtr THEN index[<<q.node, Stream(q.kind, q.col, q.val), q.ctr>>]
                      ELSE Nil

\* OREHelper::CompareORE gives 1: the query is on the side of the entry's
\* value that the left ciphertext asks for, and it used the entry's row key.
\* Mutant: equal values match.
OreMatchOrEqual(cmp, x, y) == (cmp = "LARGE" /\ x >= y) \/ (cmp = "SMALL" /\ x <= y)
OreMatch(cmp, x, y) == (cmp = "LARGE" /\ x > y) \/ (cmp = "SMALL" /\ x < y)

(***************************************************************************)
(* The test a proxy makes on an entry.  ProxyGetColumn accepts every entry *)
(* (TProxy.cpp:137 compares before it xors, so its stop flag never stops). *)
(***************************************************************************)
\* Mutant: the tag is not compared.
MatchesAnyTag(q, e) == e.row = q.ctr
Matches(q, e) ==
    /\ e.row = q.ctr
    /\ \/ q.kind = "col"
       \/ q.kind \in {"v1", "v2"} /\ e.tag = q.val
       \/ q.kind = "ore" /\ OreMatch(q.cmp, q.val, e.tag)

Asked(p) == qry[p] # Nil /\ qry[p].node < NodeNum
UpdateQuery(p, q) ==
    /\ qry' = [qry EXCEPT ![p] = q]
    /\ UNCHANGED <<storeVars, clientVars, got, fails, restarts, historyVars>>

\* The loop is over: no entry at this counter, or GetNum labels tried.
\* Mutant: GetCol tries one label too many.
ExhaustedLate(q) == IF q.kind = "col" THEN q.ctr > q.val ELSE IndexGet(q) = Nil
Exhausted(q) ==
    \/ q.kind # "col" /\ IndexGet(q) = Nil
    \/ q.kind = "col" /\ q.ctr >= q.val

\* uiCounter++ at the end of every turn.
\* Mutant: the counter is only counted up after a match.
Stay(q) == q
Advance(q) == [q EXCEPT !.ctr = q.ctr + 1]

\* EqualSearch1, EqualSearch2, OrderSearch: one turn of while (true).
SearchLoop(p) ==
    LET q == qry[p] IN
    /\ Asked(p) /\ q.kind # "col" /\ q.hit = Nil /\ ~Exhausted(q)
    /\ UpdateQuery(p, IF Matches(q, IndexGet(q))
                      THEN [q EXCEPT !.hit = IndexGet(q).td]
                      ELSE Advance(q))

\* ProxyGetColumn: one turn of its for loop; a missing entry is skipped.
ColumnLoop(p) ==
    LET q == qry[p] IN
    /\ Asked(p) /\ q.kind = "col" /\ q.hit = Nil /\ ~Exhausted(q)
    /\ UpdateQuery(p, IF IndexGet(q) # Nil /\ Matches(q, IndexGet(q))
                      THEN [q EXCEPT !.hit = IndexGet(q).td]
                      ELSE Advance(q))

\* _return.push_back(strRet), unless the GET of the data gave nothing.
\* Mutant: the size of the data is not tested.
AlwaysPush(ret, td, v) == Append(ret, [td |-> td, val |-> v])
Push(ret, td, v) == IF v = Nil THEN ret ELSE Append(ret, [td |-> td, val |-> v])

\* Then the data of a matching entry, from the same Redis, if it is there.
FetchData(p) ==
    LET q == qry[p] IN
    /\ Asked(p) /\ q.hit # Nil
    /\ UpdateQuery(p, [q EXCEPT !.hit = Nil, !.ctr = q.ctr + 1,
                               !.ret = Push(q.ret, q.hit, data[<<q.node, q.hit>>])])

\* Search appends what a node found; RangeQuery and GetCol put it in front.
\* Mutant: only the last node's answer is kept.
LastOnly(q) == q.ret
Collect(q) == IF q.kind \in {"v1", "v2"} THEN q.all \o q.ret ELSE q.ret \o q.all

\* The generated recv_... clears the caller's vecRet before it fills it.
\* Mutant: vecRet is not cleared.
Uncleared(ret) == ret
Cleared(ret) == <<>>

\* The proxy returns, the client collects and asks the next node.
NodeReply(p) ==
    LET q == qry[p] IN
    /\ Asked(p) /\ q.hit = Nil /\ Exhausted(q)
    /\ UpdateQuery(p, [q EXCEPT !.node = q.node + 1, !.ctr = 0,
                                !.ret = Cleared(q.ret), !.all = Collect(q)])

QueryReturn(p) ==
    /\ qry[p] # Nil /\ qry[p].node = NodeNum
    /\ UpdateQuery(p, Nil)

(***************************************************************************)
(* Redis refuses the GET of a label.  The error text is taken for an entry,*)
(* also behind the last one: no tag in it matches, and what ProxyGetColumn *)
(* reads as a trapdoor leads to nothing, unless that GET is refused too.   *)
(* CompareORE asserts its length, or reads on behind it: the proxy may die *)
(* of that, and the query ends with an exception.                          *)
(***************************************************************************)
ScanRefused(p) ==
    LET q == qry[p] IN
    /\ Asked(p) /\ q.hit = Nil /\ refusals < MaxRefuse
    /\ q.kind = "col" => ~Exhausted(q)
    /\ \/ /\ qry' = [qry EXCEPT ![p] = Advance(q)]
          /\ refusals' = refusals + 1
       \/ /\ q.kind = "col" /\ refusals + 1 < MaxRefuse
          /\ qry' = [qry EXCEPT ![p] = [Advance(q) EXCEPT !.ret = Append(q.ret, ErrorRow)]]
          /\ refusals' = refusals + 2
       \/ /\ q.kind = "ore"
          /\ qry' = [qry EXCEPT ![p] = Nil]
          /\ refusals' = refusals + 1
    /\ UNCHANGED <<storeVars, clientVars, got, fails, restarts, refusedIndex, refusedData,
                   issued, acked>>

\* Redis refuses the GET of the data: the error text is returned as a row.
FetchRefused(p) ==
    LET q == qry[p] IN
    /\ Asked(p) /\ q.hit # Nil
    /\ Refuse
    /\ qry' = [qry EXCEPT ![p] = [q EXCEPT !.hit = Nil, !.ctr = q.ctr + 1,
                                         !.ret = Append(q.ret, ErrorRow)]]
    /\ UNCHANGED <<storeVars, clientVars, got, fails, restarts, refusedIndex, refusedData,
                   issued, acked>>

\* An exception from any of the proxies ends the query without a result.
QueryThrows(p) ==
    /\ Asked(p) /\ fails < MaxFail
    /\ qry' = [qry EXCEPT ![p] = Nil]
    /\ fails' = fails + 1
    /\ UNCHANGED <<storeVars, clientVars, got, restarts, historyVars>>

-----------------------------------------------------------------------------
PutStep(p) ==
    \/ \E td \in Tds, v \in Values, kinds \in FlagSets : PutBegin(p, td, v, kinds)
    \/ \E kind \in Kinds : PutIndex(p, kind) \/ PutIndexThrows(p, kind)
                             \/ PutIndexRefused(p, kind)
    \/ PutData(p)
    \/ PutDataThrows(p)
    \/ PutDataRefused(p)

BeginStep(p) ==
    \/ \E c \in Cols, v \in Values, bIndexV2 \in BOOLEAN : Search(p, c, v, bIndexV2)
    \/ \E c \in Cols, v \in Values, iCmp \in {-1, 1} : RangeQuery(p, c, iCmp, v)
    \/ \E c \in Cols, uiNum \in Nums : GetCol(p, c, uiNum)

ScanStep(p) ==
    SearchLoop(p) \/ ColumnLoop(p) \/ FetchData(p) \/ NodeReply(p) \/ QueryReturn(p)

GetStep(p) == (\E td \in Tds : Get(p, td) \/ GetRefused(p, td)) \/ GetReturn(p)

LateStep == (\E s \in lateIndex : LateIndexSet(s)) \/ (\E s \in lateData : LateDataSet(s))

Next ==
    \/ \E p \in Clients : \/ PutStep(p) \/ Restart(p) \/ GetStep(p)
                          \/ BeginStep(p) \/ ScanStep(p) \/ QueryThrows(p)
                          \/ ScanRefused(p) \/ FetchRefused(p)
    \/ LateStep

Spec == Init /\ [][Next]_vars

(***************************************************************************)
(* Fairness: a client that is inside a query does not stop there, and the  *)
(* proxy thread that serves it is scheduled.  Nobody has to start a call.  *)
(***************************************************************************)
FairSpec == Spec /\ \A p \in Readers : WF_vars(ScanStep(p))

-----------------------------------------------------------------------------
(***************************************************************************)
(* PROPERTIES                                                              *)
(***************************************************************************)

\* Type invariant: every variable of client, proxies and stores keeps its
\* shape, so that no step reads a label, node or record that does not exist.
TypeOK ==
    /\ index \in [Labels -> Entries \cup {Nil}]
    /\ data \in [Nodes \X Tds -> Values \cup {Nil}]
    /\ lateIndex \subseteq [label : Labels, entry : Entries]
    /\ lateData \subseteq [label : Nodes \X Tds, entry : Values]
    /\ ctr \in [Clients -> [Nodes \X Streams -> 0 .. MaxCtr]]
    /\ put \in [Clients -> Puts \cup {Nil}]
    /\ qry \in [Clients -> Queries \cup {Nil}]
    /\ \A p \in Clients : qry[p] # Nil /\ qry[p].kind = "v2" => qry[p].val \in Values
    /\ got \in [Clients -> Gets \cup {Nil}]
    /\ fails \in 0 .. MaxFail /\ restarts \in 0 .. MaxRestart
    /\ refusals \in 0 .. MaxRefuse
    /\ refusedIndex \subseteq [label : Labels, entry : Entries]
    /\ refusedData \subseteq [label : Nodes \X Tds, entry : Values]
    /\ issued \subseteq Records
    /\ acked \in [Tds -> Records \cup {Nil}]

\* Counters and store agree (one writer that never restarts): a label is used,
\* by a stored entry, by a SET still on its way or by one Redis refused,
\* exactly if its counter is below the writer's, and it is used once. So a new
\* entry never hits a used label, and the only holes in a stream are entries
\* whose ProxyPut threw or whose SET was refused.
Unstored == lateIndex \cup refusedIndex
Used(l) == index[l] # Nil \/ \E s \in Unstored : s.label = l
UsedOnce(s) == index[s.label] = Nil /\ \A t \in Unstored : t.label = s.label => t = s
CountersMatchIndex ==
    /\ \A p \in Writers, l \in Labels : Used(l) <=> l[3] < ctr[p][<<l[1], l[2]>>]
    /\ \A s \in Unstored : UsedOnce(s)
    /\ lateIndex \cap refusedIndex = {}

\* An entry, stored or on its way, names a record of its stream's column and
\* value that lives on the entry's own node, and carries the counter of its
\* label: a proxy that opens the entry finds the data in its own Redis.
WellPlaced(l, e) ==
    /\ PutNode(e.td) = l[1]
    /\ e.td[2] = l[2][2]
    /\ e.row = l[3]
    /\ l[2][1] = "v2" => e.tag = l[2][3]
EntriesWellPlaced ==
    /\ \A l \in Labels : index[l] # Nil => WellPlaced(l, index[l])
    /\ \A s \in lateIndex : WellPlaced(s.label, s.entry)

\* No Put of the single writer ever overwrites an index entry, also when calls
\* throw and SETs arrive late (ClientCpp::Put counts up before it sends).
AppendOnly == [][\A l \in Labels : index[l] # Nil => index'[l] = index[l]]_vars

\* Once Put has sent the data of a record, all the index entries it asked for
\* are stored, except those whose SET Redis itself refused (RedisHelper.cpp:119
\* does not read the answer): no failed or late call leaves others behind.
VisibleIsIndexed ==
    \A r \in issued : \A k \in r.kinds : \E i \in 0 .. MaxCtr - 1 :
        LET l == <<PutNode(r.td), Stream(k, r.td[2], r.val), i>>
            e == Entry(k, r.td, r.val, i)
        IN index[l] = e \/ [label |-> l, entry |-> e] \in refusedIndex

Members(s) == {s[i] : i \in DOMAIN s}
Found(s) == {h.td : h \in Members(s)}
Answered(p) == qry[p] # Nil /\ qry[p].node = NodeNum

\* A finished Search, RangeQuery or GetCol has found every record that matches
\* it and whose Put had returned when the query began, whatever other Puts ran
\* while the proxies were walking the streams, if nothing throws or is refused.
SearchComplete ==
    \A p \in Readers : Answered(p) => qry[p].must \subseteq Found(qry[p].all)

\* A record that no Put has indexed under another value is returned only by
\* queries its value satisfies: what a proxy opens, compares and then reads
\* belongs together, whatever Puts go on meanwhile (error texts apart).
OneValue(h) ==
    \A l \in Labels : index[l] # Nil /\ index[l].td = h.td => index[l].tag \in {h.val, Nil}
SearchSound ==
    \A p \in Readers : qry[p] # Nil =>
        \A h \in Members(qry[p].all \o qry[p].ret) \ {ErrorRow} :
            h.td[2] = qry[p].col /\ (Satisfies(qry[p], h.val) \/ ~OneValue(h))

\* Although a record that is Put again keeps the entries of its old values
\* (TProxy.cpp:218 returns whatever data the trapdoor leads to now), a query
\* returns only records that some Put has indexed under what it asks for, and
\* only values that were Put for that record, or the text of an error reply.
HitsAreIndexed ==
    \A p \in Readers : qry[p] # Nil =>
        \A h \in Members(qry[p].all \o qry[p].ret) \ {ErrorRow} :
            /\ \E r \in issued : r.td = h.td /\ r.val = h.val
            /\ \E v \in Values, i \in 0 .. MaxCtr - 1 :
                 /\ qry[p].kind = "col" \/ Satisfies(qry[p], v)
                 /\ index[<<PutNode(h.td), Stream(qry[p].kind, qry[p].col, v), i>>]
                      = Entry(qry[p].kind, h.td, v, i)

\* A record is collected at most once for each of its entries the query asks
\* for: vecAll.size(), all that Search and RangeQuery return, is the number of
\* records found, unless one was Put again.
Leading(q, td) ==
    LET labels == {<<PutNode(td), Stream(q.kind, q.col, v), i>> :
                     v \in Values, i \in 0 .. MaxCtr - 1}
    IN {l \in labels : /\ index[l] # Nil /\ index[l].td = td
                       /\ q.kind = "col" \/ Satisfies(q, index[l].tag)}
NoDoubleCount ==
    \A p \in Readers : qry[p] # Nil =>
        LET s == qry[p].all \o qry[p].ret IN
        \A td \in Found(s) \ {Nil} :
            Cardinality({i \in DOMAIN s : s[i].td = td}) <= Cardinality(Leading(qry[p], td))

\* GetCol never returns more rows than it was asked for, although it asks every
\* node and its proxies skip the labels without entry.
ColumnBounded ==
    \A p \in Readers : qry[p] # Nil /\ qry[p].kind = "col" =>
        Len(qry[p].all) + Len(qry[p].ret) <= qry[p].val * NodeNum

\* A Get that finds nothing is about a record no Put has returned for
\* (ClientCpp.cpp:88), and one that finds something gives the last value Put, if
\* no call throws and no command is refused.
GetFindsAcked ==
    \A p \in Readers : got[p] # Nil /\ got[p].must # Nil => got[p].ans = got[p].must

\* An acknowledged record stays stored unless Redis refused the data of its last
\* Put, which the client is not told (RedisHelper.cpp:119-125): whatever Puts of
\* it fail later, are executed late (ClientCpp.cpp:280) or come from a second
\* process, its node keeps a value that some Put has sent for it.
AckedStaysStored ==
    \A td \in Tds : acked[td] # Nil =>
        \/ \E r \in issued : r.td = td /\ r.val = data[DataKey(td)]
        \/ [label |-> DataKey(td), entry |-> acked[td].val] \in refusedData

\* Every query comes to an end, although the proxies' loops have no bound and
\* Puts keep extending the streams they walk.
QueryTerminates == \A p \in Readers : qry[p] # Nil ~> qry[p] = Nil

-----------------------------------------------------------------------------
(***************************************************************************)
(* What all of this implements, as long as no call throws and no command   *)
(* is refused: EncStore.                                                   *)
(***************************************************************************)

\* What the stored entries let records be found by.
Way(l, e) == <<l[2][1], e.td, e.tag>>
FoundIn(ix) == {Way(l, ix[l]) : l \in {k \in Labels : ix[k] # Nil}}

\* A query without the state of its walk: what it wants and has to find.
Question(q) == [kind |-> q.kind, col |-> q.col,
                wanted |-> {v \in Values : Satisfies(q, v)}, must |-> q.must]
AskedBy(q) == IF q = Nil THEN <<>> ELSE <<Question(q)>>
AnswerTo(q) == IF q # Nil /\ q.node = NodeNum THEN <<Members(q.all)>> ELSE <<>>
ReadBy(g) == IF g = Nil THEN <<>> ELSE <<[td |-> g.td, ans |-> g.ans]>>

Store == INSTANCE EncStore WITH
    indexed <- FoundIn(index),
    table <- acked,
    sent <- issued,
    asked <- [p \in Readers |-> AskedBy(qry[p])],
    answer <- [p \in Readers |-> AnswerTo(qry[p])],
    read <- [p \in Readers |-> ReadBy(got[p])]

\* While nothing throws or is refused, all of this cannot be told from a table
\* of records: a Put stores its record in one step for everybody, a Get answers
\* with what is stored, and what a query returns is between what it has to and
\* what it may return, although Put, the walks and the fetches are many calls to
\* many nodes (ClientCpp::Put, Search, RangeQuery, GetCol and Get).
ImplementsEncStore == Store!Spec

=============================================================================
