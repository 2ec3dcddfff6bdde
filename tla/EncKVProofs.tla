---------------------------- MODULE EncKVProofs ----------------------------
(***************************************************************************)
(* Theorems about EncKV, for any number of nodes, clients, keys, columns   *)
(* and values, any trapdoors and any bounds, in four parts.                *)
(*                                                                         *)
(* I. The types, where index entries lie, and what the counters of one     *)
(* writer that never restarts stand for.                                   *)
(*                                                                         *)
(* II. What queries find, for one writer that never restarts: data is      *)
(* never visible before its index entries and, if no call throws and no    *)
(* command is refused, every query is complete: while the proxies walk, a  *)
(* record that has to be found is collected already, or its entry lies     *)
(* ahead.                                                                  *)
(*                                                                         *)
(* III. What calls return: the values Put has sent, at most the rows asked *)
(* for, and, for one writer that never restarts, nothing that no entry     *)
(* leads to and nothing twice.                                             *)
(*                                                                         *)
(* IV. The refinement: for one writer that never restarts, if no call      *)
(* throws, no command is refused and both routes of every record agree,    *)
(* EncKV implements EncStore.                                              *)
(***************************************************************************)
EXTENDS EncKV, SimConHashProofs, SequenceTheorems, FiniteSetTheorems

-----------------------------------------------------------------------------
\* Put and Get both route every record to a node that exists.
LEMMA RouteTypes ==
    ASSUME NEW td \in Tds
    PROVE  PutNode(td) \in Nodes /\ GetNode(td) \in Nodes /\ td[2] \in Cols
<1>1. XorWord[td] \in Word /\ FirstWord[td] \in Word
  BY DataAssumption DEF DataAssumption
<1>2. Query(XorWord[td]) \in Nodes /\ Query(FirstWord[td]) \in Nodes
  BY <1>1, QueryUnique
<1> QED BY <1>2 DEF PutNode, GetNode, Tds

LEMMA StreamType ==
    ASSUME NEW kind \in Kinds, NEW c \in Cols, NEW v, kind = "v2" => v \in Values
    PROVE  Stream(kind, c, v) \in Streams
<1>1. CASE kind = "v2"
  BY <1>1 DEF Stream, Streams, Kinds
<1>2. CASE kind # "v2"
  BY <1>2 DEF Stream, Streams, Kinds
<1> QED BY <1>1, <1>2

\* The call a Put is about to make: its label, entry and counter exist.
LEMMA PutTypes ==
    ASSUME TypeOK, NEW p \in Clients, NEW kind \in Kinds, put[p] # Nil
    PROVE  /\ put[p] \in Puts
           /\ CtrKey(put[p], kind) \in Nodes \X Streams
           /\ ctr[p][CtrKey(put[p], kind)] \in 0 .. MaxCtr
           /\ EntryOf(p, put[p], kind) \in Entries
           /\ HasRoom(p, put[p], kind) => LabelOf(p, put[p], kind) \in Labels
<1> DEFINE w == put[p]  k == CtrKey(w, kind)
<1>1. w \in Puts
  BY DEF TypeOK
<1>2. w.td \in Tds /\ w.val \in Values
  BY <1>1 DEF Puts
<1>3. PutNode(w.td) \in Nodes /\ Stream(kind, w.td[2], w.val) \in Streams
  BY <1>2, RouteTypes, StreamType
<1>4. k \in Nodes \X Streams
  BY <1>3 DEF CtrKey
<1>5. ctr[p][k] \in 0 .. MaxCtr
  BY <1>4 DEF TypeOK
<1>6. EntryOf(p, w, kind) \in Entries
  BY <1>2, <1>5 DEF EntryOf, Entry, Entries
<1>7. HasRoom(p, w, kind) => LabelOf(p, w, kind) \in Labels
  BY <1>3, <1>5, BoundAssumption DEF BoundAssumption, HasRoom, LabelOf, Labels, CtrKey
<1> QED BY <1>1, <1>4, <1>5, <1>6, <1>7

LEMMA CountUpType ==
    ASSUME TypeOK, NEW p \in Clients, NEW kind \in Kinds, put[p] # Nil,
           HasRoom(p, put[p], kind), CountUp(p, put[p], kind)
    PROVE  ctr' \in [Clients -> [Nodes \X Streams -> 0 .. MaxCtr]]
<1> DEFINE k == CtrKey(put[p], kind)
<1>1. k \in Nodes \X Streams /\ ctr[p][k] \in 0 .. MaxCtr
  BY PutTypes
<1>2. ctr[p][k] + 1 \in 0 .. MaxCtr
  BY <1>1, BoundAssumption DEF BoundAssumption, HasRoom
<1> QED BY <1>1, <1>2 DEF TypeOK, CountUp

\* The records the query steps make of a query are queries about the same.
LEMMA NewQueryType ==
    ASSUME NEW kind \in Kinds, NEW c \in Cols, NEW x \in Nat,
           NEW cmp \in Cmps \cup {Nil}, NEW must \in SUBSET Tds
    PROVE  [NewQuery(kind, c, x, cmp) EXCEPT !.must = must] \in Queries
<1>1. [NewQuery(kind, c, x, cmp) EXCEPT !.must = must]
        = [kind |-> kind, col |-> c, val |-> x, cmp |-> cmp, node |-> 0, ctr |-> 0,
           hit |-> Nil, ret |-> <<>>, all |-> <<>>, must |-> must]
  BY DEF NewQuery
<1>2. [kind |-> kind, col |-> c, val |-> x, cmp |-> cmp, node |-> 0, ctr |-> 0,
       hit |-> Nil, ret |-> <<>>, all |-> <<>>, must |-> must] \in Queries
  BY RouterAssumption DEF RouterAssumption, Queries
<1> QED BY <1>1, <1>2

Same(q, n) == n \in Queries /\ n.kind = q.kind /\ n.col = q.col /\ n.val = q.val
                /\ n.cmp = q.cmp /\ n.must = q.must

LEMMA QueryCtr ==
    ASSUME NEW q \in Queries, NEW i \in Nat PROVE Same(q, [q EXCEPT !.ctr = i])
<1>1. [q EXCEPT !.ctr = i] \in Queries
  BY DEF Queries
<1> QED BY <1>1 DEF Same, Queries

LEMMA QueryHit ==
    ASSUME NEW q \in Queries, NEW td \in Tds PROVE Same(q, [q EXCEPT !.hit = td])
<1>1. [q EXCEPT !.hit = td] \in Queries
  BY DEF Queries
<1> QED BY <1>1 DEF Same, Queries

LEMMA QueryRet ==
    ASSUME NEW q \in Queries, NEW i \in Nat, NEW s \in Seq(Rows)
    PROVE  Same(q, [q EXCEPT !.hit = Nil, !.ctr = i, !.ret = s])
<1>1. [q EXCEPT !.hit = Nil, !.ctr = i, !.ret = s] \in Queries
  BY DEF Queries
<1> QED BY <1>1 DEF Same, Queries

LEMMA QueryNode ==
    ASSUME NEW q \in Queries, NEW n \in 0 .. NodeNum, NEW s \in Seq(Rows)
    PROVE  Same(q, [q EXCEPT !.node = n, !.ctr = 0, !.ret = <<>>, !.all = s])
<1>1. <<>> \in Seq(Rows) /\ 0 \in Nat
  OBVIOUS
<1>2. [q EXCEPT !.node = n, !.ctr = 0, !.ret = <<>>, !.all = s] \in Queries
  BY <1>1 DEF Queries
<1> QED BY <1>2 DEF Same, Queries

\* Whatever a query step makes of one query, the rest stays as it was.
LEMMA UpdateQueryType ==
    ASSUME TypeOK, NEW p \in Clients, NEW q \in Queries \cup {Nil},
           q # Nil /\ q.kind = "v2" => q.val \in Values,
           qry' = [qry EXCEPT ![p] = q]
    PROVE  /\ qry' \in [Clients -> Queries \cup {Nil}]
           /\ \A c \in Clients : qry'[c] # Nil /\ qry'[c].kind = "v2"
                                    => qry'[c].val \in Values
BY DEF TypeOK

\* Both reads of a proxy stay within the store of the node it serves.
LEMMA ScanTypes ==
    ASSUME TypeOK, NEW p \in Clients, Asked(p)
    PROVE  /\ qry[p] \in Queries /\ qry[p].node \in Nodes
           /\ IndexGet(qry[p]) \in Entries \cup {Nil}
           /\ qry[p].hit # Nil => data[<<qry[p].node, qry[p].hit>>] \in Values \cup {Nil}
<1> DEFINE q == qry[p]
<1>1. q \in Queries /\ (q.kind = "v2" => q.val \in Values)
  BY DEF TypeOK, Asked
<1>2. q.node \in Nodes
  BY <1>1, RouterAssumption DEF RouterAssumption, Asked, Queries, Nodes
<1>3. q.kind \in Kinds /\ q.col \in Cols /\ q.ctr \in Nat /\ q.hit \in Tds \cup {Nil}
  BY <1>1 DEF Queries
<1>4. Stream(q.kind, q.col, q.val) \in Streams
  BY <1>1, <1>3, StreamType
<1>5. q.ctr < MaxCtr => <<q.node, Stream(q.kind, q.col, q.val), q.ctr>> \in Labels
  BY <1>2, <1>3, <1>4, BoundAssumption DEF BoundAssumption, Labels
<1>6. IndexGet(q) \in Entries \cup {Nil}
  BY <1>5 DEF IndexGet, TypeOK
<1>7. q.hit # Nil => data[<<q.node, q.hit>>] \in Values \cup {Nil}
  BY <1>2, <1>3 DEF TypeOK
<1> QED BY <1>1, <1>2, <1>6, <1>7

-----------------------------------------------------------------------------
\* The initial state has the type of every variable.
LEMMA InitType == Init => TypeOK
<1> SUFFICES ASSUME Init PROVE TypeOK
  OBVIOUS
<1> USE BoundAssumption DEF BoundAssumption
<1>1. /\ index \in [Labels -> Entries \cup {Nil}]
      /\ data \in [Nodes \X Tds -> Values \cup {Nil}]
      /\ lateIndex \subseteq [label : Labels, entry : Entries]
      /\ lateData \subseteq [label : Nodes \X Tds, entry : Values]
  BY DEF Init
<1>2. ctr \in [Clients -> [Nodes \X Streams -> 0 .. MaxCtr]]
  BY DEF Init
<1>3. /\ put \in [Clients -> Puts \cup {Nil}]
      /\ qry \in [Clients -> Queries \cup {Nil}]
      /\ \A p \in Clients : qry[p] # Nil /\ qry[p].kind = "v2" => qry[p].val \in Values
      /\ got \in [Clients -> Gets \cup {Nil}]
  BY DEF Init
<1>4. /\ fails \in 0 .. MaxFail /\ restarts \in 0 .. MaxRestart
      /\ refusals \in 0 .. MaxRefuse
      /\ refusedIndex \subseteq [label : Labels, entry : Entries]
      /\ refusedData \subseteq [label : Nodes \X Tds, entry : Values]
      /\ issued \subseteq Records
      /\ acked \in [Tds -> Records \cup {Nil}]
  BY DEF Init
<1> QED BY <1>1, <1>2, <1>3, <1>4 DEF TypeOK

\* The steps of Put preserve the type invariant.
LEMMA PutStepType ==
    ASSUME TypeOK, NEW p \in Clients, PutStep(p)
    PROVE  TypeOK'
<1> USE BoundAssumption DEF BoundAssumption, storeVars, refusalVars, historyVars
<1>1. ASSUME NEW td \in Tds, NEW v \in Values, NEW kinds \in FlagSets,
             PutBegin(p, td, v, kinds)
      PROVE  TypeOK'
  <2> DEFINE w == [td |-> td, val |-> v, kinds |-> kinds, todo |-> kinds]
  <2>1. w \in Puts
    BY DataAssumption DEF DataAssumption, Puts
  <2> QED BY <1>1, <2>1 DEF PutBegin, TypeOK
<1>2. ASSUME NEW kind \in Kinds, PutIndex(p, kind) PROVE TypeOK'
  <2> DEFINE w == put[p]
  <2>1. w # Nil /\ HasRoom(p, w, kind) /\ CountUp(p, w, kind)
    BY <1>2 DEF PutIndex
  <2>2. w \in Puts /\ EntryOf(p, w, kind) \in Entries /\ LabelOf(p, w, kind) \in Labels
    BY <2>1, PutTypes
  <2>3. ctr' \in [Clients -> [Nodes \X Streams -> 0 .. MaxCtr]]
    BY <2>1, CountUpType
  <2>4. [w EXCEPT !.todo = w.todo \ {kind}] \in Puts
    BY <2>2 DEF Puts
  <2>5. index' \in [Labels -> Entries \cup {Nil}]
    BY <1>2, <2>2 DEF PutIndex, StoreEntry, TypeOK
  <2> QED BY <1>2, <2>3, <2>4, <2>5 DEF PutIndex, StoreEntry, TypeOK
<1>3. ASSUME NEW kind \in Kinds, PutIndexThrows(p, kind) PROVE TypeOK'
  <2> DEFINE w == put[p]
  <2>1. w # Nil /\ HasRoom(p, w, kind) /\ CountUp(p, w, kind)
    BY <1>3 DEF PutIndexThrows
  <2>2. EntryOf(p, w, kind) \in Entries /\ LabelOf(p, w, kind) \in Labels
    BY <2>1, PutTypes
  <2>3. ctr' \in [Clients -> [Nodes \X Streams -> 0 .. MaxCtr]]
    BY <2>1, CountUpType
  <2>4. /\ index' \in [Labels -> Entries \cup {Nil}]
        /\ lateIndex' \subseteq [label : Labels, entry : Entries]
    <3>1. CASE StoreEntry(p, w, kind)
      BY <2>2, <3>1 DEF StoreEntry, TypeOK
    <3>2. CASE DelayEntry(p, w, kind)
      BY <2>2, <3>2 DEF DelayEntry, IndexSet, TypeOK
    <3> QED BY <1>3, <3>1, <3>2 DEF PutIndexThrows
  <2>5. fails' \in 0 .. MaxFail
    BY <1>3 DEF PutIndexThrows, TypeOK
  <2>6. put' \in [Clients -> Puts \cup {Nil}]
    BY <1>3 DEF PutIndexThrows, TypeOK
  <2> QED BY <1>3, <2>3, <2>4, <2>5, <2>6 DEF PutIndexThrows, TypeOK
<1>4. ASSUME put[p] # Nil
      PROVE  /\ put[p].td \in Tds /\ put[p].val \in Values
             /\ DataKey(put[p].td) \in Nodes \X Tds /\ RecordOf(put[p]) \in Records
             /\ DataSet(put[p]) \in [label : Nodes \X Tds, entry : Values]
  <2>1. put[p] \in Puts
    BY <1>4 DEF TypeOK
  <2>2. put[p].td \in Tds /\ put[p].val \in Values /\ put[p].kinds \in SUBSET Kinds
    BY <2>1 DEF Puts
  <2> QED BY <2>2, RouteTypes DEF DataKey, DataSet, RecordOf, Records
<1>5. ASSUME PutData(p) PROVE TypeOK'
  BY <1>4, <1>5 DEF PutData, TypeOK
<1>6. ASSUME PutDataThrows(p) PROVE TypeOK'
  <2>1. /\ data' \in [Nodes \X Tds -> Values \cup {Nil}]
        /\ lateData' \subseteq [label : Nodes \X Tds, entry : Values]
    BY <1>4, <1>6 DEF PutDataThrows, TypeOK
  <2>2. fails' \in 0 .. MaxFail
    BY <1>6 DEF PutDataThrows, TypeOK
  <2>3. put' \in [Clients -> Puts \cup {Nil}] /\ issued' \subseteq Records
    BY <1>4, <1>6 DEF PutDataThrows, TypeOK
  <2> QED BY <1>6, <2>1, <2>2, <2>3 DEF PutDataThrows, TypeOK
<1>7. ASSUME NEW kind \in Kinds, PutIndexRefused(p, kind) PROVE TypeOK'
  <2> DEFINE w == put[p]
  <2>1. w # Nil /\ HasRoom(p, w, kind) /\ CountUp(p, w, kind)
    BY <1>7 DEF PutIndexRefused
  <2>2. w \in Puts /\ EntryOf(p, w, kind) \in Entries /\ LabelOf(p, w, kind) \in Labels
    BY <2>1, PutTypes
  <2>3. ctr' \in [Clients -> [Nodes \X Streams -> 0 .. MaxCtr]]
    BY <2>1, CountUpType
  <2>4. [w EXCEPT !.todo = w.todo \ {kind}] \in Puts
    BY <2>2 DEF Puts
  <2>5. refusedIndex' \subseteq [label : Labels, entry : Entries]
    BY <1>7, <2>2 DEF PutIndexRefused, IndexSet, TypeOK
  <2>6. refusals' \in 0 .. MaxRefuse
    BY <1>7 DEF PutIndexRefused, Refuse, TypeOK
  <2> QED BY <1>7, <2>3, <2>4, <2>5, <2>6 DEF PutIndexRefused, TypeOK
<1>8. ASSUME PutDataRefused(p) PROVE TypeOK'
  <2>1. refusals' \in 0 .. MaxRefuse
    BY <1>8 DEF PutDataRefused, Refuse, TypeOK
  <2>2. /\ refusedData' \subseteq [label : Nodes \X Tds, entry : Values]
        /\ put' \in [Clients -> Puts \cup {Nil}] /\ issued' \subseteq Records
        /\ acked' \in [Tds -> Records \cup {Nil}]
    BY <1>4, <1>8 DEF PutDataRefused, TypeOK
  <2> QED BY <1>8, <2>1, <2>2 DEF PutDataRefused, TypeOK
<1> QED BY <1>1, <1>2, <1>3, <1>5, <1>6, <1>7, <1>8 DEF PutStep

\* A step of a walk makes of its query one that asks the same question.
LEMMA WalkSame ==
    ASSUME TypeOK, NEW p \in Clients,
           SearchLoop(p) \/ ColumnLoop(p) \/ FetchData(p) \/ NodeReply(p)
    PROVE  /\ Asked(p) /\ qry[p] \in Queries
           /\ \E n : /\ Same(qry[p], n) /\ UpdateQuery(p, n)
                     /\ NodeReply(p) \/ n.node = qry[p].node
<1> DEFINE q == qry[p]
           Walks(n) == /\ Same(q, n) /\ UpdateQuery(p, n)
                       /\ NodeReply(p) \/ n.node = q.node
<1>1. Asked(p)
  BY DEF SearchLoop, ColumnLoop, FetchData, NodeReply
<1>2. /\ q \in Queries /\ q.node \in Nodes
      /\ IndexGet(q) \in Entries \cup {Nil}
      /\ q.hit # Nil => data[<<q.node, q.hit>>] \in Values \cup {Nil}
  BY <1>1, ScanTypes
<1>3. /\ q.ctr + 1 \in Nat /\ q.hit \in Tds \cup {Nil}
      /\ q.ret \in Seq(Rows) /\ q.all \in Seq(Rows)
  BY <1>2 DEF Queries
<1>4. ASSUME UpdateQuery(p, [q EXCEPT !.ctr = q.ctr + 1]) PROVE \E n : Walks(n)
  <2> DEFINE n == [q EXCEPT !.ctr = q.ctr + 1]
  <2>1. Same(q, n)
    BY <1>2, <1>3, QueryCtr
  <2>2. n.node = q.node
    BY <1>2 DEF Queries
  <2> QED BY <1>4, <2>1, <2>2
<1>5. ASSUME IndexGet(q) # Nil, UpdateQuery(p, [q EXCEPT !.hit = IndexGet(q).td])
      PROVE  \E n : Walks(n)
  <2> DEFINE n == [q EXCEPT !.hit = IndexGet(q).td]
  <2>1. IndexGet(q).td \in Tds
    BY <1>2, <1>5 DEF Entries
  <2>2. Same(q, n)
    BY <1>2, <2>1, QueryHit
  <2>3. n.node = q.node
    BY <1>2 DEF Queries
  <2> QED BY <1>5, <2>2, <2>3
<1>6. ASSUME SearchLoop(p) PROVE \E n : Walks(n)
  BY <1>4, <1>5, <1>6 DEF SearchLoop, Advance, Exhausted
<1>7. ASSUME ColumnLoop(p) PROVE \E n : Walks(n)
  BY <1>4, <1>5, <1>7 DEF ColumnLoop, Advance
<1>8. ASSUME FetchData(p) PROVE \E n : Walks(n)
  <2> DEFINE v == data[<<q.node, q.hit>>]
             s == Push(q.ret, q.hit, v)
             n == [q EXCEPT !.hit = Nil, !.ctr = q.ctr + 1, !.ret = s]
  <2>1. q.hit \in Tds /\ v \in Values \cup {Nil}
    BY <1>2, <1>3, <1>8 DEF FetchData
  <2>2. v # Nil => [td |-> q.hit, val |-> v] \in Rows
    BY <2>1 DEF Hits, Rows
  <2>3. s \in Seq(Rows)
    BY <1>3, <2>1, <2>2 DEF Push
  <2>4. Same(q, n)
    <3>1. q \in Queries /\ q.ctr + 1 \in Nat
      BY <1>2, <1>3
    <3> QED BY <2>3, <3>1, QueryRet, Zenon
  <2>5. n.node = q.node
    BY <1>2 DEF Queries
  <2>6. UpdateQuery(p, n)
    BY <1>8 DEF FetchData
  <2> QED BY <2>4, <2>5, <2>6
<1>9. ASSUME NodeReply(p) PROVE \E n : Walks(n)
  <2>1. Collect(q) \in Seq(Rows)
    BY <1>3 DEF Collect
  <2>2. q.node + 1 \in 0 .. NodeNum
    BY <1>2, RouterAssumption DEF RouterAssumption, Nodes
  <2> DEFINE n == [q EXCEPT !.node = q.node + 1, !.ctr = 0, !.ret = <<>>,
                            !.all = Collect(q)]
  <2>3. Same(q, n)
    BY <1>2, <2>1, <2>2, QueryNode, Zenon
  <2>4. UpdateQuery(p, n)
    BY <1>9 DEF NodeReply, Cleared
  <2> QED BY <1>9, <2>3, <2>4
<1> QED BY <1>1, <1>2, <1>6, <1>7, <1>8, <1>9

\* So does a turn of a walk whose read Redis refuses, if the query survives it.
LEMMA RefusedSame ==
    ASSUME TypeOK, NEW p \in Clients, ScanRefused(p) \/ FetchRefused(p)
    PROVE  /\ Asked(p) /\ qry[p] \in Queries
           /\ \E n : /\ qry' = [qry EXCEPT ![p] = n]
                     /\ n = Nil \/ (Same(qry[p], n) /\ n.node = qry[p].node)
           /\ refusals < MaxRefuse /\ refusals' \in 0 .. MaxRefuse
           /\ UNCHANGED <<index, data, lateIndex, lateData, ctr, put, got, fails,
                          restarts, refusedIndex, refusedData, issued, acked>>
<1> USE DEF storeVars, clientVars
<1> DEFINE q == qry[p]
<1>1. Asked(p) /\ refusals < MaxRefuse
  BY DEF ScanRefused, FetchRefused, Refuse
<1>2. q \in Queries
  BY <1>1 DEF Asked, TypeOK
<1>3. q.ctr + 1 \in Nat /\ q.ret \in Seq(Rows) /\ ErrorRow \in Rows
  BY <1>2 DEF Queries, Rows
<1>4. Append(q.ret, ErrorRow) \in Seq(Rows)
  BY <1>3
<1>5. refusals' \in 0 .. MaxRefuse
  BY BoundAssumption DEF BoundAssumption, ScanRefused, FetchRefused, Refuse, TypeOK
<1>6. Same(q, Advance(q)) /\ Advance(q).node = q.node
  BY <1>2, <1>3, QueryCtr DEF Advance, Queries
<1>7. LET n == [q EXCEPT !.hit = Nil, !.ctr = q.ctr + 1, !.ret = Append(q.ret, ErrorRow)]
      IN  Same(q, n) /\ n.node = q.node
  <2> DEFINE n == [q EXCEPT !.hit = Nil, !.ctr = q.ctr + 1, !.ret = Append(q.ret, ErrorRow)]
  <2>1. Same(q, n)
    BY <1>2, <1>3, <1>4, QueryRet, Zenon
  <2>2. n.node = q.node
    BY <1>2 DEF Queries
  <2> QED BY <2>1, <2>2
<1>8. ASSUME q.hit = Nil
      PROVE  [Advance(q) EXCEPT !.ret = Append(q.ret, ErrorRow)]
               = [q EXCEPT !.hit = Nil, !.ctr = q.ctr + 1, !.ret = Append(q.ret, ErrorRow)]
  BY <1>2, <1>8 DEF Advance, Queries
<1>9. \E n : /\ qry' = [qry EXCEPT ![p] = n]
             /\ n = Nil \/ (Same(q, n) /\ n.node = q.node)
  <2>1. CASE FetchRefused(p)
    BY <1>7, <2>1 DEF FetchRefused
  <2>2. CASE ScanRefused(p)
    <3>1. q.hit = Nil
      BY <2>2 DEF ScanRefused
    <3>2. \/ qry' = [qry EXCEPT ![p] = Advance(q)]
          \/ qry' = [qry EXCEPT ![p] = [Advance(q) EXCEPT !.ret = Append(q.ret, ErrorRow)]]
          \/ qry' = [qry EXCEPT ![p] = Nil]
      BY <2>2 DEF ScanRefused
    <3> QED BY <1>6, <1>7, <1>8, <3>1, <3>2
  <2> QED BY <2>1, <2>2
<1>10. UNCHANGED <<index, data, lateIndex, lateData, ctr, put, got, fails,
                   restarts, refusedIndex, refusedData, issued, acked>>
  BY DEF ScanRefused, FetchRefused
<1> QED BY <1>1, <1>2, <1>5, <1>9, <1>10

RefusedStep(p) == ScanRefused(p) \/ FetchRefused(p)

\* What it makes of the query: the counter goes on, with or without a row.
LEMMA RefusedTurn ==
    ASSUME TypeOK, NEW p \in Clients, RefusedStep(p), NEW q, q = qry[p],
           NEW n, n = qry'[p], n # Nil
    PROVE  /\ q \in Queries /\ q.node \in Nodes
           /\ n.kind = q.kind /\ n.col = q.col /\ n.val = q.val /\ n.cmp = q.cmp
           /\ n.must = q.must /\ n.node = q.node /\ n.all = q.all
           /\ n.hit = Nil /\ n.ctr = q.ctr + 1
           /\ n.ret = q.ret \/ n.ret = Append(q.ret, ErrorRow)
           /\ q.kind = "col" /\ q.hit = Nil => q.ctr < q.val
<1>1. Asked(p)
  BY DEF RefusedStep, ScanRefused, FetchRefused
<1>2. q \in Queries /\ q.node \in Nodes /\ q.ctr \in Nat /\ q.val \in Nat
  BY <1>1, ScanTypes DEF Queries
<1>3. CASE FetchRefused(p)
  <2>1. n = [q EXCEPT !.hit = Nil, !.ctr = q.ctr + 1, !.ret = Append(q.ret, ErrorRow)]
    BY <1>3 DEF FetchRefused, TypeOK
  <2>2. q.hit # Nil
    BY <1>3 DEF FetchRefused
  <2> QED BY <1>2, <2>1, <2>2 DEF Queries
<1>4. CASE ScanRefused(p)
  <2>1. \/ n = Advance(q)
        \/ n = [Advance(q) EXCEPT !.ret = Append(q.ret, ErrorRow)]
    BY <1>4 DEF ScanRefused, TypeOK
  <2>2. q.hit = Nil /\ (q.kind = "col" => q.ctr < q.val)
    BY <1>2, <1>4 DEF ScanRefused, Exhausted
  <2> QED BY <1>2, <2>1, <2>2 DEF Queries, Advance
<1> QED BY <1>3, <1>4 DEF RefusedStep

\* So do the calls that read, and the steps of the proxies that serve them.
LEMMA QueryStepType ==
    ASSUME TypeOK, NEW p \in Clients,
           BeginStep(p) \/ ScanStep(p) \/ QueryThrows(p) \/ RefusedStep(p)
    PROVE  TypeOK'
<1> USE DEF storeVars, clientVars, refusalVars, historyVars
<1>1. ASSUME NEW q \in Queries \cup {Nil}, q # Nil /\ q.kind = "v2" => q.val \in Values,
             UpdateQuery(p, q)
      PROVE  TypeOK'
  <2>1. qry' = [qry EXCEPT ![p] = q]
    BY <1>1 DEF UpdateQuery
  <2>2. /\ qry' \in [Clients -> Queries \cup {Nil}]
        /\ \A c \in Clients : qry'[c] # Nil /\ qry'[c].kind = "v2"
                                 => qry'[c].val \in Values
    BY <1>1, <2>1, UpdateQueryType
  <2> QED BY <1>1, <2>2 DEF UpdateQuery, TypeOK
<1>2. ASSUME NEW kind \in Kinds, NEW c \in Cols, NEW x \in Nat, NEW cmp \in Cmps \cup {Nil},
             kind = "v2" => x \in Values, Begin(p, NewQuery(kind, c, x, cmp))
      PROVE  TypeOK'
  <2> DEFINE n == NewQuery(kind, c, x, cmp)  q == [n EXCEPT !.must = MustFind(n)]
  <2>1. MustFind(n) \in SUBSET Tds
    BY DEF MustFind
  <2>2. q \in Queries
    BY <2>1, NewQueryType
  <2>3. q.kind = kind /\ q.val = x
    BY DEF NewQuery
  <2>4. UpdateQuery(p, q)
    BY <1>2 DEF Begin, UpdateQuery
  <2> QED BY <1>1, <1>2, <2>2, <2>3, <2>4
<1>3. ASSUME BeginStep(p) PROVE TypeOK'
  <2>1. ASSUME NEW c \in Cols, NEW v \in Values, NEW b \in BOOLEAN, Search(p, c, v, b)
        PROVE  TypeOK'
    BY <1>2, <2>1, DataAssumption DEF DataAssumption, Search, Kinds
  <2>2. ASSUME NEW c \in Cols, NEW v \in Values, NEW i \in {-1, 1}, RangeQuery(p, c, i, v)
        PROVE  TypeOK'
    <3>1. (IF i > 0 THEN "LARGE" ELSE "SMALL") \in Cmps \cup {Nil} /\ v \in Nat
      BY DataAssumption DEF DataAssumption, Cmps
    <3>2. "ore" \in Kinds /\ "ore" # "v2"
      BY DEF Kinds
    <3> QED BY <1>2, <2>2, <3>1, <3>2 DEF RangeQuery
  <2>3. ASSUME NEW c \in Cols, NEW uiNum \in Nums, GetCol(p, c, uiNum)
        PROVE  TypeOK'
    <3>1. uiNum \div NodeNum \in Nat
      BY DataAssumption, RouterAssumption DEF DataAssumption, RouterAssumption
    <3>2. "col" \in Kinds /\ "col" # "v2"
      BY DEF Kinds
    <3> QED BY <1>2, <2>3, <3>1, <3>2 DEF GetCol
  <2> QED BY <1>3, <2>1, <2>2, <2>3 DEF BeginStep
<1>4. ASSUME SearchLoop(p) \/ ColumnLoop(p) \/ FetchData(p) \/ NodeReply(p) PROVE TypeOK'
  <2>1. PICK n : Same(qry[p], n) /\ UpdateQuery(p, n)
    BY <1>4, WalkSame
  <2>2. qry[p].kind = "v2" => qry[p].val \in Values
    BY <1>4, WalkSame DEF Asked, TypeOK
  <2> QED BY <1>1, <2>1, <2>2 DEF Same
<1>5. ASSUME QueryReturn(p) PROVE TypeOK'
  BY <1>1, <1>5 DEF QueryReturn
<1>6. ASSUME QueryThrows(p) PROVE TypeOK'
  <2>1. qry' = [qry EXCEPT ![p] = Nil]
    BY <1>6 DEF QueryThrows
  <2>2. /\ qry' \in [Clients -> Queries \cup {Nil}]
        /\ \A c \in Clients : qry'[c] # Nil /\ qry'[c].kind = "v2"
                                 => qry'[c].val \in Values
    BY <2>1, UpdateQueryType
  <2>3. fails' \in 0 .. MaxFail
    BY <1>6, BoundAssumption DEF BoundAssumption, QueryThrows, TypeOK
  <2> QED BY <1>6, <2>2, <2>3 DEF QueryThrows, TypeOK
<1>7. ASSUME RefusedStep(p) PROVE TypeOK'
  <2>1. PICK n : /\ qry' = [qry EXCEPT ![p] = n]
                 /\ n = Nil \/ (Same(qry[p], n) /\ n.node = qry[p].node)
    BY <1>7, RefusedSame DEF RefusedStep
  <2>2. qry[p].kind = "v2" => qry[p].val \in Values
    BY <1>7, RefusedSame DEF RefusedStep, Asked, TypeOK
  <2>3. n \in Queries \cup {Nil} /\ (n # Nil /\ n.kind = "v2" => n.val \in Values)
    BY <2>1, <2>2 DEF Same
  <2>4. /\ qry' \in [Clients -> Queries \cup {Nil}]
        /\ \A c \in Clients : qry'[c] # Nil /\ qry'[c].kind = "v2"
                                 => qry'[c].val \in Values
    BY <2>1, <2>3, UpdateQueryType
  <2> QED BY <1>7, <2>4, RefusedSame DEF RefusedStep, TypeOK
<1> QED BY <1>3, <1>4, <1>5, <1>6, <1>7 DEF ScanStep

\* And the remaining steps.
LEMMA OtherStepType ==
    ASSUME TypeOK, LateStep \/ \E p \in Clients : Restart(p) \/ GetStep(p)
    PROVE  TypeOK'
<1> USE DEF storeVars, clientVars, refusalVars, historyVars
<1>1. ASSUME NEW p \in Clients, Restart(p) PROVE TypeOK'
  <2>1. restarts' \in 0 .. MaxRestart
    BY <1>1, BoundAssumption DEF BoundAssumption, Restart, TypeOK
  <2>2. ctr' \in [Clients -> [Nodes \X Streams -> 0 .. MaxCtr]]
    BY <1>1, BoundAssumption DEF BoundAssumption, Restart, TypeOK
  <2>3. qry' = [qry EXCEPT ![p] = Nil]
    BY <1>1 DEF Restart
  <2>4. /\ qry' \in [Clients -> Queries \cup {Nil}]
        /\ \A c \in Clients : qry'[c] # Nil /\ qry'[c].kind = "v2"
                                 => qry'[c].val \in Values
    BY <2>3, UpdateQueryType
  <2>5. /\ put' \in [Clients -> Puts \cup {Nil}]
        /\ got' \in [Clients -> Gets \cup {Nil}]
    BY <1>1 DEF Restart, TypeOK
  <2> QED BY <1>1, <2>1, <2>2, <2>4, <2>5 DEF Restart, TypeOK
<1>2. ASSUME NEW p \in Clients, NEW td \in Tds, Get(p, td) \/ GetRefused(p, td)
      PROVE  TypeOK'
  <2>1. PICK ans \in Values \cup {Nil, ErrorText} : Answer(p, td, ans)
    <3>1. data[<<GetNode(td), td>>] \in Values \cup {Nil}
      BY RouteTypes DEF TypeOK
    <3> QED BY <1>2, <3>1 DEF Get, GetRefused
  <2> DEFINE g == [td |-> td, ans |-> ans,
                   must |-> IF acked[td] = Nil THEN Nil ELSE acked[td].val]
  <2>2. acked[td] # Nil => acked[td].val \in Values
    BY DEF TypeOK, Records
  <2>3. g \in Gets
    BY <2>1, <2>2 DEF Gets
  <2>4. got' \in [Clients -> Gets \cup {Nil}]
    BY <2>1, <2>3 DEF Answer, TypeOK
  <2>5. refusals' \in 0 .. MaxRefuse /\ UNCHANGED <<refusedIndex, refusedData>>
    BY <1>2, BoundAssumption DEF BoundAssumption, Get, GetRefused, Refuse, TypeOK
  <2> QED BY <2>1, <2>4, <2>5 DEF Answer, TypeOK
<1>3. ASSUME NEW p \in Clients, GetReturn(p) PROVE TypeOK'
  BY <1>3 DEF GetReturn, TypeOK
<1>4. ASSUME NEW s \in lateIndex, LateIndexSet(s) PROVE TypeOK'
  <2>1. s.label \in Labels /\ s.entry \in Entries
    BY DEF TypeOK
  <2> QED BY <1>4, <2>1 DEF LateIndexSet, TypeOK
<1>5. ASSUME NEW s \in lateData, LateDataSet(s) PROVE TypeOK'
  <2>1. s.label \in Nodes \X Tds /\ s.entry \in Values
    BY DEF TypeOK
  <2> QED BY <1>5, <2>1 DEF LateDataSet, TypeOK
<1> QED BY <1>1, <1>2, <1>3, <1>4, <1>5 DEF LateStep, GetStep

\* Type correctness of the whole system, for every value of the constants.
THEOREM TypeCorrect == Spec => []TypeOK
<1>1. Init => TypeOK
  BY InitType
<1>2. TypeOK /\ [Next]_vars => TypeOK'
  <2> SUFFICES ASSUME TypeOK, [Next]_vars PROVE TypeOK'
    OBVIOUS
  <2>1. CASE Next
    BY <2>1, PutStepType, QueryStepType, OtherStepType DEF Next, RefusedStep
  <2>2. CASE UNCHANGED vars
    BY <2>2 DEF vars, TypeOK
  <2> QED BY <2>1, <2>2
<1> QED BY <1>1, <1>2, PTL DEF Spec

\* Readers touch nothing that Puts rest on.
ReaderStep(p) ==
    GetStep(p) \/ BeginStep(p) \/ ScanStep(p) \/ QueryThrows(p) \/ RefusedStep(p)

LEMMA ReaderFrame ==
    ASSUME NEW p \in Clients, ReaderStep(p)
    PROVE  UNCHANGED <<index, data, lateIndex, lateData, ctr, put, restarts,
                       refusedIndex, refusedData, issued, acked>>
<1> USE DEF storeVars, clientVars, refusalVars, historyVars
<1>1. CASE GetStep(p)
  BY <1>1 DEF GetStep, Get, GetRefused, Answer, GetReturn
<1>2. CASE BeginStep(p)
  BY <1>2 DEF BeginStep, Search, RangeQuery, GetCol, Begin
<1>3. CASE ScanStep(p) \/ QueryThrows(p)
  BY <1>3 DEF ScanStep, SearchLoop, ColumnLoop, FetchData, NodeReply, QueryReturn,
              UpdateQuery, QueryThrows
<1>4. CASE RefusedStep(p)
  BY <1>4 DEF RefusedStep, ScanRefused, FetchRefused
<1> QED BY <1>1, <1>2, <1>3, <1>4 DEF ReaderStep

\* The steps of Next, with those of the readers as one.
LEMMA NextCases ==
    Next => \/ \E p \in Clients : PutStep(p) \/ Restart(p) \/ ReaderStep(p)
            \/ LateStep
BY DEF Next, ReaderStep, RefusedStep

-----------------------------------------------------------------------------
(***************************************************************************)
(* Every entry leads to its own node, whoever writes and whatever fails.   *)
(***************************************************************************)

\* The entry a Put is about to write fits the label it is written under.
LEMMA NewWellPlaced ==
    ASSUME TypeOK, NEW p \in Clients, NEW kind \in Kinds, put[p] # Nil
    PROVE  WellPlaced(LabelOf(p, put[p], kind), EntryOf(p, put[p], kind))
<1> DEFINE w == put[p]
<1>1. w.td \in Tds
  BY DEF TypeOK, Puts
<1> HIDE DEF w
<1>2. /\ LabelOf(p, w, kind)[1] = PutNode(w.td)
      /\ LabelOf(p, w, kind)[2] = Stream(kind, w.td[2], w.val)
      /\ LabelOf(p, w, kind)[3] = ctr[p][CtrKey(w, kind)]
  BY DEF LabelOf
<1>3. /\ EntryOf(p, w, kind).td = w.td /\ EntryOf(p, w, kind).row = ctr[p][CtrKey(w, kind)]
      /\ kind # "col" => EntryOf(p, w, kind).tag = w.val
  BY DEF EntryOf, Entry
<1>4. WellPlaced(LabelOf(p, w, kind), EntryOf(p, w, kind))
  BY <1>2, <1>3 DEF WellPlaced, Stream
<1> QED BY <1>4 DEF w

LEMMA PlacedStep ==
    ASSUME TypeOK, EntriesWellPlaced, [Next]_vars
    PROVE  EntriesWellPlaced'
<1> USE DEF storeVars, clientVars, refusalVars, historyVars
<1>1. ASSUME UNCHANGED <<index, lateIndex>> PROVE EntriesWellPlaced'
  BY <1>1 DEF EntriesWellPlaced
<1>2. ASSUME NEW p \in Clients, NEW kind \in Kinds,
             PutIndex(p, kind) \/ PutIndexThrows(p, kind)
      PROVE  EntriesWellPlaced'
  <2> DEFINE f == LabelOf(p, put[p], kind)  e == EntryOf(p, put[p], kind)
  <2>1. put[p] # Nil /\ HasRoom(p, put[p], kind)
    BY <1>2 DEF PutIndex, PutIndexThrows
  <2>2. f \in Labels /\ WellPlaced(f, e)
    BY <2>1, PutTypes, NewWellPlaced
  <2>3. \/ index' = [index EXCEPT ![f] = e] /\ lateIndex' = lateIndex
        \/ index' = index /\ lateIndex' = lateIndex \cup {[label |-> f, entry |-> e]}
    BY <1>2 DEF PutIndex, PutIndexThrows, StoreEntry, DelayEntry, IndexSet
  <2> HIDE DEF f, e
  <2>4. \A l \in Labels : index'[l] = index[l] \/ (l = f /\ index'[l] = e)
    BY <2>3 DEF TypeOK
  <2>5. \A s \in lateIndex' : s \in lateIndex \/ (s.label = f /\ s.entry = e)
    BY <2>3
  <2>6. \A l \in Labels : index'[l] # Nil => WellPlaced(l, index'[l])
    BY <2>2, <2>4 DEF EntriesWellPlaced
  <2>7. \A s \in lateIndex' : WellPlaced(s.label, s.entry)
    BY <2>2, <2>5 DEF EntriesWellPlaced
  <2> QED BY <2>6, <2>7 DEF EntriesWellPlaced
<1>3. ASSUME NEW s \in lateIndex, LateIndexSet(s) PROVE EntriesWellPlaced'
  <2>1. WellPlaced(s.label, s.entry)
    BY DEF EntriesWellPlaced
  <2>2. \A l \in Labels : index'[l] = index[l] \/ (l = s.label /\ index'[l] = s.entry)
    BY <1>3 DEF LateIndexSet, TypeOK
  <2>3. lateIndex' \subseteq lateIndex
    BY <1>3 DEF LateIndexSet
  <2>4. \A l \in Labels : index'[l] # Nil => WellPlaced(l, index'[l])
    BY <2>1, <2>2 DEF EntriesWellPlaced
  <2> QED BY <2>3, <2>4 DEF EntriesWellPlaced
<1>4. ASSUME NEW s \in lateData, LateDataSet(s) PROVE UNCHANGED <<index, lateIndex>>
  BY <1>4 DEF LateDataSet
<1>5. ASSUME NEW p \in Clients, PutStep(p) PROVE EntriesWellPlaced'
  <2>1. ASSUME \/ \E td \in Tds, v \in Values, kinds \in FlagSets : PutBegin(p, td, v, kinds)
               \/ \E kind \in Kinds : PutIndexRefused(p, kind)
               \/ PutData(p) \/ PutDataThrows(p) \/ PutDataRefused(p)
        PROVE  UNCHANGED <<index, lateIndex>>
    BY <2>1 DEF PutBegin, PutIndexRefused, PutData, PutDataThrows, PutDataRefused
  <2> QED BY <1>1, <1>2, <1>5, <2>1 DEF PutStep
<1>6. ASSUME NEW p \in Clients, Restart(p) \/ ReaderStep(p)
      PROVE  UNCHANGED <<index, lateIndex>>
  BY <1>6, ReaderFrame DEF Restart
<1>7. ASSUME UNCHANGED vars PROVE UNCHANGED <<index, lateIndex>>
  BY <1>7 DEF vars
<1> QED BY <1>1, <1>3, <1>4, <1>5, <1>6, <1>7, NextCases DEF LateStep

\* Any number of writers, restarts and failing calls: an entry, stored or on
\* its way, is on the node that stores the record it names.
THEOREM AlwaysWellPlaced == Spec => []EntriesWellPlaced
<1>1. Init => EntriesWellPlaced
  BY DEF Init, EntriesWellPlaced
<1>2. TypeOK /\ EntriesWellPlaced /\ [Next]_vars => EntriesWellPlaced'
  BY PlacedStep
<1> QED BY <1>1, <1>2, TypeCorrect, PTL DEF Spec

-----------------------------------------------------------------------------
(***************************************************************************)
(* Counters and index.  From here on a single writer w that never restarts.*)
(* CountersMatchIndex is inductive together with the type invariant and    *)
(* the fact that only writers are inside a Put.                            *)
(***************************************************************************)
OnlyWritersPut == \A p \in Clients : put[p] # Nil => p \in Writers
CounterInv == TypeOK /\ OnlyWritersPut /\ CountersMatchIndex

\* What is stored stays as it is, and what was refused is not forgotten.
IndexKept ==
    /\ \A l \in Labels : index[l] # Nil => index'[l] = index[l]
    /\ refusedIndex \subseteq refusedIndex'

\* What a Put's call writes is under the label its counter points to: a label
\* nothing has used, and after counting up the only new one below the counter.
LEMMA FreshLabel ==
    ASSUME CounterInv, NEW w \in Clients, Writers = {w}, NEW kind \in Kinds,
           put[w] # Nil, HasRoom(w, put[w], kind), CountUp(w, put[w], kind)
    PROVE  LET f == LabelOf(w, put[w], kind) IN
           /\ f \in Labels /\ ~Used(f)
           /\ \A l \in Labels : l[3] < ctr'[w][<<l[1], l[2]>>]
                                   <=> l = f \/ l[3] < ctr[w][<<l[1], l[2]>>]
<1> DEFINE k == CtrKey(put[w], kind)  f == LabelOf(w, put[w], kind)
<1>1. k \in Nodes \X Streams /\ ctr[w][k] \in 0 .. MaxCtr /\ f \in Labels
  BY PutTypes DEF CounterInv
<1>2. f = <<k[1], k[2], ctr[w][k]>> /\ k = <<k[1], k[2]>>
  BY <1>1 DEF LabelOf, CtrKey
<1>3. ~Used(f)
  BY <1>1, <1>2, BoundAssumption DEF BoundAssumption, CounterInv, CountersMatchIndex
<1>4. ctr'[w] = [ctr[w] EXCEPT ![k] = ctr[w][k] + 1]
  BY DEF CountUp, CounterInv, TypeOK
<1>5. ASSUME NEW l \in Labels
      PROVE  l[3] < ctr'[w][<<l[1], l[2]>>] <=> l = f \/ l[3] < ctr[w][<<l[1], l[2]>>]
  <2>1. /\ <<l[1], l[2]>> \in Nodes \X Streams /\ l[3] \in 0 .. MaxCtr - 1
        /\ l = <<l[1], l[2], l[3]>>
    BY DEF Labels
  <2>2. ctr[w] \in [Nodes \X Streams -> 0 .. MaxCtr]
    BY DEF CounterInv, TypeOK
  <2>3. CASE <<l[1], l[2]>> = k
    <3>1. ctr'[w][<<l[1], l[2]>>] = ctr[w][k] + 1
      BY <1>1, <1>4, <2>2, <2>3
    <3>2. l = f <=> l[3] = ctr[w][k]
      BY <1>2, <2>1, <2>3
    <3> QED BY <1>1, <2>1, <2>3, <3>1, <3>2, BoundAssumption DEF BoundAssumption
  <2>4. CASE <<l[1], l[2]>> # k
    <3>1. ctr'[w][<<l[1], l[2]>>] = ctr[w][<<l[1], l[2]>>]
      BY <1>4, <2>1, <2>2, <2>4
    <3>2. l # f
      BY <1>2, <2>4
    <3> QED BY <3>1, <3>2
  <2> QED BY <2>3, <2>4
<1> QED BY <1>1, <1>3, <1>5

\* No SET of a Put is lost between the counter and the store: an executed one
\* is in the index, one that threw unexecuted is in lateIndex, and one that
\* Redis refused is in refusedIndex.
LEMMA WriteCounters ==
    ASSUME CounterInv, NEW w \in Clients, Writers = {w}, NEW kind \in Kinds,
           PutIndex(w, kind) \/ PutIndexThrows(w, kind) \/ PutIndexRefused(w, kind)
    PROVE  CountersMatchIndex' /\ IndexKept
<1> DEFINE f == LabelOf(w, put[w], kind)  e == EntryOf(w, put[w], kind)
           r == IndexSet(w, put[w], kind)
<1>1. put[w] # Nil /\ HasRoom(w, put[w], kind) /\ CountUp(w, put[w], kind)
  BY DEF PutIndex, PutIndexThrows, PutIndexRefused
<1>2. /\ f \in Labels /\ ~Used(f)
      /\ \A l \in Labels : l[3] < ctr'[w][<<l[1], l[2]>>]
                              <=> l = f \/ l[3] < ctr[w][<<l[1], l[2]>>]
  BY <1>1, FreshLabel
<1>3. e \in Entries /\ e # Nil
  BY <1>1, PutTypes, NilAssumption DEF NilAssumption, CounterInv
<1>4. \/ /\ index' = [index EXCEPT ![f] = e]
         /\ lateIndex' = lateIndex /\ refusedIndex' = refusedIndex
      \/ /\ index' = index
         /\ lateIndex' = lateIndex \cup {r} /\ refusedIndex' = refusedIndex
      \/ /\ index' = index
         /\ lateIndex' = lateIndex /\ refusedIndex' = refusedIndex \cup {r}
  BY DEF PutIndex, PutIndexThrows, PutIndexRefused, StoreEntry, DelayEntry,
         storeVars, refusalVars, historyVars
<1>5. /\ index \in [Labels -> Entries \cup {Nil}] /\ r.label = f
      /\ \A s \in Unstored : s.label \in Labels /\ s.label # f /\ UsedOnce(s)
      /\ lateIndex \cap refusedIndex = {}
  BY <1>2 DEF CounterInv, CountersMatchIndex, TypeOK, Unstored, Used, IndexSet
<1>6. r \notin Unstored /\ index[f] = Nil
  BY <1>2, <1>5 DEF Used
<1> HIDE DEF f, e, r
<1>7. \A l \in Labels : Used(l)' <=> l = f \/ Used(l)
  <2>1. CASE index' = [index EXCEPT ![f] = e] /\ Unstored' = Unstored
    BY <1>2, <1>3, <1>5, <2>1 DEF Used
  <2>2. CASE index' = index /\ Unstored' = Unstored \cup {r}
    BY <1>5, <2>2 DEF Used
  <2> QED BY <1>4, <2>1, <2>2 DEF Unstored
<1>8. \A s \in Unstored' : UsedOnce(s)'
  <2>1. CASE index' = [index EXCEPT ![f] = e] /\ Unstored' = Unstored
    BY <1>2, <1>5, <2>1 DEF UsedOnce
  <2>2. CASE index' = index /\ Unstored' = Unstored \cup {r}
    BY <1>5, <1>6, <2>2 DEF UsedOnce
  <2> QED BY <1>4, <2>1, <2>2 DEF Unstored
<1>9. IndexKept
  BY <1>2, <1>4, <1>5, <1>6 DEF IndexKept
<1>10. \A p \in Writers, l \in Labels : Used(l)' <=> l[3] < ctr'[p][<<l[1], l[2]>>]
  BY <1>2, <1>7 DEF CounterInv, CountersMatchIndex
<1>11. (lateIndex \cap refusedIndex)' = {}
  BY <1>4, <1>5, <1>6 DEF Unstored
<1> QED BY <1>8, <1>9, <1>10, <1>11 DEF CountersMatchIndex

\* A SET that arrives late fills its own label, which nothing else has used.
LEMMA LateCounters ==
    ASSUME CounterInv, NEW s \in lateIndex, LateIndexSet(s)
    PROVE  CountersMatchIndex' /\ IndexKept
<1>1. s.label \in Labels /\ s.entry \in Entries /\ s.entry # Nil
  BY NilAssumption DEF NilAssumption, CounterInv, TypeOK
<1>2. /\ index \in [Labels -> Entries \cup {Nil}]
      /\ \A t \in Unstored : t.label \in Labels
  BY DEF CounterInv, TypeOK, Unstored
<1>3. /\ \A t \in Unstored : UsedOnce(t)
      /\ lateIndex \cap refusedIndex = {}
  BY DEF CounterInv, CountersMatchIndex
<1>4. /\ index' = [index EXCEPT ![s.label] = s.entry]
      /\ lateIndex' = lateIndex \ {s} /\ refusedIndex' = refusedIndex /\ ctr' = ctr
  BY DEF LateIndexSet, historyVars, refusalVars
<1>5. s \in Unstored /\ Unstored' = Unstored \ {s}
  BY <1>3, <1>4 DEF Unstored
<1>6. \A l \in Labels : Used(l)' <=> Used(l)
  <2> TAKE l \in Labels
  <2>1. CASE l = s.label
    BY <1>1, <1>2, <1>4, <1>5, <2>1 DEF Used
  <2>2. CASE l # s.label
    BY <1>2, <1>4, <1>5, <2>2 DEF Used
  <2> QED BY <2>1, <2>2
<1>7. \A t \in Unstored' : UsedOnce(t)'
  <2> SUFFICES ASSUME NEW t \in Unstored' PROVE UsedOnce(t)'
    OBVIOUS
  <2>1. t \in Unstored /\ t # s
    BY <1>5
  <2>2. t.label # s.label
    BY <1>3, <1>5, <2>1 DEF UsedOnce
  <2> QED BY <1>2, <1>3, <1>4, <1>5, <2>1, <2>2 DEF UsedOnce
<1>8. IndexKept
  BY <1>2, <1>3, <1>4, <1>5 DEF UsedOnce, IndexKept
<1>9. \A p \in Writers, l \in Labels : Used(l)' <=> l[3] < ctr'[p][<<l[1], l[2]>>]
  BY <1>4, <1>6 DEF CounterInv, CountersMatchIndex
<1>10. (lateIndex \cap refusedIndex)' = {}
  BY <1>3, <1>4
<1> QED BY <1>7, <1>8, <1>9, <1>10 DEF CountersMatchIndex

\* Only the four steps above touch the index or a counter.
LEMMA OtherCounters ==
    ASSUME CounterInv, UNCHANGED <<index, lateIndex, refusedIndex, ctr>>
    PROVE  CountersMatchIndex' /\ IndexKept
BY DEF CounterInv, CountersMatchIndex, Used, UsedOnce, Unstored, IndexKept

\* Every step of the system is one of the lemmas' steps.
LEMMA CounterStep ==
    ASSUME NEW w \in Clients, Writers = {w}, MaxRestart = 0, CounterInv, [Next]_vars
    PROVE  CountersMatchIndex' /\ OnlyWritersPut' /\ IndexKept
<1> DEFINE Goal == CountersMatchIndex' /\ IndexKept
<1> USE DEF storeVars, clientVars, refusalVars, historyVars
<1>1. ASSUME NEW p \in Clients, PutStep(p) PROVE Goal /\ OnlyWritersPut'
  <2>1. ASSUME NEW td \in Tds, NEW v \in Values, NEW kinds \in FlagSets,
               PutBegin(p, td, v, kinds)
        PROVE  Goal /\ OnlyWritersPut'
    <3>1. OnlyWritersPut'
      BY <2>1 DEF PutBegin, OnlyWritersPut, CounterInv, TypeOK
    <3> QED BY <2>1, <3>1, OtherCounters DEF PutBegin
  <2>2. ASSUME NEW kind \in Kinds,
               PutIndex(p, kind) \/ PutIndexThrows(p, kind) \/ PutIndexRefused(p, kind)
        PROVE  Goal /\ OnlyWritersPut'
    <3>1. p = w
      BY <2>2 DEF PutIndex, PutIndexThrows, PutIndexRefused, CounterInv, OnlyWritersPut
    <3>2. OnlyWritersPut'
      BY <2>2, <3>1
         DEF PutIndex, PutIndexThrows, PutIndexRefused, OnlyWritersPut, CounterInv, TypeOK
    <3> QED BY <2>2, <3>1, <3>2, WriteCounters
  <2>3. ASSUME PutData(p) \/ PutDataThrows(p) \/ PutDataRefused(p)
        PROVE  Goal /\ OnlyWritersPut'
    <3>1. OnlyWritersPut'
      BY <2>3 DEF PutData, PutDataThrows, PutDataRefused, OnlyWritersPut, CounterInv, TypeOK
    <3>2. UNCHANGED <<index, lateIndex, refusedIndex, ctr>>
      BY <2>3 DEF PutData, PutDataThrows, PutDataRefused
    <3> QED BY <3>1, <3>2, OtherCounters
  <2> QED BY <1>1, <2>1, <2>2, <2>3 DEF PutStep
<1>2. ASSUME NEW p \in Clients, Restart(p) PROVE FALSE
  BY <1>2 DEF Restart, CounterInv, TypeOK
<1>3. ASSUME NEW p \in Clients, ReaderStep(p)
      PROVE  UNCHANGED <<index, lateIndex, refusedIndex, ctr, put>>
  BY <1>3, ReaderFrame
<1>4. ASSUME LateStep PROVE Goal /\ OnlyWritersPut'
  <2>1. ASSUME NEW s \in lateIndex, LateIndexSet(s) PROVE Goal /\ OnlyWritersPut'
    <3>1. OnlyWritersPut'
      BY <2>1 DEF LateIndexSet, OnlyWritersPut, CounterInv
    <3> QED BY <2>1, <3>1, LateCounters
  <2>2. ASSUME NEW s \in lateData, LateDataSet(s) PROVE Goal /\ OnlyWritersPut'
    <3>1. OnlyWritersPut'
      BY <2>2 DEF LateDataSet, OnlyWritersPut, CounterInv
    <3> QED BY <2>2, <3>1, OtherCounters DEF LateDataSet
  <2> QED BY <1>4, <2>1, <2>2 DEF LateStep
<1>5. ASSUME UNCHANGED <<index, lateIndex, refusedIndex, ctr, put>>
      PROVE  Goal /\ OnlyWritersPut'
  <2>1. OnlyWritersPut'
    BY <1>5 DEF OnlyWritersPut, CounterInv
  <2> QED BY <1>5, <2>1, OtherCounters
<1>6. CASE UNCHANGED vars
  BY <1>5, <1>6 DEF vars
<1>7. CASE Next
  BY <1>1, <1>2, <1>3, <1>4, <1>5, <1>7, NextCases
<1> QED BY <1>6, <1>7

LEMMA CounterInit == Init => OnlyWritersPut /\ CountersMatchIndex
<1> SUFFICES ASSUME Init PROVE OnlyWritersPut /\ CountersMatchIndex
  OBVIOUS
<1>1. ASSUME NEW p \in Writers, NEW l \in Labels
      PROVE  Used(l) <=> l[3] < ctr[p][<<l[1], l[2]>>]
  <2>1. p \in Clients /\ <<l[1], l[2]>> \in Nodes \X Streams /\ l[3] \in 0 .. MaxCtr - 1
    BY ClientAssumption DEF ClientAssumption, Labels
  <2>2. ctr[p][<<l[1], l[2]>>] = 0
    BY <2>1 DEF Init
  <2>3. ~Used(l)
    BY DEF Init, Used, Unstored
  <2> QED BY <2>1, <2>2, <2>3, BoundAssumption DEF BoundAssumption
<1> QED BY <1>1 DEF Init, OnlyWritersPut, CountersMatchIndex, Unstored

\* One writer that never restarts keeps its counters and the stored entries in
\* step, through every failure of a call, every late and every refused SET.
THEOREM CountersMatch ==
    ASSUME NEW w \in Clients, Writers = {w}, MaxRestart = 0
    PROVE  Spec => []CountersMatchIndex
<1>1. Init => CounterInv
  BY InitType, CounterInit DEF CounterInv
<1>2. CounterInv /\ TypeOK' /\ [Next]_vars => CounterInv'
  BY CounterStep DEF CounterInv
<1>3. CounterInv => CountersMatchIndex
  BY DEF CounterInv
<1> QED BY <1>1, <1>2, <1>3, TypeCorrect, PTL DEF Spec

\* So it never overwrites an index entry: no record it has indexed is lost.
THEOREM NeverOverwrites ==
    ASSUME NEW w \in Clients, Writers = {w}, MaxRestart = 0
    PROVE  Spec => AppendOnly
<1>1. Init => CounterInv
  BY InitType, CounterInit DEF CounterInv
<1>2. CounterInv /\ TypeOK' /\ [Next]_vars => CounterInv'
  BY CounterStep DEF CounterInv
<1>3. CounterInv /\ [Next]_vars
        => [\A l \in Labels : index[l] # Nil => index'[l] = index[l]]_vars
  BY CounterStep DEF IndexKept
<1> QED BY <1>1, <1>2, <1>3, TypeCorrect, PTL DEF Spec, AppendOnly

-----------------------------------------------------------------------------
(***************************************************************************)
(* Entries before data.                                                    *)
(***************************************************************************)

\* The entry of r in index k, under number n of its stream, is stored or was
\* refused.
StoredAt(r, k, n) ==
    LET l == <<PutNode(r.td), Stream(k, r.td[2], r.val), n>>
        e == Entry(k, r.td, r.val, n)
    IN index[l] = e \/ [label |-> l, entry |-> e] \in refusedIndex
Stored(r, k) == \E n \in 0 .. MaxCtr - 1 : StoredAt(r, k, n)

\* The indexes a running Put is done with are stored, or were refused.
PutIndexed ==
    \A p \in Clients : put[p] # Nil =>
        \A k \in put[p].kinds \ put[p].todo : Stored(put[p], k)

\* The label and the entry of a record exist.
LEMMA StoredTypes ==
    ASSUME NEW td \in Tds, NEW v \in Values, NEW k \in Kinds, NEW n \in 0 .. MaxCtr - 1
    PROVE  /\ <<PutNode(td), Stream(k, td[2], v), n>> \in Labels
           /\ Entry(k, td, v, n) \in Entries /\ Entry(k, td, v, n) # Nil
<1>1. PutNode(td) \in Nodes /\ Stream(k, td[2], v) \in Streams
  BY RouteTypes, StreamType
<1>2. Entry(k, td, v, n) \in Entries
  BY BoundAssumption DEF BoundAssumption, Entry, Entries
<1> QED BY <1>1, <1>2, NilAssumption DEF NilAssumption, Labels

\* What is true of r and k in the next state, r being what it is now.
StoredNext(r, k) ==
    \E n \in 0 .. MaxCtr - 1 :
        LET l == <<PutNode(r.td), Stream(k, r.td[2], r.val), n>>
            e == Entry(k, r.td, r.val, n)
        IN index'[l] = e \/ [label |-> l, entry |-> e] \in refusedIndex'

\* An index that only grows keeps what it stores.
LEMMA StoredStays ==
    ASSUME IndexKept, NEW r, r.td \in Tds, r.val \in Values, NEW k \in Kinds, Stored(r, k)
    PROVE  StoredNext(r, k)
<1>1. PICK n \in 0 .. MaxCtr - 1 : StoredAt(r, k, n)
  BY DEF Stored
<1> DEFINE l == <<PutNode(r.td), Stream(k, r.td[2], r.val), n>>
           e == Entry(k, r.td, r.val, n)
<1>2. l \in Labels /\ e # Nil
  BY StoredTypes
<1>3. index[l] = e \/ [label |-> l, entry |-> e] \in refusedIndex
  BY <1>1 DEF StoredAt
<1> HIDE DEF l, e
<1>4. index'[l] = e \/ [label |-> l, entry |-> e] \in refusedIndex'
  BY <1>2, <1>3 DEF IndexKept
<1> QED BY <1>4 DEF StoredNext, l, e

VisibleInv == CounterInv /\ PutIndexed /\ VisibleIsIndexed

LEMMA VisibleIsStored == VisibleIsIndexed <=> \A r \in issued : \A k \in r.kinds : Stored(r, k)
BY DEF VisibleIsIndexed, Stored, StoredAt

\* A step that sends no data leaves everything stored that was sent for.
LEMMA IssuedStays ==
    ASSUME VisibleInv, IndexKept, issued' = issued
    PROVE  VisibleIsIndexed'
<1>1. ASSUME NEW r \in issued, NEW k \in r.kinds PROVE StoredNext(r, k)
  <2>1. r.td \in Tds /\ r.val \in Values /\ k \in Kinds
    BY DEF VisibleInv, CounterInv, TypeOK, Records
  <2>2. Stored(r, k)
    BY VisibleIsStored DEF VisibleInv
  <2> QED BY <2>1, <2>2, StoredStays
<1> QED BY <1>1 DEF VisibleIsIndexed, StoredNext

\* A step that sends no data and only touches the indexes a Put is done with
\* by ending the Put leaves everything stored.
LEMMA VisibleStays ==
    ASSUME VisibleInv, IndexKept, issued' = issued,
           \A p \in Clients : put'[p] = put[p] \/ put'[p] = Nil
                              \/ put'[p].todo = put'[p].kinds
    PROVE  PutIndexed' /\ VisibleIsIndexed'
<1>1. ASSUME NEW p \in Clients, put'[p] # Nil,
             NEW k \in put'[p].kinds \ put'[p].todo
      PROVE  put'[p] = put[p] /\ StoredNext(put[p], k)
  <2>1. put'[p] = put[p]
    BY <1>1
  <2>2. put[p] \in Puts
    BY <1>1, <2>1 DEF VisibleInv, CounterInv, TypeOK
  <2>3. put[p].td \in Tds /\ put[p].val \in Values /\ k \in Kinds
    BY <1>1, <2>1, <2>2 DEF Puts
  <2>4. Stored(put[p], k)
    BY <1>1, <2>1 DEF VisibleInv, PutIndexed
  <2> QED BY <2>1, <2>3, <2>4, StoredStays
<1>2. PutIndexed'
  <2> SUFFICES ASSUME NEW p \in Clients, put'[p] # Nil,
                      NEW k \in put'[p].kinds \ put'[p].todo
               PROVE  StoredNext(put'[p], k)
    BY DEF PutIndexed, Stored, StoredAt, StoredNext
  <2>1. put'[p] = put[p] /\ StoredNext(put[p], k)
    BY <1>1
  <2> QED BY <2>1
<1> QED BY <1>2, IssuedStays

\* The answered SET of an index has stored its entry, or was refused.
LEMMA IndexStores ==
    ASSUME VisibleInv, NEW w \in Clients, Writers = {w}, NEW kind \in Kinds,
           PutIndex(w, kind) \/ PutIndexRefused(w, kind), IndexKept
    PROVE  PutIndexed'
<1> DEFINE r == put[w]  n == ctr[w][CtrKey(r, kind)]
<1>1. /\ r # Nil /\ HasRoom(w, r, kind)
      /\ \/ index' = [index EXCEPT ![LabelOf(w, r, kind)] = EntryOf(w, r, kind)]
         \/ IndexSet(w, r, kind) \in refusedIndex'
      /\ put' = [put EXCEPT ![w] = [r EXCEPT !.todo = r.todo \ {kind}]]
  BY DEF PutIndex, PutIndexRefused, StoreEntry
<1>2. TypeOK
  BY DEF VisibleInv, CounterInv
<1>3. r \in Puts /\ n \in 0 .. MaxCtr /\ LabelOf(w, r, kind) \in Labels
  BY <1>1, <1>2, PutTypes
<1>4. n \in 0 .. MaxCtr - 1
  BY <1>1, <1>3, BoundAssumption DEF BoundAssumption, HasRoom
<1>5. StoredNext(r, kind)
  <2>1. /\ LabelOf(w, r, kind) = <<PutNode(r.td), Stream(kind, r.td[2], r.val), n>>
        /\ EntryOf(w, r, kind) = Entry(kind, r.td, r.val, n)
    BY DEF LabelOf, EntryOf
  <2>2. \/ index'[LabelOf(w, r, kind)] = EntryOf(w, r, kind)
        \/ [label |-> LabelOf(w, r, kind), entry |-> EntryOf(w, r, kind)] \in refusedIndex'
    BY <1>1, <1>2, <1>3 DEF TypeOK, IndexSet
  <2> HIDE DEF r, n
  <2> QED BY <1>4, <2>1, <2>2 DEF StoredNext
<1>6. \A p \in Clients \ {w} : put'[p] = put[p]
  BY <1>1
<1>7. /\ put'[w].td = r.td /\ put'[w].val = r.val
      /\ put'[w].kinds = r.kinds /\ put'[w].todo = r.todo \ {kind}
  BY <1>1, <1>2, <1>3 DEF Puts, TypeOK
<1>8. r.td \in Tds /\ r.val \in Values /\ r.kinds \subseteq Kinds
  BY <1>3 DEF Puts
<1>9. \A k \in r.kinds \ r.todo : Stored(r, k)
  BY <1>1 DEF VisibleInv, PutIndexed
<1> HIDE DEF r, n
<1>10. ASSUME NEW k \in r.kinds \ (r.todo \ {kind}) PROVE StoredNext(r, k)
  <2>1. CASE k = kind
    BY <1>5, <2>1
  <2>2. CASE k # kind
    BY <1>8, <1>9, <2>2, StoredStays
  <2> QED BY <2>1, <2>2
<1>11. ASSUME NEW p \in Clients, put'[p] # Nil, NEW k \in put'[p].kinds \ put'[p].todo
       PROVE  StoredNext(put'[p], k)
  <2>1. CASE p = w
    <3>1. StoredNext(r, k)
      BY <1>7, <1>10, <1>11, <2>1
    <3> QED BY <1>7, <2>1, <3>1 DEF StoredNext
  <2>2. CASE p # w
    <3> DEFINE s == put[p]
    <3>1. put'[p] = s /\ s # Nil
      BY <1>6, <1>11, <2>2
    <3>2. s \in Puts /\ k \in s.kinds \ s.todo
      BY <1>2, <1>11, <3>1 DEF TypeOK
    <3>3. s.td \in Tds /\ s.val \in Values /\ k \in Kinds
      BY <3>2 DEF Puts
    <3>4. Stored(s, k)
      BY <3>1, <3>2 DEF VisibleInv, PutIndexed
    <3> QED BY <3>1, <3>3, <3>4, StoredStays
  <2> QED BY <2>1, <2>2
<1> QED BY <1>11 DEF PutIndexed, Stored, StoredAt, StoredNext

\* Data is sent when nothing is left to do.
LEMMA DataVisible ==
    ASSUME VisibleInv, NEW p \in Clients,
           PutData(p) \/ PutDataThrows(p) \/ PutDataRefused(p)
    PROVE  PutIndexed' /\ VisibleIsIndexed'
<1> DEFINE r == put[p]
<1>1. /\ r # Nil /\ r.todo = {} /\ index' = index /\ refusedIndex' = refusedIndex
      /\ issued' = issued \cup {RecordOf(r)} /\ put' = [put EXCEPT ![p] = Nil]
  BY DEF PutData, PutDataThrows, PutDataRefused, Indexed, storeVars, refusalVars
<1>2. \A k \in r.kinds : Stored(r, k)
  BY <1>1 DEF VisibleInv, PutIndexed
<1>3. ASSUME NEW s \in issued', NEW k \in s.kinds PROVE Stored(s, k)
  <2>1. CASE s \in issued
    BY <2>1, VisibleIsStored DEF VisibleInv
  <2>2. CASE s = RecordOf(r)
    <3>1. s.td = r.td /\ s.val = r.val /\ s.kinds = r.kinds
      BY <2>2 DEF RecordOf
    <3>2. Stored(r, k)
      BY <1>2, <3>1
    <3> HIDE DEF r
    <3> QED BY <3>1, <3>2 DEF Stored, StoredAt
  <2> QED BY <1>1, <2>1, <2>2
<1>4. VisibleIsIndexed'
  BY <1>1, <1>3 DEF VisibleIsIndexed, Stored, StoredAt
<1>5. \A c \in Clients : put'[c] # Nil => put'[c] = put[c]
  BY <1>1 DEF VisibleInv, CounterInv, TypeOK
<1>6. PutIndexed'
  <2> SUFFICES ASSUME NEW c \in Clients, put'[c] # Nil,
                      NEW k \in put'[c].kinds \ put'[c].todo
               PROVE  StoredNext(put'[c], k)
    BY DEF PutIndexed, Stored, StoredAt, StoredNext
  <2>1. put'[c] = put[c] /\ Stored(put[c], k)
    BY <1>5 DEF VisibleInv, PutIndexed
  <2> QED BY <1>1, <2>1 DEF Stored, StoredAt, StoredNext
<1> QED BY <1>4, <1>6

LEMMA VisibleStep ==
    ASSUME NEW w \in Clients, Writers = {w}, MaxRestart = 0,
           VisibleInv, TypeOK', [Next]_vars
    PROVE  VisibleInv' /\ IndexKept
<1> USE DEF storeVars, clientVars, refusalVars, historyVars
<1> DEFINE Goal == PutIndexed' /\ VisibleIsIndexed'
<1>1. CounterInv' /\ IndexKept
  BY CounterStep DEF VisibleInv, CounterInv
<1>2. ASSUME UNCHANGED <<put, issued>> PROVE Goal
  BY <1>1, <1>2, VisibleStays
<1>3. put \in [Clients -> Puts \cup {Nil}]
  BY DEF VisibleInv, CounterInv, TypeOK
<1>4. ASSUME NEW p \in Clients, PutStep(p) PROVE Goal
  <2>1. ASSUME NEW td \in Tds, NEW v \in Values, NEW kinds \in FlagSets,
               PutBegin(p, td, v, kinds)
        PROVE  Goal
    <3>1. \A c \in Clients : put'[c] = put[c] \/ put'[c].todo = put'[c].kinds
      BY <1>3, <2>1 DEF PutBegin
    <3> QED BY <1>1, <2>1, <3>1, VisibleStays DEF PutBegin
  <2>2. ASSUME NEW kind \in Kinds, PutIndex(p, kind) \/ PutIndexRefused(p, kind)
        PROVE  Goal
    <3>1. p = w
      BY <2>2 DEF PutIndex, PutIndexRefused, VisibleInv, CounterInv, OnlyWritersPut
    <3>2. PutIndexed'
      BY <1>1, <2>2, <3>1, IndexStores
    <3>3. issued' = issued
      BY <2>2 DEF PutIndex, PutIndexRefused
    <3>4. VisibleIsIndexed'
      BY <1>1, <3>3, IssuedStays
    <3> QED BY <3>2, <3>4
  <2>3. ASSUME NEW kind \in Kinds, PutIndexThrows(p, kind) PROVE Goal
    <3>1. \A c \in Clients : put'[c] = put[c] \/ put'[c] = Nil
      BY <1>3, <2>3 DEF PutIndexThrows
    <3> QED BY <1>1, <2>3, <3>1, VisibleStays DEF PutIndexThrows
  <2>4. ASSUME PutData(p) \/ PutDataThrows(p) \/ PutDataRefused(p) PROVE Goal
    BY <2>4, DataVisible
  <2> QED BY <1>4, <2>1, <2>2, <2>3, <2>4 DEF PutStep
<1>5. ASSUME NEW p \in Clients, Restart(p) PROVE FALSE
  BY <1>5 DEF Restart, VisibleInv, CounterInv, TypeOK
<1>6. ASSUME NEW p \in Clients, ReaderStep(p) PROVE UNCHANGED <<put, issued>>
  BY <1>6, ReaderFrame
<1>7. ASSUME LateStep PROVE UNCHANGED <<put, issued>>
  BY <1>7 DEF LateStep, LateIndexSet, LateDataSet
<1>8. ASSUME UNCHANGED vars PROVE UNCHANGED <<put, issued>>
  BY <1>8 DEF vars
<1>9. Goal
  BY <1>2, <1>4, <1>5, <1>6, <1>7, <1>8, NextCases
<1> QED BY <1>1, <1>9 DEF VisibleInv

LEMMA VisibleInit == Init => VisibleInv
<1>1. Init => PutIndexed /\ VisibleIsIndexed
  BY DEF Init, PutIndexed, VisibleIsIndexed
<1> QED BY <1>1, InitType, CounterInit DEF VisibleInv, CounterInv

\* A reader never sees the data of a record whose index entries are still to
\* come, through every failure of a call and every late SET; only an entry that
\* Redis refused may be missing.
THEOREM NeverVisibleEarly ==
    ASSUME NEW w \in Clients, Writers = {w}, MaxRestart = 0
    PROVE  Spec => []VisibleIsIndexed
<1>1. VisibleInv /\ TypeOK' /\ [Next]_vars => VisibleInv'
  BY VisibleStep
<1>2. VisibleInv => VisibleIsIndexed
  BY DEF VisibleInv
<1> QED BY <1>1, <1>2, VisibleInit, TypeCorrect, PTL DEF Spec

\* Where Redis refuses nothing, the steps that are refused do not exist.
LEMMA NothingRefused ==
    ASSUME TypeOK, MaxRefuse = 0, NEW p \in Clients
    PROVE  /\ ~RefusedStep(p) /\ ~PutDataRefused(p)
           /\ \A kind \in Kinds : ~PutIndexRefused(p, kind)
           /\ \A td \in Tds : ~GetRefused(p, td)
BY DEF TypeOK, Refuse, RefusedStep, ScanRefused, FetchRefused, PutDataRefused,
       PutIndexRefused, GetRefused

-----------------------------------------------------------------------------
(***************************************************************************)
(* Completeness, if no call throws and no command is refused.  The         *)
(* operators take the stores as arguments: ix is the index, da the data.   *)
(***************************************************************************)

\* What a proxy tests of an entry besides its row.
Fits(q, e) ==
    \/ q.kind = "col"
    \/ q.kind \in {"v1", "v2"} /\ e.tag = q.val
    \/ q.kind = "ore" /\ OreMatch(q.cmp, q.val, e.tag)

QueryLabel(q, node, n) == <<node, Stream(q.kind, q.col, q.val), n>>

\* The entry under number n of the stream q walks on td's node leads q to td.
Leads(ix, q, td, n) ==
    LET e == ix[QueryLabel(q, PutNode(td), n)] IN
    /\ e # Nil /\ e.td = td /\ e.row = n /\ Fits(q, e)
    /\ q.kind = "col" => n < q.val

\* q has not come to label n of td's node yet.
Before(q, td, n) == PutNode(td) > q.node \/ (PutNode(td) = q.node /\ n >= q.ctr)
Ahead(ix, q, td) == \E n \in 0 .. MaxCtr - 1 : Leads(ix, q, td, n) /\ Before(q, td, n)

Pending(ix, q, td) ==
    \/ td \in Found(q.all)
    \/ PutNode(td) = q.node /\ td \in Found(q.ret)
    \/ Ahead(ix, q, td)

\* The matching entry whose data is being fetched is the one at the counter.
HitHere(ix, q) ==
    q.hit # Nil => /\ q.node \in Nodes /\ q.ctr < MaxCtr
                   /\ ix[QueryLabel(q, q.node, q.ctr)] # Nil
                   /\ ix[QueryLabel(q, q.node, q.ctr)].td = q.hit

\* The loop invariant of every query.
GoodQuery(ix, da, q) ==
    /\ HitHere(ix, q)
    /\ \A td \in q.must : da[DataKey(td)] # Nil /\ Pending(ix, q, td)

QueryInv == \A p \in Clients : qry[p] # Nil => GoodQuery(index, data, qry[p])
NoLate == lateIndex = {} /\ lateData = {} /\ refusedIndex = {}
AckedVisible ==
    \A td \in Tds : acked[td] # Nil =>
        acked[td] \in issued /\ acked[td].td = td /\ data[DataKey(td)] # Nil

SearchInv == VisibleInv /\ NoLate /\ AckedVisible /\ QueryInv

Data1 == \A d \in Nodes \X Tds : data[d] # Nil => data'[d] # Nil

\* A query on a valid stream.
Valid(q) == q \in Queries /\ (q.kind = "v2" => q.val \in Values)

LEMMA QueryLabelType ==
    ASSUME NEW q, Valid(q), NEW node \in Nodes, NEW n \in 0 .. MaxCtr - 1
    PROVE  QueryLabel(q, node, n) \in Labels
<1>1. q.kind \in Kinds /\ q.col \in Cols
  BY DEF Valid, Queries
<1>2. Stream(q.kind, q.col, q.val) \in Streams
  BY <1>1, StreamType DEF Valid
<1> QED BY <1>2 DEF QueryLabel, Labels

\* What the loop invariant says of the stores, other steps do not take back.
LEMMA GoodStays ==
    ASSUME NEW q, Valid(q), GoodQuery(index, data, q), IndexKept, Data1
    PROVE  GoodQuery(index', data', q)
<1>1. HitHere(index', q)
  <2>1. ASSUME q.hit # Nil PROVE QueryLabel(q, q.node, q.ctr) \in Labels
    <3>1. q.node \in Nodes /\ q.ctr \in 0 .. MaxCtr - 1
      BY <2>1, BoundAssumption DEF BoundAssumption, GoodQuery, HitHere, Valid, Queries
    <3> QED BY <3>1, QueryLabelType
  <2> QED BY <2>1 DEF GoodQuery, HitHere, IndexKept
<1>2. ASSUME NEW td \in q.must
      PROVE  data'[DataKey(td)] # Nil /\ Pending(index', q, td)
  <2>1. td \in Tds
    BY DEF Valid, Queries
  <2>2. PutNode(td) \in Nodes /\ DataKey(td) \in Nodes \X Tds
    BY <2>1, RouteTypes DEF DataKey
  <2>3. \A n \in 0 .. MaxCtr - 1 : Leads(index, q, td, n) => Leads(index', q, td, n)
    <3> TAKE n \in 0 .. MaxCtr - 1
    <3>1. QueryLabel(q, PutNode(td), n) \in Labels
      BY <2>2, QueryLabelType
    <3> QED BY <3>1 DEF Leads, IndexKept
  <2> QED BY <2>2, <2>3 DEF GoodQuery, Pending, Ahead, Data1
<1> QED BY <1>1, <1>2 DEF GoodQuery

\* Nothing that was found is lost when a list grows.
LEMMA FoundAppend ==
    ASSUME NEW s \in Seq(Rows), NEW h \in Hits
    PROVE  Found(s) \subseteq Found(Append(s, h)) /\ h.td \in Found(Append(s, h))
<1> DEFINE t == Append(s, h)
<1>1. /\ DOMAIN t = 1 .. Len(s) + 1 /\ Len(s) \in Nat
      /\ \A i \in DOMAIN s : i \in DOMAIN t /\ t[i] = s[i]
      /\ t[Len(s) + 1] = h
  BY AppendProperties
<1>2. \A i \in DOMAIN s : s[i] \in Members(t)
  BY <1>1 DEF Members
<1>3. h \in Members(t)
  <2>1. Len(s) + 1 \in DOMAIN t
    BY <1>1
  <2> QED BY <1>1, <2>1 DEF Members
<1>4. Members(s) \subseteq Members(t)
  BY <1>2 DEF Members
<1> QED BY <1>3, <1>4 DEF Found

LEMMA FoundConcat ==
    ASSUME NEW s \in Seq(Rows), NEW t \in Seq(Rows)
    PROVE  Found(s) \subseteq Found(s \o t) /\ Found(t) \subseteq Found(s \o t)
<1> DEFINE u == s \o t
<1>1. /\ DOMAIN u = 1 .. Len(s) + Len(t) /\ Len(s) \in Nat /\ Len(t) \in Nat
      /\ DOMAIN s = 1 .. Len(s) /\ DOMAIN t = 1 .. Len(t)
      /\ \A i \in 1 .. Len(s) + Len(t) : u[i] = IF i <= Len(s) THEN s[i] ELSE t[i - Len(s)]
  BY ConcatProperties
<1>2. \A i \in DOMAIN s : i \in DOMAIN u /\ u[i] = s[i]
  BY <1>1
<1>3. \A i \in DOMAIN t : i + Len(s) \in DOMAIN u /\ u[i + Len(s)] = t[i]
  BY <1>1
<1>4. Members(s) \subseteq Members(u)
  BY <1>2 DEF Members
<1>5. Members(t) \subseteq Members(u)
  BY <1>3 DEF Members
<1> QED BY <1>4, <1>5 DEF Found

\* A turn of a loop leaves the entry at the counter behind only if it leads to
\* no record; otherwise the entry's record is the one to be fetched.
LEMMA TurnGood ==
    ASSUME TypeOK, NEW p \in Clients, NEW q, q = qry[p], GoodQuery(index, data, q),
           SearchLoop(p) \/ ColumnLoop(p)
    PROVE  GoodQuery(index, data, qry'[p])
<1>1. /\ Asked(p) /\ q.hit = Nil
      /\ qry'[p] = IF IndexGet(q) # Nil /\ Matches(q, IndexGet(q))
                   THEN [q EXCEPT !.hit = IndexGet(q).td] ELSE Advance(q)
  BY DEF SearchLoop, ColumnLoop, UpdateQuery, TypeOK, Exhausted
<1>2. Valid(q) /\ q.node \in Nodes /\ q.ctr \in Nat
  BY <1>1, ScanTypes DEF TypeOK, Asked, Valid, Queries
<1>3. CASE IndexGet(q) # Nil /\ Matches(q, IndexGet(q))
  <2> DEFINE n == [q EXCEPT !.hit = IndexGet(q).td]
  <2>1. qry'[p] = n
    BY <1>1, <1>3
  <2>2. /\ n.kind = q.kind /\ n.col = q.col /\ n.val = q.val /\ n.cmp = q.cmp
        /\ n.node = q.node /\ n.ctr = q.ctr /\ n.ret = q.ret /\ n.all = q.all
        /\ n.must = q.must /\ n.hit = IndexGet(q).td
    BY <1>2 DEF Valid, Queries
  <2>3. q.ctr < MaxCtr /\ IndexGet(q) = index[QueryLabel(q, q.node, q.ctr)]
    BY <1>3 DEF IndexGet, QueryLabel
  <2> HIDE DEF n
  <2>4. HitHere(index, n)
    BY <1>2, <1>3, <2>2, <2>3 DEF HitHere, QueryLabel
  <2>5. \A td \in q.must, i \in 0 .. MaxCtr - 1 :
          Leads(index, q, td, i) /\ Before(q, td, i)
            => Leads(index, n, td, i) /\ Before(n, td, i)
    BY <2>2 DEF Before, Leads, Fits, QueryLabel
  <2>6. \A td \in n.must : Pending(index, n, td)
    BY <2>2, <2>5 DEF GoodQuery, Pending, Ahead
  <2> QED BY <2>1, <2>2, <2>4, <2>6 DEF GoodQuery
<1>4. CASE ~(IndexGet(q) # Nil /\ Matches(q, IndexGet(q)))
  <2> DEFINE n == Advance(q)
  <2>1. qry'[p] = n
    BY <1>1, <1>4
  <2>2. /\ n.kind = q.kind /\ n.col = q.col /\ n.val = q.val /\ n.cmp = q.cmp
        /\ n.node = q.node /\ n.ctr = q.ctr + 1 /\ n.ret = q.ret /\ n.all = q.all
        /\ n.must = q.must /\ n.hit = Nil
    BY <1>1, <1>2 DEF Valid, Queries, Advance
  <2> HIDE DEF n
  <2>3. ASSUME NEW td \in q.must, NEW i \in 0 .. MaxCtr - 1,
               Leads(index, q, td, i), Before(q, td, i)
        PROVE  Leads(index, n, td, i) /\ Before(n, td, i)
    <3>1. ~(PutNode(td) = q.node /\ i = q.ctr)
      <4> SUFFICES ASSUME PutNode(td) = q.node, i = q.ctr PROVE FALSE
        OBVIOUS
      <4>1. IndexGet(q) = index[QueryLabel(q, PutNode(td), i)]
        BY BoundAssumption DEF BoundAssumption, IndexGet, QueryLabel
      <4>2. Matches(q, IndexGet(q))
        BY <2>3, <4>1 DEF Leads, Fits, Matches
      <4> QED BY <1>4, <2>3, <4>1, <4>2 DEF Leads
    <3>2. Before(n, td, i)
      BY <1>2, <2>2, <2>3, <3>1 DEF Before
    <3> QED BY <2>2, <2>3, <3>2 DEF Leads, Fits, QueryLabel
  <2>4. \A td \in n.must : Pending(index, n, td)
    BY <2>2, <2>3 DEF GoodQuery, Pending, Ahead
  <2> QED BY <2>1, <2>2, <2>4 DEF GoodQuery, HitHere
<1> QED BY <1>3, <1>4

\* Fetching collects the record of the entry at the counter: its data exists.
LEMMA FetchGood ==
    ASSUME TypeOK, NEW p \in Clients, NEW q, q = qry[p], GoodQuery(index, data, q),
           FetchData(p)
    PROVE  GoodQuery(index, data, qry'[p])
<1> DEFINE v == data[<<q.node, q.hit>>]
           r == Push(q.ret, q.hit, v)
           n == [q EXCEPT !.hit = Nil, !.ctr = q.ctr + 1, !.ret = r]
<1>1. Asked(p) /\ q.hit # Nil /\ qry'[p] = n
  BY DEF FetchData, UpdateQuery, TypeOK
<1>2. /\ Valid(q) /\ q.node \in Nodes /\ q.ctr \in Nat /\ v \in Values \cup {Nil}
      /\ q.hit \in Tds /\ q.ret \in Seq(Rows) /\ q.must \subseteq Tds
  BY <1>1, ScanTypes DEF TypeOK, Asked, Valid, Queries
<1>3. /\ n.kind = q.kind /\ n.col = q.col /\ n.val = q.val /\ n.cmp = q.cmp
      /\ n.node = q.node /\ n.ctr = q.ctr + 1 /\ n.ret = r /\ n.all = q.all
      /\ n.must = q.must /\ n.hit = Nil
  BY <1>2 DEF Valid, Queries
<1>4. Found(q.ret) \subseteq Found(r) /\ (v # Nil => q.hit \in Found(r))
  <2>1. CASE v = Nil
    BY <2>1 DEF Push
  <2>2. CASE v # Nil
    <3>1. [td |-> q.hit, val |-> v] \in Hits
      BY <1>2, <2>2 DEF Hits
    <3> QED BY <1>2, <2>2, <3>1, FoundAppend DEF Push
  <2> QED BY <2>1, <2>2
<1> HIDE DEF n, r
<1>5. ASSUME NEW td \in q.must, NEW i \in 0 .. MaxCtr - 1,
             Leads(index, q, td, i), Before(q, td, i)
      PROVE  Pending(index, n, td)
  <2>1. CASE PutNode(td) = q.node /\ i = q.ctr
    <3>1. q.hit = td
      BY <1>1, <1>5, <2>1 DEF GoodQuery, HitHere, Leads
    <3>2. v # Nil
      BY <2>1, <3>1 DEF GoodQuery, DataKey
    <3> QED BY <1>3, <1>4, <2>1, <3>1, <3>2 DEF Pending
  <2>2. CASE ~(PutNode(td) = q.node /\ i = q.ctr)
    <3>1. Before(n, td, i)
      BY <1>2, <1>3, <1>5, <2>2 DEF Before
    <3>2. Leads(index, n, td, i)
      BY <1>3, <1>5 DEF Leads, Fits, QueryLabel
    <3> QED BY <3>1, <3>2 DEF Pending, Ahead
  <2> QED BY <2>1, <2>2
<1>6. \A td \in n.must : Pending(index, n, td)
  <2> SUFFICES ASSUME NEW td \in q.must PROVE Pending(index, n, td)
    BY <1>3
  <2>1. CASE td \in Found(q.all) \/ (PutNode(td) = q.node /\ td \in Found(q.ret))
    BY <1>3, <1>4, <2>1 DEF Pending
  <2>2. CASE Ahead(index, q, td)
    BY <1>5, <2>2 DEF Ahead
  <2> QED BY <2>1, <2>2 DEF GoodQuery, Pending
<1> QED BY <1>1, <1>3, <1>6 DEF GoodQuery, HitHere

\* A stream without late or refused SETs has no hole: the first label without an
\* entry is behind the last entry.
LEMMA NoHole ==
    ASSUME CounterInv, NoLate, NEW w \in Clients, Writers = {w},
           NEW l \in Labels, NEW m \in Labels,
           m[1] = l[1], m[2] = l[2], l[3] <= m[3], index[m] # Nil
    PROVE  index[l] # Nil
<1>1. Used(m)
  BY DEF Used
<1>2. m[3] < ctr[w][<<l[1], l[2]>>]
  BY <1>1 DEF CounterInv, CountersMatchIndex
<1>3. <<l[1], l[2]>> \in Nodes \X Streams /\ l[3] \in 0 .. MaxCtr - 1 /\ m[3] \in 0 .. MaxCtr - 1
  BY DEF Labels
<1>4. ctr[w][<<l[1], l[2]>>] \in 0 .. MaxCtr
  BY <1>3 DEF CounterInv, TypeOK
<1>5. l[3] < ctr[w][<<l[1], l[2]>>]
  BY <1>2, <1>3, <1>4, BoundAssumption DEF BoundAssumption
<1>6. Used(l)
  BY <1>5 DEF CounterInv, CountersMatchIndex
<1> QED BY <1>6 DEF Used, Unstored, NoLate

\* When a proxy replies, no entry of its node is ahead, and what it found is
\* collected.
LEMMA ReplyGood ==
    ASSUME CounterInv, NoLate, NEW w \in Clients, Writers = {w},
           NEW p \in Clients, NEW q, q = qry[p], GoodQuery(index, data, q),
           NodeReply(p)
    PROVE  GoodQuery(index, data, qry'[p])
<1> DEFINE n == [q EXCEPT !.node = q.node + 1, !.ctr = 0,
                          !.ret = Cleared(q.ret), !.all = Collect(q)]
<1>1. Asked(p) /\ q.hit = Nil /\ Exhausted(q) /\ qry'[p] = n
  BY DEF NodeReply, UpdateQuery, CounterInv, TypeOK
<1>2. /\ Valid(q) /\ q.node \in Nodes /\ q.ctr \in Nat /\ q.must \subseteq Tds
      /\ q.ret \in Seq(Rows) /\ q.all \in Seq(Rows)
      /\ q.kind \in Kinds /\ q.val \in Nat
  BY <1>1, ScanTypes DEF CounterInv, TypeOK, Asked, Valid, Queries
<1>3. /\ n.kind = q.kind /\ n.col = q.col /\ n.val = q.val /\ n.cmp = q.cmp
      /\ n.node = q.node + 1 /\ n.ctr = 0 /\ n.all = Collect(q)
      /\ n.must = q.must /\ n.hit = Nil
  BY <1>1, <1>2 DEF Valid, Queries
<1>4. Found(q.all) \subseteq Found(Collect(q)) /\ Found(q.ret) \subseteq Found(Collect(q))
  BY <1>2, FoundConcat DEF Collect
<1> HIDE DEF n
<1>5. ASSUME NEW td \in q.must, NEW i \in 0 .. MaxCtr - 1,
             Leads(index, q, td, i), Before(q, td, i)
      PROVE  Leads(index, n, td, i) /\ Before(n, td, i)
  <2>1. PutNode(td) \in Nodes
    BY <1>2, RouteTypes
  <2>2. PutNode(td) # q.node
    <3> SUFFICES ASSUME PutNode(td) = q.node PROVE FALSE
      OBVIOUS
    <3>1. q.ctr <= i
      BY <1>2, <1>5, RouterAssumption DEF RouterAssumption, Before, Nodes
    <3>2. CASE q.kind = "col"
      BY <1>1, <1>2, <1>5, <3>1, <3>2, BoundAssumption DEF BoundAssumption, Exhausted, Leads
    <3>3. CASE q.kind # "col"
      <4>1. q.ctr \in 0 .. MaxCtr - 1
        BY <1>2, <3>1, BoundAssumption DEF BoundAssumption
      <4>2. IndexGet(q) = index[QueryLabel(q, q.node, q.ctr)]
        BY <4>1, BoundAssumption DEF BoundAssumption, IndexGet, QueryLabel
      <4>3. QueryLabel(q, q.node, q.ctr) \in Labels /\ QueryLabel(q, q.node, i) \in Labels
        BY <1>2, <4>1, QueryLabelType
      <4>4. index[QueryLabel(q, q.node, i)] # Nil
        BY <1>5 DEF Leads
      <4>5. index[QueryLabel(q, q.node, q.ctr)] # Nil
        <5> DEFINE l == QueryLabel(q, q.node, q.ctr)  m == QueryLabel(q, q.node, i)
        <5>1. m[1] = l[1] /\ m[2] = l[2] /\ l[3] = q.ctr /\ m[3] = i
          BY DEF QueryLabel
        <5>2. l \in Labels /\ m \in Labels /\ index[m] # Nil
          BY <4>3, <4>4
        <5> HIDE DEF l, m
        <5>3. index[l] # Nil
          BY <3>1, <5>1, <5>2, NoHole
        <5> QED BY <5>3 DEF l
      <4> QED BY <1>1, <3>3, <4>2, <4>5 DEF Exhausted
    <3> QED BY <3>2, <3>3
  <2>3. Before(n, td, i)
    BY <1>2, <1>3, <1>5, <2>1, <2>2, RouterAssumption DEF RouterAssumption, Before, Nodes
  <2> QED BY <1>3, <1>5, <2>3 DEF Leads, Fits, QueryLabel
<1>6. \A td \in n.must : Pending(index, n, td)
  BY <1>3, <1>4, <1>5 DEF GoodQuery, Pending, Ahead
<1> QED BY <1>1, <1>3, <1>6 DEF GoodQuery, HitHere

\* When a query begins, every record it has to find has an entry ahead.
LEMMA BeginGood ==
    ASSUME VisibleInv, NoLate, AckedVisible, NEW w \in Clients, Writers = {w},
           NEW kind \in Kinds, NEW c \in Cols, NEW x \in Nat, NEW cmp \in Cmps \cup {Nil},
           kind = "v2" => x \in Values
    PROVE  LET n == NewQuery(kind, c, x, cmp) IN
           GoodQuery(index, data, [n EXCEPT !.must = MustFind(n)])
<1> DEFINE n == NewQuery(kind, c, x, cmp)
           q == [n EXCEPT !.must = MustFind(n)]
<1>1. /\ n.kind = kind /\ n.col = c /\ n.val = x /\ n.cmp = cmp
      /\ q.kind = kind /\ q.col = c /\ q.val = x /\ q.cmp = cmp /\ q.node = 0
      /\ q.ctr = 0 /\ q.hit = Nil /\ q.must = MustFind(n)
  BY DEF NewQuery
<1> HIDE DEF n, q
<1>2. ASSUME NEW td \in q.must
      PROVE  data[DataKey(td)] # Nil /\ Pending(index, q, td)
  <2> DEFINE r == acked[td]
  <2>1. /\ td \in Tds /\ td[2] = c /\ r # Nil /\ kind \in r.kinds
        /\ Satisfies(n, r.val) /\ Covers(n, td)
    BY <1>1 DEF MustFind
  <2>2. r \in issued /\ r.td = td /\ data[DataKey(td)] # Nil
    BY <2>1 DEF AckedVisible
  <2>3. r.val \in Values /\ r.val \in Nat
    BY <2>2, DataAssumption DEF DataAssumption, VisibleInv, CounterInv, TypeOK, Records
  <2>4. PICK i \in 0 .. MaxCtr - 1 : StoredAt(r, kind, i)
    BY <2>1, <2>2, VisibleIsStored DEF VisibleInv, Stored
  <2>5. Stream(kind, td[2], r.val) = Stream(kind, c, x)
    BY <1>1, <2>1 DEF Stream, Satisfies
  <2>6. index[QueryLabel(q, PutNode(td), i)] = Entry(kind, td, r.val, i)
    BY <1>1, <2>2, <2>4, <2>5 DEF StoredAt, QueryLabel, NoLate
  <2>7. /\ QueryLabel(q, PutNode(td), i) = <<PutNode(td), Stream(kind, td[2], r.val), i>>
        /\ QueryLabel(q, PutNode(td), i) \in Labels
        /\ Entry(kind, td, r.val, i) # Nil
    BY <1>1, <2>1, <2>3, <2>5, StoredTypes DEF QueryLabel
  <2>8. Fits(q, Entry(kind, td, r.val, i))
    BY <1>1, <2>1 DEF Fits, Entry, Satisfies, OreMatch
  <2>9. ASSUME kind = "col" PROVE i < x
    <3> DEFINE l == QueryLabel(q, PutNode(td), i)
    <3>1. Used(l) /\ l \in Labels
      BY <2>6, <2>7 DEF Used
    <3>2. l[1] = PutNode(td) /\ l[2] = Stream("col", c, Nil) /\ l[3] = i
      BY <1>1, <2>9 DEF QueryLabel, Stream
    <3> HIDE DEF l
    <3>3. i < ctr[w][<<PutNode(td), Stream("col", c, Nil)>>]
      BY <3>1, <3>2 DEF VisibleInv, CounterInv, CountersMatchIndex
    <3>4. ctr[w][<<PutNode(td), Stream("col", c, Nil)>>] <= x
      BY <1>1, <2>1, <2>9 DEF Covers
    <3>5. ctr[w][<<PutNode(td), Stream("col", c, Nil)>>] \in Nat
      <4>1. PutNode(td) \in Nodes /\ Stream("col", c, Nil) \in Streams
        BY <2>1, RouteTypes, StreamType DEF Kinds
      <4> QED BY <4>1 DEF VisibleInv, CounterInv, TypeOK
    <3> QED BY <3>3, <3>4, <3>5
  <2>10. Leads(index, q, td, i)
    BY <1>1, <2>6, <2>7, <2>8, <2>9 DEF Leads, Entry
  <2>11. Before(q, td, i)
    BY <1>1, <2>1, RouteTypes, RouterAssumption DEF RouterAssumption, Before, Nodes
  <2> QED BY <2>2, <2>10, <2>11 DEF Pending, Ahead
<1>3. GoodQuery(index, data, q)
  BY <1>1, <1>2 DEF GoodQuery, HitHere
<1> QED BY <1>3 DEF n, q

\* The stores only grow, and what is acknowledged is visible.
LEMMA StoresStep ==
    ASSUME NEW w \in Clients, Writers = {w},
           MaxRestart = 0, MaxFail = 0, MaxRefuse = 0, SearchInv, VisibleInv', [Next]_vars
    PROVE  NoLate' /\ AckedVisible' /\ Data1
<1> USE DEF storeVars, clientVars, refusalVars, historyVars
<1> DEFINE Goal == NoLate' /\ AckedVisible' /\ Data1
<1>1. TypeOK /\ NoLate /\ AckedVisible /\ fails = 0
  <2>1. TypeOK /\ NoLate /\ AckedVisible
    BY DEF SearchInv, VisibleInv, CounterInv
  <2>2. fails = 0
    BY <2>1 DEF TypeOK
  <2> QED BY <2>1, <2>2
<1>2. ASSUME UNCHANGED <<data, lateIndex, lateData, refusedIndex, acked, issued>>
      PROVE  Goal
  BY <1>1, <1>2 DEF NoLate, AckedVisible, Data1
<1>3. ASSUME NEW p \in Clients, PutStep(p) PROVE Goal
  <2>1. ASSUME NEW td \in Tds, NEW v \in Values, NEW kinds \in FlagSets,
               PutBegin(p, td, v, kinds)
        PROVE  Goal
    BY <1>2, <2>1 DEF PutBegin
  <2>2. ASSUME NEW kind \in Kinds, PutIndex(p, kind) PROVE Goal
    BY <1>2, <2>2 DEF PutIndex, StoreEntry
  <2>3. ASSUME NEW kind \in Kinds,
               \/ PutIndexThrows(p, kind) \/ PutDataThrows(p)
               \/ PutIndexRefused(p, kind) \/ PutDataRefused(p)
        PROVE  FALSE
    BY <1>1, <2>3, NothingRefused DEF PutIndexThrows, PutDataThrows
  <2>4. ASSUME PutData(p) PROVE Goal
    <3> DEFINE r == put[p]  d == DataKey(r.td)
    <3>1. /\ r # Nil /\ data' = [data EXCEPT ![d] = r.val]
          /\ issued' = issued \cup {RecordOf(r)}
          /\ acked' = [acked EXCEPT ![r.td] = RecordOf(r)]
          /\ UNCHANGED <<lateIndex, lateData, refusedIndex>>
      BY <2>4 DEF PutData
    <3>2. r.td \in Tds /\ r.val \in Values /\ r.val # Nil
      BY <1>1, <3>1, NilAssumption DEF NilAssumption, TypeOK, Puts
    <3>3. d \in Nodes \X Tds /\ RecordOf(r).td = r.td
      BY <3>2, RouteTypes DEF DataKey, RecordOf
    <3> HIDE DEF d, r
    <3>4. Data1 /\ data'[d] # Nil
      BY <1>1, <3>1, <3>2, <3>3 DEF Data1, TypeOK
    <3>5. NoLate'
      BY <1>1, <3>1 DEF NoLate
    <3>6. ASSUME NEW td \in Tds, acked'[td] # Nil
          PROVE  acked'[td] \in issued' /\ acked'[td].td = td /\ data'[DataKey(td)] # Nil
      <4>1. CASE td = r.td
        BY <1>1, <3>1, <3>2, <3>3, <3>4, <4>1 DEF TypeOK, d
      <4>2. CASE td # r.td
        <5>1. acked'[td] = acked[td]
          BY <1>1, <3>1, <4>2 DEF TypeOK
        <5>2. DataKey(td) \in Nodes \X Tds
          BY RouteTypes DEF DataKey
        <5> QED BY <1>1, <3>1, <3>4, <3>6, <5>1, <5>2 DEF AckedVisible, Data1
      <4> QED BY <4>1, <4>2
    <3>7. AckedVisible'
      BY <3>6 DEF AckedVisible, DataKey, PutNode
    <3> QED BY <3>4, <3>5, <3>7
  <2> QED BY <1>3, <2>1, <2>2, <2>3, <2>4 DEF PutStep, Kinds
<1>4. ASSUME NEW p \in Clients, Restart(p) PROVE FALSE
  BY <1>1, <1>4 DEF Restart, TypeOK
<1>5. ASSUME NEW p \in Clients, ReaderStep(p)
      PROVE  UNCHANGED <<data, lateIndex, lateData, refusedIndex, acked, issued>>
  BY <1>5, ReaderFrame
<1>6. ASSUME LateStep PROVE FALSE
  BY <1>1, <1>6 DEF LateStep, NoLate
<1>7. ASSUME UNCHANGED vars
      PROVE  UNCHANGED <<data, lateIndex, lateData, refusedIndex, acked, issued>>
  BY <1>7 DEF vars
<1> QED BY <1>2, <1>3, <1>4, <1>5, <1>6, <1>7, NextCases

\* Puts, Gets and late SETs leave every query alone.
LEMMA OthersQuery ==
    ASSUME \/ LateStep \/ UNCHANGED vars
           \/ \E p \in Clients : PutStep(p) \/ GetStep(p)
    PROVE  qry' = qry
<1>1. ASSUME NEW p \in Clients, PutStep(p) PROVE qry' = qry
  BY <1>1 DEF PutStep, PutBegin, PutIndex, PutIndexThrows, PutIndexRefused, PutData,
              PutDataThrows, PutDataRefused
<1>2. ASSUME NEW p \in Clients, GetStep(p) PROVE qry' = qry
  BY <1>2 DEF GetStep, Get, GetRefused, Answer, GetReturn
<1>3. ASSUME LateStep PROVE qry' = qry
  BY <1>3 DEF LateStep, LateIndexSet, LateDataSet
<1> QED BY <1>1, <1>2, <1>3 DEF vars

\* Every query a step leaves is as good as the one it found, for its stores.
LEMMA QueryStep ==
    ASSUME NEW w \in Clients, Writers = {w}, MaxRestart = 0, MaxRefuse = 0,
           SearchInv, [Next]_vars, NEW c \in Clients, qry'[c] # Nil
    PROVE  \/ qry'[c] = qry[c]
           \/ UNCHANGED <<index, data>> /\ GoodQuery(index, data, qry'[c])
<1> USE DEF storeVars, clientVars, refusalVars, historyVars
<1> DEFINE Goal == \/ qry'[c] = qry[c]
                   \/ UNCHANGED <<index, data>> /\ GoodQuery(index, data, qry'[c])
<1>1. /\ TypeOK /\ CounterInv /\ VisibleInv /\ NoLate /\ AckedVisible
      /\ qry \in [Clients -> Queries \cup {Nil}]
  BY DEF SearchInv, VisibleInv, CounterInv, TypeOK
<1>2. ASSUME NEW p \in Clients, BeginStep(p) PROVE Goal
  <2>1. ASSUME NEW kind \in Kinds, NEW col \in Cols, NEW x \in Nat,
               NEW cmp \in Cmps \cup {Nil}, kind = "v2" => x \in Values,
               Begin(p, NewQuery(kind, col, x, cmp))
        PROVE  Goal
    <3> DEFINE n == NewQuery(kind, col, x, cmp)  q == [n EXCEPT !.must = MustFind(n)]
    <3>1. GoodQuery(index, data, q)
      BY <1>1, <2>1, BeginGood
    <3>2. qry' = [qry EXCEPT ![p] = q] /\ UNCHANGED <<index, data>>
      BY <2>1 DEF Begin
    <3> HIDE DEF q
    <3> QED BY <1>1, <3>1, <3>2
  <2>2. ASSUME NEW col \in Cols, NEW v \in Values, NEW b \in BOOLEAN, Search(p, col, v, b)
        PROVE  Goal
    BY <2>1, <2>2, DataAssumption DEF DataAssumption, Search, Kinds
  <2>3. ASSUME NEW col \in Cols, NEW v \in Values, NEW i \in {-1, 1}, RangeQuery(p, col, i, v)
        PROVE  Goal
    <3>1. (IF i > 0 THEN "LARGE" ELSE "SMALL") \in Cmps \cup {Nil} /\ v \in Nat
      BY DataAssumption DEF DataAssumption, Cmps
    <3>2. "ore" \in Kinds /\ "ore" # "v2"
      BY DEF Kinds
    <3> QED BY <2>1, <2>3, <3>1, <3>2 DEF RangeQuery
  <2>4. ASSUME NEW col \in Cols, NEW uiNum \in Nums, GetCol(p, col, uiNum) PROVE Goal
    <3>1. uiNum \div NodeNum \in Nat
      BY DataAssumption, RouterAssumption DEF DataAssumption, RouterAssumption
    <3>2. "col" \in Kinds /\ "col" # "v2"
      BY DEF Kinds
    <3> QED BY <2>1, <2>4, <3>1, <3>2 DEF GetCol
  <2> QED BY <1>2, <2>2, <2>3, <2>4 DEF BeginStep
<1>3. ASSUME NEW p \in Clients, SearchLoop(p) \/ ColumnLoop(p) \/ FetchData(p) \/ NodeReply(p)
      PROVE  Goal
  <2>1. PICK q : q = qry[p]
    OBVIOUS
  <2>2. /\ q # Nil /\ UNCHANGED <<index, data>>
        /\ \A d \in Clients \ {p} : qry'[d] = qry[d]
    BY <1>1, <1>3, <2>1 DEF SearchLoop, ColumnLoop, FetchData, NodeReply, UpdateQuery, Asked
  <2>3. GoodQuery(index, data, q)
    BY <2>1, <2>2 DEF SearchInv, QueryInv
  <2>4. GoodQuery(index, data, qry'[p])
    BY <1>1, <1>3, <2>1, <2>3, TurnGood, FetchGood, ReplyGood
  <2> QED BY <2>2, <2>4
<1>4. ASSUME NEW p \in Clients, QueryReturn(p) \/ QueryThrows(p) PROVE Goal
  BY <1>1, <1>4 DEF QueryReturn, UpdateQuery, QueryThrows
<1>5. ASSUME NEW p \in Clients, Restart(p) PROVE FALSE
  BY <1>1, <1>5 DEF Restart, TypeOK
<1>6. ASSUME \/ LateStep \/ UNCHANGED vars
             \/ \E p \in Clients : PutStep(p) \/ GetStep(p)
      PROVE  qry' = qry
  BY <1>6, OthersQuery
<1>7. ASSUME NEW p \in Clients, RefusedStep(p) PROVE FALSE
  BY <1>1, <1>7, NothingRefused
<1> QED BY <1>2, <1>3, <1>4, <1>5, <1>6, <1>7, NextCases DEF ReaderStep, ScanStep

LEMMA SearchStep ==
    ASSUME NEW w \in Clients, Writers = {w},
           MaxRestart = 0, MaxFail = 0, MaxRefuse = 0, SearchInv, TypeOK', [Next]_vars
    PROVE  SearchInv'
<1>1. VisibleInv' /\ IndexKept
  BY VisibleStep DEF SearchInv
<1>2. NoLate' /\ AckedVisible' /\ Data1
  BY <1>1, StoresStep
<1>3. ASSUME NEW c \in Clients, qry'[c] # Nil PROVE GoodQuery(index', data', qry'[c])
  <2>1. CASE qry'[c] = qry[c]
    <3>1. PICK q : q = qry[c]
      OBVIOUS
    <3>2. GoodQuery(index, data, q) /\ Valid(q)
      BY <1>3, <2>1, <3>1
      DEF SearchInv, QueryInv, VisibleInv, CounterInv, TypeOK, Valid
    <3>3. GoodQuery(index', data', q)
      BY <1>1, <1>2, <3>2, GoodStays
    <3> QED BY <2>1, <3>1, <3>3
  <2>2. CASE UNCHANGED <<index, data>> /\ GoodQuery(index, data, qry'[c])
    BY <2>2
  <2> QED BY <1>3, <2>1, <2>2, QueryStep
<1>4. QueryInv'
  BY <1>3 DEF QueryInv
<1> QED BY <1>1, <1>2, <1>4 DEF SearchInv

LEMMA SearchInit == Init => SearchInv
<1>1. Init => NoLate /\ AckedVisible /\ QueryInv
  BY DEF Init, NoLate, AckedVisible, QueryInv
<1> QED BY <1>1, VisibleInit DEF SearchInv

\* With one writer that never restarts, no failing call and no refused command,
\* every finished Search, RangeQuery and GetCol has found all it had to find,
\* whatever Puts ran while the proxies were walking the streams.
THEOREM SearchesComplete ==
    ASSUME NEW w \in Clients, Writers = {w}, MaxRestart = 0, MaxFail = 0, MaxRefuse = 0
    PROVE  Spec => []SearchComplete
<1>1. SearchInv /\ TypeOK' /\ [Next]_vars => SearchInv'
  BY SearchStep
<1>2. SearchInv => SearchComplete
  <2> SUFFICES ASSUME SearchInv, NEW p \in Readers, Answered(p), NEW td \in qry[p].must
               PROVE  td \in Found(qry[p].all)
    BY DEF SearchComplete
  <2>1. p \in Clients /\ qry[p] # Nil /\ qry[p].node = NodeNum
    BY ClientAssumption DEF ClientAssumption, Answered
  <2>2. Pending(index, qry[p], td)
    BY <2>1 DEF SearchInv, QueryInv, GoodQuery
  <2>3. td \in Tds
    BY <2>1 DEF SearchInv, VisibleInv, CounterInv, TypeOK, Queries
  <2>4. PutNode(td) \in Nodes
    BY <2>3, RouteTypes
  <2>5. PutNode(td) < NodeNum /\ PutNode(td) \in Nat
    BY <2>4, RouterAssumption DEF RouterAssumption, Nodes
  <2> QED BY <2>1, <2>2, <2>5, RouterAssumption DEF RouterAssumption, Pending, Ahead, Before
<1> QED BY <1>1, <1>2, SearchInit, TypeCorrect, PTL DEF Spec

-----------------------------------------------------------------------------
(***************************************************************************)
(* Data comes from Puts, whatever fails, is late or restarts.              *)
(***************************************************************************)

\* A Put of td with value v has sent its data.
Sent(iss, td, v) == \E r \in iss : r.td = td /\ r.val = v

\* So it was with all that is stored and all that is still on its way, and
\* the data of an acknowledged record is there or was refused.
DataThere(td) ==
    \/ data[DataKey(td)] # Nil
    \/ [label |-> DataKey(td), entry |-> acked[td].val] \in refusedData
DataSent ==
    /\ \A d \in Nodes \X Tds : data[d] # Nil => Sent(issued, d[2], data[d])
    /\ \A s \in lateData : Sent(issued, s.label[2], s.entry)
    /\ \A td \in Tds : acked[td] # Nil => DataThere(td)

LEMMA SentStays ==
    ASSUME NEW I, NEW J, I \subseteq J, NEW td, NEW v, Sent(I, td, v)
    PROVE  Sent(J, td, v)
BY DEF Sent

\* The data SET of a Put that is done with its indexes: executed, answered,
\* refused or still on its way.
LEMMA PutSends ==
    ASSUME TypeOK, DataSent, NEW p \in Clients,
           PutData(p) \/ PutDataThrows(p) \/ PutDataRefused(p)
    PROVE  DataSent' /\ issued \subseteq issued'
<1> DEFINE w == put[p]  d == DataKey(w.td)  r == RecordOf(w)
<1>1. w # Nil /\ issued' = issued \cup {r}
  BY DEF PutData, PutDataThrows, PutDataRefused
<1>2. w.td \in Tds /\ w.val \in Values /\ w.val # Nil
  BY <1>1, NilAssumption DEF NilAssumption, TypeOK, Puts
<1>3. d \in Nodes \X Tds /\ d[2] = w.td
  BY <1>2, RouteTypes DEF DataKey
<1>4. Sent(issued', w.td, w.val) /\ r.val = w.val
  <2>1. r.td = w.td /\ r.val = w.val
    BY DEF RecordOf
  <2> QED BY <1>1, <2>1 DEF Sent
<1>5. /\ data' = [data EXCEPT ![d] = w.val] \/ data' = data
      /\ lateData' = lateData \/ lateData' = lateData \cup {[label |-> d, entry |-> w.val]}
      /\ refusedData \subseteq refusedData'
      /\ \/ acked' = acked
         \/ /\ acked' = [acked EXCEPT ![w.td] = r]
            /\ \/ data' = [data EXCEPT ![d] = w.val]
               \/ [label |-> d, entry |-> w.val] \in refusedData'
  BY DEF PutData, PutDataThrows, PutDataRefused, DataSet, storeVars, refusalVars
<1>6. d = DataKey(w.td)
  OBVIOUS
<1> HIDE DEF w, d, r
<1>7. \A c \in Nodes \X Tds : data'[c] = data[c] \/ (c = d /\ data'[c] = w.val)
  BY <1>5 DEF TypeOK
<1>8. ASSUME NEW c \in Nodes \X Tds, data'[c] # Nil PROVE Sent(issued', c[2], data'[c])
  BY <1>1, <1>3, <1>4, <1>7, <1>8, SentStays DEF DataSent
<1>9. ASSUME NEW s \in lateData' PROVE Sent(issued', s.label[2], s.entry)
  <2>1. CASE s \in lateData
    BY <1>1, <2>1, SentStays DEF DataSent
  <2>2. CASE s = [label |-> d, entry |-> w.val]
    BY <1>3, <1>4, <2>2
  <2> QED BY <1>5, <2>1, <2>2
<1>10. ASSUME NEW td \in Tds, acked'[td] # Nil
       PROVE  \/ data'[DataKey(td)] # Nil
              \/ [label |-> DataKey(td), entry |-> acked'[td].val] \in refusedData'
  <2>1. DataKey(td) \in Nodes \X Tds
    BY RouteTypes DEF DataKey
  <2>2. CASE acked'[td] = acked[td]
    BY <1>2, <1>5, <1>7, <1>10, <2>1, <2>2 DEF DataSent, DataThere
  <2>3. CASE acked'[td] # acked[td]
    <3>1. td = w.td /\ acked'[td] = r
      BY <1>5, <2>3 DEF TypeOK
    <3>2. CASE data' = [data EXCEPT ![d] = w.val]
      BY <1>2, <1>3, <1>6, <3>1, <3>2 DEF TypeOK
    <3>3. CASE [label |-> d, entry |-> w.val] \in refusedData'
      BY <1>4, <1>6, <3>1, <3>3
    <3> QED BY <1>5, <2>3, <3>2, <3>3
  <2> QED BY <2>2, <2>3
<1>11. \A td \in Tds : acked'[td] # Nil => DataThere(td)'
  BY <1>10 DEF DataThere, DataKey, PutNode
<1> QED BY <1>1, <1>8, <1>9, <1>11 DEF DataSent

\* A late data SET is executed: it is of a Put too.
LEMMA LateSends ==
    ASSUME TypeOK, DataSent, NEW s \in lateData, LateDataSet(s)
    PROVE  DataSent'
<1>1. s.label \in Nodes \X Tds /\ s.entry \in Values /\ s.entry # Nil
  BY NilAssumption DEF NilAssumption, TypeOK
<1>2. /\ data' = [data EXCEPT ![s.label] = s.entry] /\ lateData' \subseteq lateData
      /\ issued' = issued /\ acked' = acked /\ refusedData' = refusedData
  BY DEF LateDataSet, historyVars, refusalVars
<1>3. \A c \in Nodes \X Tds : data'[c] = data[c] \/ (c = s.label /\ data'[c] = s.entry)
  BY <1>2 DEF TypeOK
<1>4. \A c \in Nodes \X Tds : data'[c] # Nil => Sent(issued, c[2], data'[c])
  BY <1>3 DEF DataSent
<1>5. ASSUME NEW td \in Tds, acked[td] # Nil PROVE DataThere(td)'
  <2>1. DataKey(td) \in Nodes \X Tds /\ DataKey(td)' = DataKey(td)
    BY RouteTypes DEF DataKey, PutNode
  <2> QED BY <1>1, <1>2, <1>3, <1>5, <2>1 DEF DataSent, DataThere
<1> QED BY <1>2, <1>4, <1>5 DEF DataSent

LEMMA DataStep ==
    ASSUME TypeOK, DataSent, [Next]_vars
    PROVE  DataSent' /\ issued \subseteq issued'
<1> USE DEF storeVars, clientVars, refusalVars, historyVars
<1> DEFINE Goal == DataSent' /\ issued \subseteq issued'
<1>1. ASSUME UNCHANGED <<data, lateData, refusedData, issued, acked>> PROVE Goal
  BY <1>1 DEF DataSent, DataThere, DataKey, PutNode
<1>2. ASSUME NEW p \in Clients, PutStep(p) PROVE Goal
  <2>1. ASSUME NEW td \in Tds, NEW v \in Values, NEW kinds \in FlagSets,
               PutBegin(p, td, v, kinds)
        PROVE  Goal
    BY <1>1, <2>1 DEF PutBegin
  <2>2. ASSUME NEW kind \in Kinds,
               PutIndex(p, kind) \/ PutIndexThrows(p, kind) \/ PutIndexRefused(p, kind)
        PROVE  Goal
    BY <1>1, <2>2 DEF PutIndex, PutIndexThrows, PutIndexRefused
  <2> QED BY <1>2, <2>1, <2>2, PutSends DEF PutStep
<1>3. ASSUME NEW p \in Clients, Restart(p) \/ ReaderStep(p)
      PROVE  UNCHANGED <<data, lateData, refusedData, issued, acked>>
  BY <1>3, ReaderFrame DEF Restart
<1>4. ASSUME NEW s \in lateIndex, LateIndexSet(s)
      PROVE  UNCHANGED <<data, lateData, refusedData, issued, acked>>
  BY <1>4 DEF LateIndexSet
<1>5. ASSUME NEW s \in lateData, LateDataSet(s) PROVE Goal
  BY <1>5, LateSends DEF LateDataSet
<1>6. ASSUME UNCHANGED vars PROVE UNCHANGED <<data, lateData, refusedData, issued, acked>>
  BY <1>6 DEF vars
<1> QED BY <1>1, <1>2, <1>3, <1>4, <1>5, <1>6, NextCases DEF LateStep

LEMMA DataInit == Init => DataSent
BY DEF Init, DataSent, DataThere

\* An acknowledged record stays stored, with a value that a Put of it has sent,
\* or Redis refused the data of its last Put: for any number of writers,
\* restarts, failing calls and late SETs.
THEOREM AckedStays == Spec => []AckedStaysStored
<1>1. TypeOK /\ DataSent /\ [Next]_vars => DataSent'
  BY DataStep
<1>2. TypeOK /\ DataSent => AckedStaysStored
  <2> SUFFICES ASSUME TypeOK, DataSent, NEW td \in Tds, acked[td] # Nil,
                      [label |-> DataKey(td), entry |-> acked[td].val] \notin refusedData
               PROVE  \E r \in issued : r.td = td /\ r.val = data[DataKey(td)]
    BY DEF AckedStaysStored
  <2>1. DataKey(td) \in Nodes \X Tds /\ DataKey(td)[2] = td
    BY RouteTypes DEF DataKey
  <2>2. Sent(issued, td, data[DataKey(td)])
    BY <2>1 DEF DataSent, DataThere
  <2> QED BY <2>2 DEF Sent
<1> QED BY <1>1, <1>2, DataInit, TypeCorrect, PTL DEF Spec

-----------------------------------------------------------------------------
(***************************************************************************)
(* GetCol: how many rows a query has collected, whatever Puts do meanwhile.*)
(***************************************************************************)

\* A proxy adds at most one row for each label it has tried, tries at most
\* q.val labels, and the nodes before it did the same.
ColumnCounted(q) ==
    q.kind = "col" =>
        /\ Len(q.ret) <= q.ctr /\ q.ctr <= q.val
        /\ q.hit # Nil => q.ctr < q.val
        /\ Len(q.all) <= q.val * q.node
        /\ q.node = NodeNum => q.ctr = 0
ColumnInv == \A p \in Clients : qry[p] # Nil => ColumnCounted(qry[p])

LEMMA TimesNext == \A a, b \in Nat : a * (b + 1) = a * b + a
OBVIOUS

LEMMA SumBound ==
    \A a, b, c, d, e \in Nat : a <= e /\ e <= c /\ b <= d => a + b <= d + c /\ b + a <= d + c
OBVIOUS

LEMMA TimesMonotonic ==
    ASSUME NEW a \in Nat, NEW b \in Nat, NEW c \in Nat, b <= c
    PROVE  a * b <= a * c
<1>1. PICK d \in Nat : c = b + d
  <2>1. c - b \in Nat /\ c = b + (c - b)
    OBVIOUS
  <2> QED BY <2>1
<1>2. a * c = a * b + a * d /\ a * b \in Nat /\ a * d \in Nat
  BY <1>1
<1> QED BY <1>2

\* The fields of a query, and what each step makes of them.
LEMMA ColumnTurn ==
    ASSUME TypeOK, NEW p \in Clients, NEW q, q = qry[p], ColumnCounted(q),
           SearchLoop(p) \/ ColumnLoop(p) \/ FetchData(p) \/ NodeReply(p)
    PROVE  ColumnCounted(qry'[p])
<1>1. Asked(p)
  BY DEF SearchLoop, ColumnLoop, FetchData, NodeReply
<1>2. /\ q \in Queries /\ q.node \in Nodes /\ q.ctr \in Nat /\ q.val \in Nat
      /\ q.ret \in Seq(Rows) /\ q.all \in Seq(Rows) /\ q.hit \in Tds \cup {Nil}
      /\ q.node < NodeNum /\ q.node \in Nat
  <2>1. q \in Queries /\ q.node \in Nodes
    BY <1>1, ScanTypes
  <2>2. q.node < NodeNum /\ q.node \in Nat
    BY <1>1, <2>1, RouterAssumption DEF RouterAssumption, Nodes, Asked
  <2> QED BY <2>1, <2>2 DEF Queries
<1>3. SUFFICES ASSUME q.kind = "col" PROVE ColumnCounted(qry'[p])
  <2>1. q.kind # "col" => qry'[p].kind # "col"
    BY <1>2, ZenonT(60) DEF SearchLoop, ColumnLoop, FetchData, NodeReply, UpdateQuery, Advance,
                TypeOK, Queries
  <2> QED BY <2>1 DEF ColumnCounted
<1>4. CASE ColumnLoop(p)
  <2>1. q.hit = Nil /\ q.ctr < q.val
    BY <1>2, <1>3, <1>4 DEF ColumnLoop, Exhausted
  <2>2. \/ \E td : qry'[p] = [q EXCEPT !.hit = td]
        \/ qry'[p] = [q EXCEPT !.ctr = q.ctr + 1]
    BY <1>4 DEF ColumnLoop, UpdateQuery, Advance, TypeOK
  <2>3. /\ qry'[p].kind = q.kind /\ qry'[p].val = q.val /\ qry'[p].node = q.node
        /\ qry'[p].ret = q.ret /\ qry'[p].all = q.all
        /\ \/ qry'[p].ctr = q.ctr
           \/ qry'[p].ctr = q.ctr + 1 /\ qry'[p].hit = Nil
    BY <1>2, <2>1, <2>2 DEF Queries
  <2>4. Len(q.ret) \in Nat
    BY <1>2
  <2> QED BY <1>2, <1>3, <2>1, <2>3, <2>4 DEF ColumnCounted
<1>5. CASE FetchData(p)
  <2> DEFINE v == data[<<q.node, q.hit>>]  r == Push(q.ret, q.hit, v)
  <2>1. q.hit # Nil /\ qry'[p] = [q EXCEPT !.hit = Nil, !.ctr = q.ctr + 1, !.ret = r]
    BY <1>5 DEF FetchData, UpdateQuery, TypeOK
  <2>2. /\ qry'[p].kind = q.kind /\ qry'[p].val = q.val /\ qry'[p].node = q.node
        /\ qry'[p].ret = r /\ qry'[p].all = q.all
        /\ qry'[p].ctr = q.ctr + 1 /\ qry'[p].hit = Nil
    BY <1>2, <2>1 DEF Queries
  <2>3. Len(r) <= Len(q.ret) + 1 /\ Len(r) \in Nat /\ Len(q.ret) \in Nat
    <3>1. CASE v = Nil
      BY <1>2, <3>1 DEF Push
    <3>2. CASE v # Nil
      <4>1. [td |-> q.hit, val |-> v] \in Hits
        BY <1>1, <2>1, <3>2, <1>2, ScanTypes DEF Hits
      <4> QED BY <1>2, <3>2, <4>1 DEF Push
    <3> QED BY <3>1, <3>2
  <2> HIDE DEF r
  <2> QED BY <1>2, <1>3, <2>1, <2>2, <2>3, SMTT(60) DEF ColumnCounted
<1>6. CASE NodeReply(p)
  <2> DEFINE s == q.ret \o q.all
  <2>1. qry'[p] = [q EXCEPT !.node = q.node + 1, !.ctr = 0, !.ret = <<>>, !.all = s]
    BY <1>3, <1>6 DEF NodeReply, UpdateQuery, TypeOK, Cleared, Collect
  <2>2. q.hit = Nil
    BY <1>6 DEF NodeReply
  <2>3. /\ qry'[p].kind = q.kind /\ qry'[p].val = q.val /\ qry'[p].node = q.node + 1
        /\ qry'[p].ret = <<>> /\ qry'[p].all = s
        /\ qry'[p].ctr = 0 /\ qry'[p].hit = Nil
    BY <1>2, <2>1, <2>2 DEF Queries
  <2>4. /\ Len(s) = Len(q.ret) + Len(q.all) /\ Len(<<>>) = 0
        /\ Len(q.ret) \in Nat /\ Len(q.all) \in Nat
    BY <1>2
  <2>5. PICK m : m = q.val * q.node
    OBVIOUS
  <2>6. q.val * (q.node + 1) = m + q.val /\ m \in Nat
    <3>1. q.val * (q.node + 1) = q.val * q.node + q.val
      BY <1>2, TimesNext, Zenon
    <3>2. \A a, b \in Nat : a * b \in Nat
      OBVIOUS
    <3> QED BY <1>2, <2>5, <3>1, <3>2, Zenon
  <2> HIDE DEF s
  <2>7. Len(q.ret) <= q.ctr /\ q.ctr <= q.val /\ Len(q.all) <= m
    BY <1>3, <2>5 DEF ColumnCounted
  <2>8. Len(s) <= m + q.val
    <3>1. m \in Nat
      BY <2>6
    <3>2. Len(q.ret) \in Nat /\ Len(q.all) \in Nat /\ q.ctr \in Nat /\ q.val \in Nat
      BY <1>2, <2>4
    <3>3. Len(q.ret) + Len(q.all) <= m + q.val
      BY <2>7, <3>1, <3>2, SumBound, Zenon
    <3>4. Len(s) = Len(q.ret) + Len(q.all)
      BY <2>4
    <3> QED BY <3>3, <3>4, Zenon
  <2>9. Len(qry'[p].all) <= qry'[p].val * qry'[p].node
    BY <2>3, <2>6, <2>8, Zenon
  <2>10. /\ Len(qry'[p].ret) <= qry'[p].ctr /\ qry'[p].ctr <= qry'[p].val
         /\ qry'[p].hit = Nil /\ qry'[p].ctr = 0
    BY <1>2, <2>3, <2>4
  <2> QED BY <2>9, <2>10, Zenon DEF ColumnCounted
<1>7. CASE SearchLoop(p)
  BY <1>3, <1>7 DEF SearchLoop
<1> QED BY <1>4, <1>5, <1>6, <1>7

\* A turn that Redis refuses adds at most one row as well.
LEMMA ColumnRefused ==
    ASSUME TypeOK, NEW p \in Clients, RefusedStep(p), qry'[p] # Nil, ColumnCounted(qry[p])
    PROVE  ColumnCounted(qry'[p])
<1> DEFINE q == qry[p]  n == qry'[p]
<1>1. /\ q \in Queries /\ q.node \in Nodes
      /\ n.kind = q.kind /\ n.val = q.val /\ n.node = q.node /\ n.all = q.all
      /\ n.hit = Nil /\ n.ctr = q.ctr + 1
      /\ n.ret = q.ret \/ n.ret = Append(q.ret, ErrorRow)
      /\ q.kind = "col" /\ q.hit = Nil => q.ctr < q.val
  BY RefusedTurn, SMTT(60)
<1>2. q.ret \in Seq(Rows) /\ q.ctr \in Nat /\ q.val \in Nat
  BY <1>1 DEF Queries
<1>3. Len(n.ret) <= Len(q.ret) + 1 /\ Len(n.ret) \in Nat /\ Len(q.ret) \in Nat
  BY <1>1, <1>2
<1>4. q.node # NodeNum
  BY <1>1, RouterAssumption DEF RouterAssumption, Nodes
<1> HIDE DEF n
<1>5. ColumnCounted(q)
  OBVIOUS
<1> HIDE DEF q
<1>6. ColumnCounted(n)
  BY <1>1, <1>2, <1>3, <1>4, <1>5, SMTT(60) DEF ColumnCounted
<1> QED BY <1>6 DEF n

\* A new query has collected nothing.
LEMMA ColumnBegins ==
    ASSUME NEW kind, NEW c, NEW x \in Nat, NEW cmp, NEW must
    PROVE  ColumnCounted([NewQuery(kind, c, x, cmp) EXCEPT !.must = must])
<1> DEFINE q == [NewQuery(kind, c, x, cmp) EXCEPT !.must = must]
<1>1. /\ q.ret = <<>> /\ q.all = <<>> /\ q.ctr = 0 /\ q.node = 0 /\ q.hit = Nil /\ q.val = x
  BY DEF NewQuery
<1>2. Len(<<>>) = 0 /\ x * 0 = 0
  OBVIOUS
<1> HIDE DEF q
<1>3. ColumnCounted(q)
  BY <1>1, <1>2 DEF ColumnCounted
<1> QED BY <1>3 DEF q

LEMMA ColumnStep ==
    ASSUME TypeOK, ColumnInv, [Next]_vars
    PROVE  ColumnInv'
<1> USE DEF storeVars, clientVars, refusalVars, historyVars
<1>1. qry \in [Clients -> Queries \cup {Nil}]
  BY DEF TypeOK
<1>2. ASSUME NEW p \in Clients, \A c \in Clients \ {p} : qry'[c] = qry[c],
             qry'[p] = Nil \/ ColumnCounted(qry'[p])
      PROVE  ColumnInv'
  BY <1>2 DEF ColumnInv
<1>3. ASSUME qry' = qry PROVE ColumnInv'
  BY <1>3 DEF ColumnInv
<1>4. ASSUME NEW p \in Clients, BeginStep(p) PROVE ColumnInv'
  <2>1. ASSUME NEW kind, NEW c, NEW x \in Nat, NEW cmp, Begin(p, NewQuery(kind, c, x, cmp))
        PROVE  ColumnInv'
    <3> DEFINE n == NewQuery(kind, c, x, cmp)  q == [n EXCEPT !.must = MustFind(n)]
    <3>1. qry' = [qry EXCEPT ![p] = q]
      BY <2>1 DEF Begin
    <3>2. ColumnCounted(q)
      BY ColumnBegins
    <3> HIDE DEF q
    <3> QED BY <1>1, <1>2, <3>1, <3>2
  <2> QED BY <1>4, <2>1, DataAssumption, RouterAssumption
          DEF DataAssumption, RouterAssumption, BeginStep, Search, RangeQuery, GetCol
<1>5. ASSUME NEW p \in Clients, SearchLoop(p) \/ ColumnLoop(p) \/ FetchData(p) \/ NodeReply(p)
      PROVE  ColumnInv'
  <2>1. qry[p] # Nil /\ \A c \in Clients \ {p} : qry'[c] = qry[c]
    BY <1>1, <1>5 DEF SearchLoop, ColumnLoop, FetchData, NodeReply, UpdateQuery, Asked
  <2>2. ColumnCounted(qry[p])
    BY <2>1 DEF ColumnInv
  <2>3. ColumnCounted(qry'[p])
    BY <1>5, <2>2, ColumnTurn
  <2> QED BY <1>2, <2>1, <2>3
<1>6. ASSUME NEW p \in Clients, QueryReturn(p) \/ QueryThrows(p) \/ Restart(p)
      PROVE  ColumnInv'
  <2>1. qry' = [qry EXCEPT ![p] = Nil]
    BY <1>6 DEF QueryReturn, UpdateQuery, QueryThrows, Restart
  <2> QED BY <1>1, <1>2, <2>1
<1>7. ASSUME NEW p \in Clients, RefusedStep(p) PROVE ColumnInv'
  <2>1. PICK n : qry' = [qry EXCEPT ![p] = n]
    BY <1>7, RefusedSame DEF RefusedStep
  <2>2. qry[p] # Nil
    BY <1>7, RefusedSame DEF RefusedStep, Asked
  <2>3. ColumnCounted(qry[p])
    BY <2>2 DEF ColumnInv
  <2>4. qry'[p] = Nil \/ ColumnCounted(qry'[p])
    BY <1>7, <2>3, ColumnRefused
  <2>5. \A c \in Clients \ {p} : qry'[c] = qry[c]
    BY <1>1, <2>1
  <2> QED BY <1>2, <2>4, <2>5
<1>8. ASSUME \/ LateStep \/ UNCHANGED vars
             \/ \E p \in Clients : PutStep(p) \/ GetStep(p)
      PROVE  qry' = qry
  BY <1>8, OthersQuery
<1> QED BY <1>3, <1>4, <1>5, <1>6, <1>7, <1>8, NextCases DEF ReaderStep, ScanStep

\* GetCol returns at most uiNum \div NodeNum rows for each node, whatever Puts
\* run meanwhile, whoever restarts and whatever fails or is refused.
THEOREM NeverTooManyRows == Spec => []ColumnBounded
<1>1. TypeOK /\ ColumnInv /\ [Next]_vars => ColumnInv'
  BY ColumnStep
<1>2. Init => ColumnInv
  BY DEF Init, ColumnInv
<1>3. TypeOK /\ ColumnInv => ColumnBounded
  <2> SUFFICES ASSUME TypeOK, ColumnInv, NEW p \in Readers, qry[p] # Nil,
                      qry[p].kind = "col"
               PROVE  Len(qry[p].all) + Len(qry[p].ret) <= qry[p].val * NodeNum
    BY DEF ColumnBounded
  <2>1. PICK q : q = qry[p]
    OBVIOUS
  <2>2. /\ q.val \in Nat /\ q.node \in 0 .. NodeNum /\ q.ctr \in Nat
        /\ q.ret \in Seq(Rows) /\ q.all \in Seq(Rows)
    BY <2>1, ClientAssumption DEF ClientAssumption, TypeOK, Queries
  <2>3. /\ Len(q.ret) <= q.ctr /\ q.ctr <= q.val /\ Len(q.all) <= q.val * q.node
        /\ q.node = NodeNum => q.ctr = 0
    BY <2>1, ClientAssumption DEF ClientAssumption, ColumnInv, ColumnCounted
  <2>4. Len(q.ret) \in Nat /\ Len(q.all) \in Nat /\ NodeNum \in Nat /\ q.node \in Nat
    BY <2>2, RouterAssumption DEF RouterAssumption
  <2>5. /\ \A a, b \in Nat : a * b \in Nat
        /\ \A b \in Nat : b + 1 \in Nat
    OBVIOUS
  <2>6. CASE q.node = NodeNum
    <3>1. PICK m : m = q.val * NodeNum
      OBVIOUS
    <3>2. m \in Nat /\ Len(q.all) <= m
      BY <2>2, <2>3, <2>4, <2>5, <2>6, <3>1, Zenon
    <3>3. Len(q.all) + Len(q.ret) <= m
      <4>1. Len(q.ret) = 0
        BY <2>2, <2>3, <2>4, <2>6
      <4>2. \A a, b \in Nat : a <= b => a + 0 <= b
        OBVIOUS
      <4> QED BY <2>4, <3>2, <4>1, <4>2, Zenon
    <3> QED BY <2>1, <3>1, <3>3, Zenon
  <2>7. CASE q.node # NodeNum
    <3>1. q.node + 1 <= NodeNum /\ q.node + 1 \in Nat
      BY <2>2, <2>4, <2>7
    <3>2. PICK k : k = q.val * q.node
      OBVIOUS
    <3>3. PICK m : m = q.val * NodeNum
      OBVIOUS
    <3>4. k \in Nat /\ m \in Nat
      BY <2>2, <2>4, <2>5, <3>2, <3>3, Zenon
    <3>5. q.val * (q.node + 1) <= m
      BY <2>2, <2>4, <3>1, <3>3, TimesMonotonic, Zenon
    <3>6. q.val * (q.node + 1) = k + q.val
      BY <2>2, <2>4, <3>2, TimesNext, Zenon
    <3>7. k + q.val <= m /\ Len(q.all) <= k
      BY <2>3, <3>2, <3>5, <3>6, Zenon
    <3>8. Len(q.all) + Len(q.ret) <= k + q.val
      BY <2>2, <2>3, <2>4, <3>4, <3>7, SumBound, Zenon
    <3>9. Len(q.all) + Len(q.ret) <= m
      <4>1. \A a, b, c, d \in Nat : a + b <= c /\ c <= d => a + b <= d
        OBVIOUS
      <4>2. \A a, b \in Nat : a + b \in Nat
        OBVIOUS
      <4> QED BY <2>2, <2>4, <3>4, <3>7, <3>8, <4>1, <4>2, Zenon
    <3> QED BY <2>1, <3>3, <3>9, Zenon
  <2> QED BY <2>6, <2>7
<1> QED BY <1>1, <1>2, <1>3, InitType, TypeCorrect, PTL DEF Spec

-----------------------------------------------------------------------------
(***************************************************************************)
(* Get, if no call throws, nothing is refused, and it asks the node that   *)
(* Put stored at.                                                          *)
(***************************************************************************)

\* The data of a record is the value of its last Put that returned, if any did,
\* nothing older can replace it, and every answer was taken from there.
LastVal(td) == IF acked[td] = Nil THEN Nil ELSE acked[td].val
LastPutStored ==
    /\ lateData = {}
    /\ \A td \in Tds : data[DataKey(td)] = LastVal(td)
    /\ \A p \in Clients : got[p] # Nil /\ got[p].must # Nil => got[p].ans = got[p].must

LEMMA GetStepRight ==
    ASSUME MaxFail = 0, MaxRefuse = 0, \A td \in Tds : GetNode(td) = PutNode(td),
           TypeOK, LastPutStored, [Next]_vars
    PROVE  LastPutStored'
<1> USE DEF storeVars, clientVars, refusalVars, historyVars
<1>1. lateData = {} /\ fails = 0
  BY DEF TypeOK, LastPutStored
<1>2. ASSUME UNCHANGED <<data, lateData, acked>>,
             \A p \in Clients : got'[p] = got[p] \/ got'[p] = Nil
      PROVE  LastPutStored'
  BY <1>2 DEF LastPutStored, LastVal, DataKey, PutNode
<1>3. got \in [Clients -> Gets \cup {Nil}]
  BY DEF TypeOK
<1>4. ASSUME NEW p \in Clients, PutStep(p) PROVE LastPutStored'
  <2>1. ASSUME NEW td \in Tds, NEW v \in Values, NEW kinds \in FlagSets,
               PutBegin(p, td, v, kinds)
        PROVE  LastPutStored'
    BY <1>2, <2>1 DEF PutBegin
  <2>2. ASSUME NEW kind \in Kinds, PutIndex(p, kind) PROVE LastPutStored'
    BY <1>2, <2>2 DEF PutIndex
  <2>3. ASSUME NEW kind \in Kinds,
               \/ PutIndexThrows(p, kind) \/ PutDataThrows(p)
               \/ PutIndexRefused(p, kind) \/ PutDataRefused(p)
        PROVE  FALSE
    BY <1>1, <2>3, NothingRefused DEF PutIndexThrows, PutDataThrows
  <2>4. ASSUME PutData(p) PROVE LastPutStored'
    <3> DEFINE w == put[p]  d == DataKey(w.td)
    <3>1. /\ w # Nil /\ data' = [data EXCEPT ![d] = w.val]
          /\ acked' = [acked EXCEPT ![w.td] = RecordOf(w)]
          /\ UNCHANGED <<lateData, got>>
      BY <2>4 DEF PutData
    <3>2. w.td \in Tds
      BY <3>1 DEF TypeOK, Puts
    <3>3. RecordOf(w).val = w.val /\ d = <<PutNode(w.td), w.td>> /\ d \in Nodes \X Tds
      BY <3>2, RouteTypes DEF RecordOf, DataKey
    <3>4. RecordOf(w) # Nil
      <4>1. w \in Puts
        BY <3>1 DEF TypeOK
      <4>2. RecordOf(w) \in Records
        BY <4>1 DEF Puts, Records, RecordOf
      <4> QED BY <4>2, NilAssumption DEF NilAssumption
    <3> HIDE DEF w, d
    <3>5. ASSUME NEW td \in Tds
          PROVE  data'[<<PutNode(td), td>>] = LastVal(td)'
      <4>1. <<PutNode(td), td>> \in Nodes \X Tds
        BY RouteTypes
      <4>2. CASE td = w.td
        <5>1. acked'[td] = RecordOf(w) /\ data'[<<PutNode(td), td>>] = w.val
          BY <3>1, <3>2, <3>3, <4>1, <4>2 DEF TypeOK, DataKey
        <5> QED BY <3>3, <3>4, <5>1 DEF LastVal
      <4>3. CASE td # w.td
        <5>1. acked'[td] = acked[td] /\ <<PutNode(td), td>> # d
          BY <3>1, <3>3, <4>3 DEF TypeOK
        <5>2. data'[<<PutNode(td), td>>] = data[<<PutNode(td), td>>]
          BY <3>1, <4>1, <5>1 DEF TypeOK
        <5> QED BY <5>1, <5>2 DEF LastPutStored, LastVal, DataKey
      <4> QED BY <4>2, <4>3
    <3> QED BY <3>1, <3>5 DEF LastPutStored, DataKey, PutNode
  <2> QED BY <1>4, <2>1, <2>2, <2>3, <2>4 DEF PutStep, Kinds
<1>5. ASSUME NEW p \in Clients, NEW td \in Tds, Get(p, td) PROVE LastPutStored'
  <2> DEFINE g == [td |-> td, ans |-> data[<<GetNode(td), td>>],
                   must |-> IF acked[td] = Nil THEN Nil ELSE acked[td].val]
  <2>1. got' = [got EXCEPT ![p] = g] /\ UNCHANGED <<data, lateData, acked>>
    BY <1>5 DEF Get, Answer
  <2>2. g.must # Nil => g.ans = g.must
    <3>1. g.ans = data[DataKey(td)]
      BY DEF DataKey
    <3>2. g.must = LastVal(td)
      BY DEF LastVal
    <3> QED BY <3>1, <3>2 DEF LastPutStored
  <2> HIDE DEF g
  <2>3. \A c \in Clients : got'[c] = got[c] \/ got'[c] = g
    BY <1>3, <2>1
  <2>4. \A c \in Clients : got'[c] # Nil /\ got'[c].must # Nil => got'[c].ans = got'[c].must
    BY <2>2, <2>3 DEF LastPutStored
  <2> QED BY <2>1, <2>4 DEF LastPutStored, LastVal, DataKey, PutNode
<1>6. ASSUME NEW p \in Clients,
             \/ Restart(p) \/ GetReturn(p) \/ BeginStep(p) \/ ScanStep(p) \/ QueryThrows(p)
             \/ RefusedStep(p) \/ \E td \in Tds : GetRefused(p, td)
      PROVE  LastPutStored'
  <2>1. /\ UNCHANGED <<data, lateData, acked>>
        /\ got' = got \/ got' = [got EXCEPT ![p] = Nil]
    BY <1>6, NothingRefused
    DEF Restart, GetReturn, BeginStep, Search, RangeQuery, GetCol, Begin,
        ScanStep, SearchLoop, ColumnLoop, FetchData, NodeReply, QueryReturn,
        UpdateQuery, QueryThrows
  <2> QED BY <1>2, <1>3, <2>1
<1>7. ASSUME LateStep PROVE LastPutStored'
  <2>1. ASSUME NEW s \in lateIndex, LateIndexSet(s) PROVE LastPutStored'
    BY <1>2, <2>1 DEF LateIndexSet
  <2> QED BY <1>1, <1>7, <2>1 DEF LateStep
<1>8. ASSUME UNCHANGED vars PROVE LastPutStored'
  BY <1>2, <1>8 DEF vars
<1> QED BY <1>4, <1>5, <1>6, <1>7, <1>8, NextCases DEF GetStep, ReaderStep

LEMMA LastPutInit == Init => LastPutStored
BY RouteTypes DEF Init, LastPutStored, LastVal, DataKey

\* If no call throws, nothing is refused and both routes of every record lead to
\* one node, a Get gives the value of the last Put that returned, for any number
\* of writers and restarts.  Where the routes differ the property fails (run EncKVGet).
THEOREM GetsLastPut ==
    ASSUME MaxFail = 0, MaxRefuse = 0, \A td \in Tds : GetNode(td) = PutNode(td)
    PROVE  Spec => []GetFindsAcked
<1>1. TypeOK /\ LastPutStored /\ [Next]_vars => LastPutStored'
  BY GetStepRight
<1>2. Init => LastPutStored
  BY LastPutInit
<1>3. LastPutStored => GetFindsAcked
  BY ClientAssumption DEF ClientAssumption, LastPutStored, GetFindsAcked
<1> QED BY <1>1, <1>2, <1>3, TypeCorrect, PTL DEF Spec

-----------------------------------------------------------------------------
(***************************************************************************)
(* How often a record is in a list.                                        *)
(***************************************************************************)
Places(s, td) == {i \in DOMAIN s : s[i].td = td}
Times(s, td) == Cardinality(Places(s, td))

LEMMA TimesType ==
    ASSUME NEW s \in Seq(Rows), NEW td
    PROVE  IsFiniteSet(Places(s, td)) /\ Times(s, td) \in Nat
<1>1. DOMAIN s = 1 .. Len(s) /\ Len(s) \in Nat
  OBVIOUS
<1>2. IsFiniteSet(1 .. Len(s))
  BY <1>1, FS_Interval
<1>3. Places(s, td) \in SUBSET (1 .. Len(s))
  BY <1>1 DEF Places
<1>4. IsFiniteSet(Places(s, td))
  BY <1>2, <1>3, FS_Subset
<1> QED BY <1>4, FS_CardinalityType DEF Times

LEMMA TimesEmpty == \A td : Times(<<>>, td) = 0
<1> TAKE td
<1>1. Places(<<>>, td) = {}
  BY DEF Places
<1> QED BY <1>1, FS_EmptySet DEF Times

LEMMA TimesAppend ==
    ASSUME NEW s \in Seq(Rows), NEW h \in Rows, NEW td
    PROVE  Times(Append(s, h), td) = IF h.td = td THEN Times(s, td) + 1 ELSE Times(s, td)
<1> DEFINE t == Append(s, h)  m == Len(s) + 1
<1>1. /\ DOMAIN t = 1 .. m /\ DOMAIN s = 1 .. Len(s) /\ Len(s) \in Nat
      /\ \A i \in 1 .. Len(s) : t[i] = s[i]
      /\ t[m] = h
  BY AppendProperties
<1>2. IsFiniteSet(Places(s, td))
  BY TimesType
<1> HIDE DEF t
<1>3. m \notin Places(s, td)
  BY <1>1 DEF Places
<1>4. CASE h.td = td
  <2>1. Places(t, td) = Places(s, td) \cup {m}
    BY <1>1, <1>4 DEF Places
  <2>2. Cardinality(Places(t, td)) = Cardinality(Places(s, td)) + 1
    BY <1>2, <1>3, <2>1, FS_AddElement
  <2>3. Times(t, td) = Times(s, td) + 1
    BY <2>2 DEF Times
  <2> QED BY <1>4, <2>3 DEF t
<1>5. CASE h.td # td
  <2>1. Places(t, td) = Places(s, td)
    BY <1>1, <1>5 DEF Places
  <2> QED BY <1>5, <2>1 DEF Times, t
<1> QED BY <1>4, <1>5

LEMMA TimesConcat ==
    ASSUME NEW s \in Seq(Rows), NEW t \in Seq(Rows), NEW td
    PROVE  Times(s \o t, td) = Times(s, td) + Times(t, td)
<1> DEFINE u == s \o t  m == Len(s)  n == Len(t)
           A == Places(s, td)  B == Places(t, td)
           f == [j \in B |-> m + j]  C == {f[j] : j \in B}
<1>1. /\ DOMAIN u = 1 .. m + n /\ m \in Nat /\ n \in Nat
      /\ DOMAIN s = 1 .. m /\ DOMAIN t = 1 .. n
      /\ \A i \in 1 .. m + n : u[i] = IF i <= m THEN s[i] ELSE t[i - m]
  BY ConcatProperties
<1>2. IsFiniteSet(A) /\ IsFiniteSet(B) /\ Cardinality(A) \in Nat /\ Cardinality(B) \in Nat
  BY TimesType DEF Times
<1>3. A \subseteq 1 .. m /\ B \subseteq 1 .. n
  BY <1>1 DEF Places
<1>4. A = {i \in 1 .. m : s[i].td = td} /\ B = {j \in 1 .. n : t[j].td = td}
  BY <1>1 DEF Places
<1> HIDE DEF u, m, n, A, B
<1>5. Places(u, td) = A \cup C
  <2>1. ASSUME NEW i \in Places(u, td) PROVE i \in A \cup C
    <3>1. i \in 1 .. m + n /\ u[i].td = td
      BY <1>1 DEF Places
    <3>2. CASE i <= m
      BY <1>1, <1>4, <3>1, <3>2
    <3>3. CASE ~(i <= m)
      <4>1. i - m \in B /\ i = m + (i - m)
        BY <1>1, <1>4, <3>1, <3>3
      <4> QED BY <4>1
    <3> QED BY <3>2, <3>3
  <2>2. ASSUME NEW i \in A PROVE i \in Places(u, td)
    BY <1>1, <1>4, <2>2 DEF Places
  <2>3. ASSUME NEW j \in B PROVE m + j \in Places(u, td)
    <3>1. m + j \in 1 .. m + n /\ ~(m + j <= m) /\ (m + j) - m = j
      BY <1>1, <1>3
    <3>2. u[m + j] = t[j] /\ t[j].td = td
      BY <1>1, <1>4, <3>1
    <3> QED BY <1>1, <3>1, <3>2 DEF Places
  <2> QED BY <2>1, <2>2, <2>3
<1>6. A \cap C = {}
  BY <1>1, <1>3
<1>7. f \in Bijection(B, C)
  <2>1. f \in Injection(B, C)
    BY <1>1, <1>3 DEF Injection, IsInjective
  <2>2. f \in Surjection(B, C)
    BY DEF Surjection
  <2> QED BY <2>1, <2>2 DEF Bijection
<1>8. ExistsBijection(B, C)
  BY <1>7 DEF ExistsBijection
<1>9. IsFiniteSet(C) /\ Cardinality(C) = Cardinality(B)
  BY <1>2, <1>8, FS_Bijection
<1> HIDE DEF C
<1>10. Cardinality(A \cup C) = Cardinality(A) + Cardinality(C) - Cardinality({})
  BY <1>2, <1>6, <1>9, FS_Union
<1>11. Cardinality(Places(u, td)) = Cardinality(A) + Cardinality(B)
  BY <1>2, <1>5, <1>9, <1>10, FS_EmptySet
<1> QED BY <1>11 DEF Times, u, A, B

\* What a list of two parts holds, one of the parts holds.
LEMMA MembersConcat ==
    ASSUME NEW s \in Seq(Rows), NEW t \in Seq(Rows)
    PROVE  Members(s \o t) \subseteq Members(s) \cup Members(t)
<1> DEFINE u == s \o t  m == Len(s)  n == Len(t)
<1>1. /\ DOMAIN u = 1 .. m + n /\ m \in Nat /\ n \in Nat
      /\ DOMAIN s = 1 .. m /\ DOMAIN t = 1 .. n
      /\ \A i \in 1 .. m + n : u[i] = IF i <= m THEN s[i] ELSE t[i - m]
  BY ConcatProperties
<1> HIDE DEF u, m, n
<1>2. ASSUME NEW i \in DOMAIN u PROVE u[i] \in Members(s) \cup Members(t)
  <2>1. CASE i <= m
    BY <1>1, <2>1 DEF Members
  <2>2. CASE ~(i <= m)
    <3>1. i - m \in DOMAIN t /\ u[i] = t[i - m]
      BY <1>1, <2>2
    <3> QED BY <3>1 DEF Members
  <2> QED BY <2>1, <2>2
<1>3. Members(u) \subseteq Members(s) \cup Members(t)
  BY <1>2 DEF Members
<1> QED BY <1>3 DEF u

LEMMA MembersAppend ==
    ASSUME NEW s \in Seq(Rows), NEW h \in Rows
    PROVE  Members(Append(s, h)) \subseteq Members(s) \cup {h}
<1> DEFINE t == Append(s, h)
<1>1. /\ DOMAIN t = 1 .. Len(s) + 1 /\ Len(s) \in Nat /\ DOMAIN s = 1 .. Len(s)
      /\ \A i \in 1 .. Len(s) : t[i] = s[i]
      /\ t[Len(s) + 1] = h
  BY AppendProperties
<1> HIDE DEF t
<1>2. ASSUME NEW i \in DOMAIN t PROVE t[i] \in Members(s) \cup {h}
  <2>1. i \in DOMAIN s \/ i = Len(s) + 1
    BY <1>1
  <2>2. ASSUME i \in DOMAIN s PROVE t[i] \in Members(s)
    BY <1>1, <2>2 DEF Members
  <2> QED BY <1>1, <2>1, <2>2
<1>3. Members(t) \subseteq Members(s) \cup {h}
  BY <1>2 DEF Members
<1> QED BY <1>3 DEF t

-----------------------------------------------------------------------------
(***************************************************************************)
(* Every entry is the one Put makes for some value, under the label of it. *)
(***************************************************************************)
Stamped(l, e) ==
    \E v \in Values : /\ e = Entry(l[2][1], e.td, v, l[3])
                      /\ l[1] = PutNode(e.td)
                      /\ l[2] = Stream(l[2][1], e.td[2], v)
EntriesStamped ==
    /\ \A l \in Labels : index[l] # Nil => Stamped(l, index[l])
    /\ \A s \in lateIndex : Stamped(s.label, s.entry)

LEMMA NewStamped ==
    ASSUME TypeOK, NEW p \in Clients, NEW kind \in Kinds, put[p] # Nil
    PROVE  Stamped(LabelOf(p, put[p], kind), EntryOf(p, put[p], kind))
<1> DEFINE w == put[p]  l == LabelOf(p, w, kind)  e == EntryOf(p, w, kind)
<1>1. w.td \in Tds /\ w.val \in Values
  BY DEF TypeOK, Puts
<1>2. l[1] = PutNode(w.td) /\ l[2] = Stream(kind, w.td[2], w.val) /\ l[2][1] = kind
  BY DEF LabelOf, Stream
<1>3. e = Entry(kind, w.td, w.val, l[3]) /\ e.td = w.td
  BY DEF EntryOf, Entry, LabelOf
<1> HIDE DEF l, e
<1>4. Stamped(l, e)
  BY <1>1, <1>2, <1>3 DEF Stamped
<1> QED BY <1>4 DEF l, e

LEMMA StampedStep ==
    ASSUME TypeOK, EntriesStamped, [Next]_vars
    PROVE  EntriesStamped'
<1> USE DEF storeVars, clientVars, refusalVars, historyVars
<1>1. ASSUME UNCHANGED <<index, lateIndex>> PROVE EntriesStamped'
  BY <1>1 DEF EntriesStamped
<1>2. ASSUME NEW p \in Clients, NEW kind \in Kinds,
             PutIndex(p, kind) \/ PutIndexThrows(p, kind)
      PROVE  EntriesStamped'
  <2> DEFINE f == LabelOf(p, put[p], kind)  e == EntryOf(p, put[p], kind)
  <2>1. Stamped(f, e)
    BY <1>2, NewStamped DEF PutIndex, PutIndexThrows
  <2>2. \/ index' = [index EXCEPT ![f] = e] /\ lateIndex' = lateIndex
        \/ index' = index /\ lateIndex' = lateIndex \cup {[label |-> f, entry |-> e]}
    BY <1>2 DEF PutIndex, PutIndexThrows, StoreEntry, DelayEntry, IndexSet
  <2> HIDE DEF f, e
  <2>3. \A l \in Labels : index'[l] = index[l] \/ (l = f /\ index'[l] = e)
    BY <2>2 DEF TypeOK
  <2>4. \A s \in lateIndex' : s \in lateIndex \/ (s.label = f /\ s.entry = e)
    BY <2>2
  <2>5. \A l \in Labels : index'[l] # Nil => Stamped(l, index'[l])
    BY <2>1, <2>3 DEF EntriesStamped
  <2>6. \A s \in lateIndex' : Stamped(s.label, s.entry)
    BY <2>1, <2>4 DEF EntriesStamped
  <2> QED BY <2>5, <2>6 DEF EntriesStamped, Stamped, Entry, PutNode
<1>3. ASSUME NEW s \in lateIndex, LateIndexSet(s) PROVE EntriesStamped'
  <2>1. Stamped(s.label, s.entry)
    BY DEF EntriesStamped
  <2>2. \A l \in Labels : index'[l] = index[l] \/ (l = s.label /\ index'[l] = s.entry)
    BY <1>3 DEF LateIndexSet, TypeOK
  <2>3. lateIndex' \subseteq lateIndex
    BY <1>3 DEF LateIndexSet
  <2>4. \A l \in Labels : index'[l] # Nil => Stamped(l, index'[l])
    BY <2>1, <2>2 DEF EntriesStamped
  <2> QED BY <2>3, <2>4 DEF EntriesStamped, Stamped, Entry, PutNode
<1>4. ASSUME NEW s \in lateData, LateDataSet(s) PROVE UNCHANGED <<index, lateIndex>>
  BY <1>4 DEF LateDataSet
<1>5. ASSUME NEW p \in Clients, PutStep(p) PROVE EntriesStamped'
  <2>1. ASSUME \/ \E td \in Tds, v \in Values, kinds \in FlagSets : PutBegin(p, td, v, kinds)
               \/ \E kind \in Kinds : PutIndexRefused(p, kind)
               \/ PutData(p) \/ PutDataThrows(p) \/ PutDataRefused(p)
        PROVE  UNCHANGED <<index, lateIndex>>
    BY <2>1 DEF PutBegin, PutIndexRefused, PutData, PutDataThrows, PutDataRefused
  <2> QED BY <1>1, <1>2, <1>5, <2>1 DEF PutStep
<1>6. ASSUME NEW p \in Clients, Restart(p) \/ ReaderStep(p)
      PROVE  UNCHANGED <<index, lateIndex>>
  BY <1>6, ReaderFrame DEF Restart
<1>7. ASSUME UNCHANGED vars PROVE UNCHANGED <<index, lateIndex>>
  BY <1>7 DEF vars
<1> QED BY <1>1, <1>3, <1>4, <1>5, <1>6, <1>7, NextCases DEF LateStep

-----------------------------------------------------------------------------
(***************************************************************************)
(* The loop invariant: what a query has found, some entry it has passed    *)
(* leads to, and it has found nothing more often than entries lead there.  *)
(* ix is the index, iss the Puts that have sent their data.                *)
(***************************************************************************)

\* q has left label n of td's node behind.
Passed(q, td, n) == PutNode(td) < q.node \/ (PutNode(td) = q.node /\ n < q.ctr)
Behind(ix, q, td) == {n \in 0 .. MaxCtr - 1 : Leads(ix, q, td, n) /\ Passed(q, td, n)}

\* The text of an error reply is a row only where Redis refuses commands.
Justified(ix, iss, q, h) ==
    IF h = ErrorRow
    THEN MaxRefuse > 0
    ELSE Sent(iss, h.td, h.val) /\ \E n \in 0 .. MaxCtr - 1 : Leads(ix, q, h.td, n)

\* It is the row of no record.
LEMMA ErrorRowType ==
    /\ ErrorRow \in Rows /\ ErrorRow \notin Hits /\ Hits \subseteq Rows
    /\ ErrorRow.td = Nil /\ Nil \notin Tds
    /\ \A h \in Rows : h # ErrorRow => h \in Hits
    /\ \A h \in Hits : h.td \in Tds
<1>1. Nil \notin Tds /\ ErrorRow.td = Nil
  BY NilAssumption DEF NilAssumption, ErrorRow
<1>2. \A h \in Hits : h.td \in Tds
  BY DEF Hits
<1> QED BY <1>1, <1>2 DEF Rows

\* The record whose data is being fetched is the one of the entry at the counter.
HitLeads(ix, q) ==
    q.hit # Nil => /\ q.ctr \in 0 .. MaxCtr - 1
                   /\ PutNode(q.hit) = q.node /\ Leads(ix, q, q.hit, q.ctr)

Exact(ix, iss, q) ==
    /\ HitLeads(ix, q)
    /\ \A h \in Members(q.all) \cup Members(q.ret) : Justified(ix, iss, q, h)
    /\ \A td \in Tds : Times(q.all, td) + Times(q.ret, td) <= Cardinality(Behind(ix, q, td))

QueryExact == \A p \in Clients : qry[p] # Nil => Exact(index, issued, qry[p])
HitInv == CounterInv /\ DataSent /\ EntriesStamped /\ QueryExact

\* The same question is asked of every entry throughout a query.
SameQuestion(q, n) == n.kind = q.kind /\ n.col = q.col /\ n.val = q.val /\ n.cmp = q.cmp

LEMMA LeadsSame ==
    ASSUME NEW q, NEW n, SameQuestion(q, n)
    PROVE  \A ix, td, i : Leads(ix, n, td, i) <=> Leads(ix, q, td, i)
BY DEF SameQuestion, Leads, Fits, QueryLabel

LEMMA BehindType ==
    ASSUME NEW ix, NEW q, NEW td
    PROVE  IsFiniteSet(Behind(ix, q, td)) /\ Cardinality(Behind(ix, q, td)) \in Nat
<1>1. IsFiniteSet(0 .. MaxCtr - 1)
  BY BoundAssumption, FS_Interval DEF BoundAssumption
<1>2. Behind(ix, q, td) \in SUBSET (0 .. MaxCtr - 1)
  BY DEF Behind
<1> QED BY <1>1, <1>2, FS_Subset, FS_CardinalityType

LEMMA BehindGrows ==
    ASSUME NEW ix, NEW jx, NEW q, NEW n, NEW td,
           \A i \in 0 .. MaxCtr - 1 : Leads(ix, q, td, i) => Leads(jx, n, td, i),
           \A i \in 0 .. MaxCtr - 1 : Passed(q, td, i) => Passed(n, td, i)
    PROVE  Cardinality(Behind(ix, q, td)) <= Cardinality(Behind(jx, n, td))
<1>1. Behind(ix, q, td) \in SUBSET Behind(jx, n, td)
  BY DEF Behind
<1> QED BY <1>1, BehindType, FS_Subset

LEMMA JustifiedSame ==
    ASSUME NEW q, NEW n, SameQuestion(q, n), NEW ix, NEW iss, NEW h, Justified(ix, iss, q, h)
    PROVE  Justified(ix, iss, n, h)
BY LeadsSame DEF Justified

LEMMA LessTrans == \A a, b, c, d \in Nat : a + b <= c /\ c <= d => a + b <= d
OBVIOUS

\* A query that only moves on stays exact.
LEMMA ExactMoves ==
    ASSUME NEW ix, NEW iss, NEW q \in Queries, NEW n, Exact(ix, iss, q), SameQuestion(q, n),
           n.ret = q.ret, n.all = q.all, HitLeads(ix, n),
           \A td \in Tds, i \in 0 .. MaxCtr - 1 : Passed(q, td, i) => Passed(n, td, i)
    PROVE  Exact(ix, iss, n)
<1>1. q.all \in Seq(Rows) /\ q.ret \in Seq(Rows)
  BY DEF Queries
<1>2. ASSUME NEW h \in Members(n.all) \cup Members(n.ret) PROVE Justified(ix, iss, n, h)
  <2>1. Justified(ix, iss, q, h)
    BY <1>2 DEF Exact
  <2> QED BY <2>1, JustifiedSame
<1>3. ASSUME NEW td \in Tds
      PROVE  Times(n.all, td) + Times(n.ret, td) <= Cardinality(Behind(ix, n, td))
  <2>1. Cardinality(Behind(ix, q, td)) <= Cardinality(Behind(ix, n, td))
    BY LeadsSame, BehindGrows
  <2>2. Times(q.all, td) + Times(q.ret, td) <= Cardinality(Behind(ix, q, td))
    BY DEF Exact
  <2>3. /\ Times(q.all, td) \in Nat /\ Times(q.ret, td) \in Nat
        /\ Cardinality(Behind(ix, q, td)) \in Nat /\ Cardinality(Behind(ix, n, td)) \in Nat
    BY <1>1, TimesType, BehindType
  <2> QED BY <2>1, <2>2, <2>3, LessTrans
<1> QED BY <1>2, <1>3 DEF Exact

\* The entry at the counter of a query that matches it leads to its record.
LEMMA MatchLeads ==
    ASSUME TypeOK, EntriesStamped, NEW p \in Clients, NEW q, q = qry[p], Asked(p),
           ~Exhausted(q), IndexGet(q) # Nil, Matches(q, IndexGet(q))
    PROVE  /\ q.ctr \in 0 .. MaxCtr - 1 /\ IndexGet(q).td \in Tds
           /\ PutNode(IndexGet(q).td) = q.node /\ IndexGet(q).td[2] = q.col
           /\ Leads(index, q, IndexGet(q).td, q.ctr)
<1> DEFINE l == QueryLabel(q, q.node, q.ctr)  e == index[l]
<1>1. /\ Valid(q) /\ q.node \in Nodes /\ q.ctr \in Nat /\ q.kind \in Kinds /\ q.val \in Nat
  BY ScanTypes DEF TypeOK, Asked, Valid, Queries
<1>2. q.ctr \in 0 .. MaxCtr - 1 /\ IndexGet(q) = e
  BY <1>1, BoundAssumption DEF BoundAssumption, IndexGet, QueryLabel
<1>3. l \in Labels /\ e # Nil /\ e \in Entries
  BY <1>1, <1>2, QueryLabelType DEF TypeOK
<1>4. Stamped(l, e)
  BY <1>3 DEF EntriesStamped
<1>5. l[1] = q.node /\ l[2] = Stream(q.kind, q.col, q.val)
  BY DEF QueryLabel
<1>6. e.td \in Tds
  BY <1>3 DEF Entries
<1> HIDE DEF e
<1>7. PutNode(e.td) = q.node /\ e.td[2] = q.col
  BY <1>4, <1>5 DEF Stamped, Stream
<1>8. e.row = q.ctr /\ Fits(q, e)
  BY <1>2 DEF Matches, Fits
<1>9. q.kind = "col" => q.ctr < q.val
  BY <1>1 DEF Exhausted
<1>10. index[QueryLabel(q, PutNode(e.td), q.ctr)] = e
  BY <1>7 DEF e
<1>11. Leads(index, q, e.td, q.ctr)
  BY <1>3, <1>8, <1>9, <1>10 DEF Leads
<1> QED BY <1>2, <1>6, <1>7, <1>11

\* A turn of a loop.
LEMMA TurnExact ==
    ASSUME TypeOK, EntriesStamped, NEW p \in Clients, NEW q, q = qry[p],
           Exact(index, issued, q), SearchLoop(p) \/ ColumnLoop(p)
    PROVE  Exact(index, issued, qry'[p])
<1>1. /\ Asked(p) /\ q.hit = Nil /\ ~Exhausted(q)
      /\ qry'[p] = IF IndexGet(q) # Nil /\ Matches(q, IndexGet(q))
                   THEN [q EXCEPT !.hit = IndexGet(q).td] ELSE Advance(q)
  BY DEF SearchLoop, ColumnLoop, UpdateQuery, TypeOK, Exhausted
<1>2. q \in Queries /\ q.node \in Nodes /\ q.ctr \in Nat
  BY <1>1, ScanTypes DEF Queries
<1>3. CASE IndexGet(q) # Nil /\ Matches(q, IndexGet(q))
  <2> DEFINE td == IndexGet(q).td  n == [q EXCEPT !.hit = td]
  <2>1. /\ qry'[p] = n /\ SameQuestion(q, n) /\ n.node = q.node /\ n.ctr = q.ctr
        /\ n.ret = q.ret /\ n.all = q.all /\ n.hit = td
    BY <1>1, <1>2, <1>3 DEF Queries, SameQuestion
  <2>2. q.ctr \in 0 .. MaxCtr - 1 /\ PutNode(td) = q.node /\ Leads(index, q, td, q.ctr)
    BY <1>1, <1>3, MatchLeads
  <2> HIDE DEF n, td
  <2>3. Leads(index, n, td, q.ctr)
    BY <2>1, <2>2, LeadsSame
  <2>4. HitLeads(index, n)
    BY <2>1, <2>2, <2>3 DEF HitLeads
  <2>5. \A d \in Tds, i \in 0 .. MaxCtr - 1 : Passed(q, d, i) => Passed(n, d, i)
    BY <2>1 DEF Passed
  <2> QED BY <1>2, <2>1, <2>4, <2>5, ExactMoves
<1>4. CASE ~(IndexGet(q) # Nil /\ Matches(q, IndexGet(q)))
  <2> DEFINE n == Advance(q)
  <2>1. /\ qry'[p] = n /\ SameQuestion(q, n) /\ n.node = q.node /\ n.ctr = q.ctr + 1
        /\ n.ret = q.ret /\ n.all = q.all /\ n.hit = Nil
    BY <1>1, <1>2, <1>4 DEF Queries, SameQuestion, Advance
  <2> HIDE DEF n
  <2>2. \A d \in Tds, i \in 0 .. MaxCtr - 1 : Passed(q, d, i) => Passed(n, d, i)
    BY <1>2, <2>1, BoundAssumption DEF BoundAssumption, Passed
  <2> QED BY <1>2, <2>1, <2>2, ExactMoves DEF HitLeads
<1> QED BY <1>3, <1>4

\* Fetching the data of a record: the entry that led to it is left behind, and
\* it was not behind before.
LEMMA FetchExact ==
    ASSUME TypeOK, DataSent, NEW p \in Clients, NEW q, q = qry[p],
           Exact(index, issued, q), FetchData(p)
    PROVE  Exact(index, issued, qry'[p])
<1> DEFINE v == data[<<q.node, q.hit>>]
           r == Push(q.ret, q.hit, v)
           n == [q EXCEPT !.hit = Nil, !.ctr = q.ctr + 1, !.ret = r]
<1>1. Asked(p) /\ q.hit # Nil /\ qry'[p] = n
  BY DEF FetchData, UpdateQuery, TypeOK
<1>2. /\ q \in Queries /\ q.node \in Nodes /\ q.ctr \in Nat /\ v \in Values \cup {Nil}
      /\ q.hit \in Tds /\ q.ret \in Seq(Rows) /\ q.all \in Seq(Rows)
  BY <1>1, ScanTypes DEF Queries
<1>3. /\ SameQuestion(q, n) /\ n.node = q.node /\ n.ctr = q.ctr + 1
      /\ n.ret = r /\ n.all = q.all /\ n.hit = Nil
  BY <1>2 DEF Queries, SameQuestion
<1>4. /\ q.ctr \in 0 .. MaxCtr - 1 /\ PutNode(q.hit) = q.node
      /\ Leads(index, q, q.hit, q.ctr)
  BY <1>1 DEF Exact, HitLeads
<1>5. v # Nil => Sent(issued, q.hit, v) /\ [td |-> q.hit, val |-> v] \in Hits
  BY <1>2 DEF DataSent, Hits
<1>6. r = IF v = Nil THEN q.ret ELSE Append(q.ret, [td |-> q.hit, val |-> v])
  BY DEF Push
<1> HIDE DEF n, r, v
<1>7. \A d \in Tds, i \in 0 .. MaxCtr - 1 : Passed(q, d, i) => Passed(n, d, i)
  BY <1>2, <1>3, BoundAssumption DEF BoundAssumption, Passed
<1>8. CASE v = Nil
  BY <1>1, <1>2, <1>3, <1>6, <1>7, <1>8, ExactMoves DEF HitLeads
<1>9. CASE v # Nil
  <2> DEFINE h == [td |-> q.hit, val |-> v]
  <2>1. /\ h \in Rows /\ h # ErrorRow /\ h.td = q.hit /\ h.val = v
        /\ r = Append(q.ret, h)
    BY <1>5, <1>6, <1>9, ErrorRowType
  <2> HIDE DEF h
  <2>2. ASSUME NEW g \in Members(n.all) \cup Members(n.ret)
        PROVE  Justified(index, issued, n, g)
    <3>1. g \in Members(q.all) \cup Members(q.ret) \/ g = h
      BY <1>2, <1>3, <2>1, MembersAppend
    <3>2. Justified(index, issued, q, g)
      BY <1>4, <1>5, <1>9, <2>1, <3>1 DEF Exact, Justified
    <3> QED BY <1>3, <3>2, JustifiedSame
  <2>3. ASSUME NEW td \in Tds
        PROVE  Times(n.all, td) + Times(n.ret, td) <= Cardinality(Behind(index, n, td))
    <3>1. PICK a, b, c, d : /\ a = Times(q.all, td) /\ b = Times(q.ret, td)
                            /\ c = Cardinality(Behind(index, q, td))
                            /\ d = Cardinality(Behind(index, n, td))
      OBVIOUS
    <3>2. a \in Nat /\ b \in Nat /\ c \in Nat /\ d \in Nat /\ a + b <= c
      BY <1>2, <3>1, TimesType, BehindType DEF Exact
    <3>3. Behind(index, q, td) \subseteq Behind(index, n, td)
      BY <1>3, <1>7, LeadsSame DEF Behind
    <3>4. CASE td # q.hit
      <4>1. Times(n.ret, td) = b
        BY <1>2, <1>3, <2>1, <3>1, <3>4, TimesAppend
      <4>2. c <= d
        BY <3>1, <3>3, BehindType, FS_Subset
      <4> QED BY <1>3, <3>1, <3>2, <4>1, <4>2
    <3>5. CASE td = q.hit
      <4>1. Times(n.ret, td) = b + 1
        BY <1>2, <1>3, <2>1, <3>1, <3>5, TimesAppend
      <4>2. q.ctr \notin Behind(index, q, td)
        BY <1>2, <1>4, <3>5, RouterAssumption DEF RouterAssumption, Nodes, Behind, Passed
      <4>3. q.ctr \in Behind(index, n, td)
        BY <1>2, <1>3, <1>4, <3>5, LeadsSame DEF Behind, Passed
      <4>4. Cardinality(Behind(index, q, td) \cup {q.ctr}) = c + 1
        BY <3>1, <4>2, BehindType, FS_AddElement
      <4>5. Behind(index, q, td) \cup {q.ctr} \in SUBSET Behind(index, n, td)
        BY <3>3, <4>3
      <4>6. c + 1 <= d
        BY <3>1, <4>4, <4>5, BehindType, FS_Subset
      <4> QED BY <1>3, <3>1, <3>2, <4>1, <4>6
    <3> QED BY <3>4, <3>5
  <2> QED BY <1>1, <1>3, <2>2, <2>3 DEF Exact, HitLeads
<1> QED BY <1>8, <1>9

\* A proxy's reply moves what it found to what the client has collected.
LEMMA ReplyExact ==
    ASSUME TypeOK, NEW p \in Clients, NEW q, q = qry[p],
           Exact(index, issued, q), NodeReply(p)
    PROVE  Exact(index, issued, qry'[p])
<1> DEFINE s == Collect(q)
           n == [q EXCEPT !.node = q.node + 1, !.ctr = 0, !.ret = Cleared(q.ret), !.all = s]
<1>1. Asked(p) /\ q.hit = Nil /\ qry'[p] = n
  BY DEF NodeReply, UpdateQuery, TypeOK
<1>2. /\ q \in Queries /\ q.node \in Nodes /\ q.ctr \in Nat
      /\ q.ret \in Seq(Rows) /\ q.all \in Seq(Rows)
  BY <1>1, ScanTypes DEF Queries
<1>3. /\ SameQuestion(q, n) /\ n.node = q.node + 1 /\ n.ctr = 0
      /\ n.ret = <<>> /\ n.all = s /\ n.hit = Nil
  BY <1>1, <1>2 DEF Queries, SameQuestion, Cleared
<1>4. s = q.all \o q.ret \/ s = q.ret \o q.all
  BY DEF Collect
<1> HIDE DEF n, s
<1>5. ASSUME NEW h \in Members(n.all) \cup Members(n.ret)
      PROVE  Justified(index, issued, n, h)
  <2>1. Members(<<>>) = {}
    BY DEF Members
  <2>2. h \in Members(q.all) \cup Members(q.ret)
    BY <1>2, <1>3, <1>4, <2>1, MembersConcat
  <2>3. Justified(index, issued, q, h)
    BY <2>2 DEF Exact
  <2> QED BY <1>3, <2>3, JustifiedSame
<1>6. ASSUME NEW td \in Tds
      PROVE  Times(n.all, td) + Times(n.ret, td) <= Cardinality(Behind(index, n, td))
  <2>1. PICK a, b, c, d : /\ a = Times(q.all, td) /\ b = Times(q.ret, td)
                          /\ c = Cardinality(Behind(index, q, td))
                          /\ d = Cardinality(Behind(index, n, td))
    OBVIOUS
  <2>2. a \in Nat /\ b \in Nat /\ c \in Nat /\ d \in Nat /\ a + b <= c
    BY <1>2, <2>1, TimesType, BehindType DEF Exact
  <2>3. PutNode(td) \in Nodes
    BY RouteTypes
  <2>4. \A i \in 0 .. MaxCtr - 1 : Passed(q, td, i) => Passed(n, td, i)
    BY <1>2, <1>3, <2>3, RouterAssumption DEF RouterAssumption, Nodes, Passed
  <2>5. c <= d
    BY <1>3, <2>1, <2>4, LeadsSame, BehindGrows
  <2>6. Times(s, td) = a + b
    <3>1. Times(q.all \o q.ret, td) = a + b /\ Times(q.ret \o q.all, td) = b + a
      BY <1>2, <2>1, TimesConcat, Zenon
    <3>2. b + a = a + b
      BY <2>2
    <3> QED BY <1>4, <3>1, <3>2, Zenon
  <2>7. Times(<<>>, td) = 0
    BY TimesEmpty
  <2> QED BY <1>3, <2>1, <2>2, <2>5, <2>6, <2>7
<1> QED BY <1>1, <1>3, <1>5, <1>6 DEF Exact, HitLeads

\* A new query has found nothing.
LEMMA BeginExact ==
    ASSUME NEW kind, NEW c, NEW x, NEW cmp, NEW must
    PROVE  Exact(index, issued, [NewQuery(kind, c, x, cmp) EXCEPT !.must = must])
<1> DEFINE q == [NewQuery(kind, c, x, cmp) EXCEPT !.must = must]
<1>1. q.ret = <<>> /\ q.all = <<>> /\ q.hit = Nil
  BY DEF NewQuery
<1> HIDE DEF q
<1>2. Members(<<>>) = {}
  BY DEF Members
<1>3. ASSUME NEW td \in Tds
      PROVE  Times(q.all, td) + Times(q.ret, td) <= Cardinality(Behind(index, q, td))
  BY <1>1, TimesEmpty, BehindType
<1>4. Exact(index, issued, q)
  BY <1>1, <1>2, <1>3 DEF Exact, HitLeads
<1> QED BY <1>4 DEF q

\* A turn that Redis refuses adds the row of no record, or none.
LEMMA RefusedExact ==
    ASSUME TypeOK, NEW p \in Clients, RefusedStep(p), NEW q, q = qry[p], qry'[p] # Nil,
           Exact(index, issued, q)
    PROVE  Exact(index, issued, qry'[p])
<1>1. PICK n : n = qry'[p]
  OBVIOUS
<1>2. /\ q \in Queries /\ q.node \in Nodes
      /\ n.kind = q.kind /\ n.col = q.col /\ n.val = q.val /\ n.cmp = q.cmp
      /\ n.node = q.node /\ n.all = q.all /\ n.hit = Nil /\ n.ctr = q.ctr + 1
      /\ n.ret = q.ret \/ n.ret = Append(q.ret, ErrorRow)
  BY <1>1, RefusedTurn
<1>3. SameQuestion(q, n)
  BY <1>2 DEF SameQuestion
<1>4. q.ret \in Seq(Rows) /\ q.all \in Seq(Rows) /\ q.ctr \in Nat
  BY <1>2 DEF Queries
<1>5. MaxRefuse > 0
  <2>1. refusals < MaxRefuse
    BY RefusedSame DEF RefusedStep
  <2>2. refusals \in 0 .. MaxRefuse /\ MaxRefuse \in Nat
    BY BoundAssumption DEF BoundAssumption, TypeOK
  <2> QED BY <2>1, <2>2
<1>6. ASSUME NEW g \in Members(n.all) \cup Members(n.ret)
      PROVE  Justified(index, issued, n, g)
  <2>1. g \in Members(q.all) \cup Members(q.ret) \/ g = ErrorRow
    <3>1. Members(Append(q.ret, ErrorRow)) \subseteq Members(q.ret) \cup {ErrorRow}
      BY <1>4, MembersAppend, ErrorRowType
    <3> QED BY <1>2, <3>1
  <2>2. Justified(index, issued, q, g)
    <3>1. CASE g = ErrorRow
      BY <1>5, <3>1 DEF Justified
    <3>2. CASE g \in Members(q.all) \cup Members(q.ret)
      BY <3>2 DEF Exact
    <3> QED BY <2>1, <3>1, <3>2
  <2> QED BY <1>3, <2>2, JustifiedSame
<1>7. ASSUME NEW td \in Tds
      PROVE  Times(n.all, td) + Times(n.ret, td) <= Cardinality(Behind(index, n, td))
  <2>1. Times(n.ret, td) = Times(q.ret, td)
    <3>1. Times(Append(q.ret, ErrorRow), td) = Times(q.ret, td)
      BY <1>4, TimesAppend, ErrorRowType
    <3> QED BY <1>2, <3>1
  <2>2. \A i \in 0 .. MaxCtr - 1 : Passed(q, td, i) => Passed(n, td, i)
    BY <1>2, <1>4, BoundAssumption DEF BoundAssumption, Passed
  <2>3. Cardinality(Behind(index, q, td)) <= Cardinality(Behind(index, n, td))
    BY <1>3, <2>2, LeadsSame, BehindGrows
  <2>4. Times(q.all, td) + Times(q.ret, td) <= Cardinality(Behind(index, q, td))
    BY DEF Exact
  <2>5. /\ Times(q.all, td) \in Nat /\ Times(q.ret, td) \in Nat
        /\ Cardinality(Behind(index, q, td)) \in Nat
        /\ Cardinality(Behind(index, n, td)) \in Nat
    BY <1>4, TimesType, BehindType
  <2> QED BY <1>2, <2>1, <2>3, <2>4, <2>5, LessTrans
<1> QED BY <1>1, <1>2, <1>6, <1>7 DEF Exact, HitLeads

\* What other steps do to the stores keeps a query exact.
LEMMA ExactStays ==
    ASSUME NEW q, Valid(q), Exact(index, issued, q), IndexKept, issued \subseteq issued'
    PROVE  Exact(index', issued', q)
<1>1. ASSUME NEW td \in Tds, NEW n \in 0 .. MaxCtr - 1, Leads(index, q, td, n)
      PROVE  Leads(index', q, td, n)
  <2>1. QueryLabel(q, PutNode(td), n) \in Labels
    BY RouteTypes, QueryLabelType
  <2> QED BY <1>1, <2>1 DEF Leads, IndexKept
<1>2. q.all \in Seq(Rows) /\ q.ret \in Seq(Rows) /\ q.hit \in Tds \cup {Nil}
  BY DEF Valid, Queries
<1>3. HitLeads(index', q)
  BY <1>1, <1>2 DEF Exact, HitLeads
<1>4. ASSUME NEW h \in Members(q.all) \cup Members(q.ret)
      PROVE  Justified(index', issued', q, h)
  <2>1. h \in Rows
    BY <1>2 DEF Members
  <2>2. Justified(index, issued, q, h) /\ (h # ErrorRow => h.td \in Tds)
    BY <2>1, ErrorRowType DEF Exact
  <2>3. CASE h = ErrorRow
    BY <2>2, <2>3 DEF Justified
  <2>4. CASE h # ErrorRow
    BY <1>1, <2>2, <2>4, SentStays DEF Justified
  <2> QED BY <2>3, <2>4
<1>5. ASSUME NEW td \in Tds
      PROVE  Times(q.all, td) + Times(q.ret, td) <= Cardinality(Behind(index', q, td))
  <2>1. Cardinality(Behind(index, q, td)) <= Cardinality(Behind(index', q, td))
    BY <1>1, BehindGrows
  <2>2. Times(q.all, td) + Times(q.ret, td) <= Cardinality(Behind(index, q, td))
    BY DEF Exact
  <2>3. /\ Times(q.all, td) \in Nat /\ Times(q.ret, td) \in Nat
        /\ Cardinality(Behind(index, q, td)) \in Nat
        /\ Cardinality(Behind(index', q, td)) \in Nat
    BY <1>2, TimesType, BehindType
  <2> QED BY <2>1, <2>2, <2>3, LessTrans
<1> QED BY <1>3, <1>4, <1>5 DEF Exact

LEMMA ExactStep ==
    ASSUME HitInv, [Next]_vars, NEW c \in Clients, qry'[c] # Nil
    PROVE  \/ qry'[c] = qry[c]
           \/ UNCHANGED <<index, issued>> /\ Exact(index, issued, qry'[c])
<1> USE DEF storeVars, clientVars, refusalVars, historyVars
<1> DEFINE Goal == \/ qry'[c] = qry[c]
                   \/ UNCHANGED <<index, issued>> /\ Exact(index, issued, qry'[c])
<1>1. TypeOK /\ DataSent /\ EntriesStamped /\ qry \in [Clients -> Queries \cup {Nil}]
  BY DEF HitInv, CounterInv, TypeOK
<1>2. ASSUME NEW p \in Clients, BeginStep(p) PROVE Goal
  <2>1. ASSUME NEW kind, NEW col, NEW x, NEW cmp, Begin(p, NewQuery(kind, col, x, cmp))
        PROVE  Goal
    <3> DEFINE n == NewQuery(kind, col, x, cmp)  q == [n EXCEPT !.must = MustFind(n)]
    <3>1. Exact(index, issued, q)
      BY BeginExact
    <3>2. qry' = [qry EXCEPT ![p] = q] /\ UNCHANGED <<index, issued>>
      BY <2>1 DEF Begin
    <3> HIDE DEF q
    <3> QED BY <1>1, <3>1, <3>2
  <2> QED BY <1>2, <2>1 DEF BeginStep, Search, RangeQuery, GetCol
<1>3. ASSUME NEW p \in Clients, SearchLoop(p) \/ ColumnLoop(p) \/ FetchData(p) \/ NodeReply(p)
      PROVE  Goal
  <2>1. PICK q : q = qry[p]
    OBVIOUS
  <2>2. /\ q # Nil /\ UNCHANGED <<index, issued>>
        /\ \A d \in Clients \ {p} : qry'[d] = qry[d]
    BY <1>1, <1>3, <2>1 DEF SearchLoop, ColumnLoop, FetchData, NodeReply, UpdateQuery, Asked
  <2>3. Exact(index, issued, q)
    BY <2>1, <2>2 DEF HitInv, QueryExact
  <2>4. Exact(index, issued, qry'[p])
    BY <1>1, <1>3, <2>1, <2>3, TurnExact, FetchExact, ReplyExact
  <2> QED BY <2>2, <2>4
<1>4. ASSUME NEW p \in Clients, QueryReturn(p) \/ QueryThrows(p) \/ Restart(p) PROVE Goal
  BY <1>1, <1>4 DEF QueryReturn, UpdateQuery, QueryThrows, Restart
<1>5. ASSUME NEW p \in Clients, RefusedStep(p) PROVE Goal
  <2>1. PICK q : q = qry[p]
    OBVIOUS
  <2>2. /\ q # Nil /\ UNCHANGED <<index, issued>>
        /\ \A d \in Clients \ {p} : qry'[d] = qry[d]
    BY <1>1, <1>5, <2>1, RefusedSame DEF RefusedStep, Asked
  <2>3. Exact(index, issued, q)
    BY <2>1, <2>2 DEF HitInv, QueryExact
  <2>4. qry'[p] # Nil => Exact(index, issued, qry'[p])
    BY <1>1, <1>5, <2>1, <2>3, RefusedExact
  <2> QED BY <2>2, <2>4
<1>6. ASSUME \/ LateStep \/ UNCHANGED vars
             \/ \E p \in Clients : PutStep(p) \/ GetStep(p)
      PROVE  qry' = qry
  BY <1>6, OthersQuery
<1> QED BY <1>2, <1>3, <1>4, <1>5, <1>6, NextCases DEF ReaderStep, ScanStep

LEMMA HitStep ==
    ASSUME NEW w \in Clients, Writers = {w}, MaxRestart = 0, HitInv, TypeOK', [Next]_vars
    PROVE  HitInv'
<1>1. CounterInv' /\ IndexKept
  BY CounterStep DEF HitInv, CounterInv, IndexKept
<1>2. TypeOK
  BY DEF HitInv, CounterInv
<1>3. DataSent' /\ issued \subseteq issued' /\ EntriesStamped'
  BY <1>2, DataStep, StampedStep DEF HitInv
<1>4. ASSUME NEW c \in Clients, qry'[c] # Nil PROVE Exact(index', issued', qry'[c])
  <2>1. CASE qry'[c] = qry[c]
    <3>1. PICK q : q = qry[c]
      OBVIOUS
    <3>2. Exact(index, issued, q) /\ Valid(q)
      BY <1>2, <1>4, <2>1, <3>1 DEF HitInv, QueryExact, TypeOK, Valid
    <3>3. Exact(index', issued', q)
      BY <1>1, <1>3, <3>2, ExactStays
    <3> QED BY <2>1, <3>1, <3>3
  <2>2. CASE UNCHANGED <<index, issued>> /\ Exact(index, issued, qry'[c])
    BY <2>2
  <2> QED BY <1>4, <2>1, <2>2, ExactStep
<1>5. QueryExact'
  BY <1>4 DEF QueryExact
<1> QED BY <1>1, <1>3, <1>5 DEF HitInv

LEMMA HitInit == Init => HitInv
<1>1. Init => EntriesStamped /\ QueryExact
  BY DEF Init, EntriesStamped, QueryExact
<1> QED BY <1>1, InitType, CounterInit, DataInit DEF HitInv, CounterInv

-----------------------------------------------------------------------------
(***************************************************************************)
(* What the loop invariant says of the results.                            *)
(***************************************************************************)

\* An entry that leads q to td was made for a value that satisfies q, in the
\* column of q, and is under the label that Put gives an entry of that value.
LEMMA LeadsMeans ==
    ASSUME TypeOK, EntriesStamped, NEW q, Valid(q), NEW td \in Tds,
           NEW n \in 0 .. MaxCtr - 1, Leads(index, q, td, n)
    PROVE  /\ td[2] = q.col
           /\ QueryLabel(q, PutNode(td), n) \in Labels
           /\ \E v \in Values :
                /\ q.kind = "col" \/ Satisfies(q, v)
                /\ QueryLabel(q, PutNode(td), n) = <<PutNode(td), Stream(q.kind, q.col, v), n>>
                /\ index[QueryLabel(q, PutNode(td), n)] = Entry(q.kind, td, v, n)
<1> DEFINE l == QueryLabel(q, PutNode(td), n)
<1>1. PICK e : e = index[l]
  OBVIOUS
<1>2. l \in Labels
  BY RouteTypes, QueryLabelType
<1>3. e # Nil /\ e.td = td /\ e.row = n /\ Fits(q, e)
  BY <1>1 DEF Leads
<1>4. Stamped(l, e)
  BY <1>1, <1>2, <1>3 DEF EntriesStamped
<1>5. /\ l[2] = Stream(q.kind, q.col, q.val) /\ l[2][1] = q.kind /\ l[3] = n
      /\ l = <<PutNode(td), Stream(q.kind, q.col, q.val), n>>
  BY DEF QueryLabel, Stream
<1> HIDE DEF l
<1>6. PICK v \in Values : e = Entry(q.kind, td, v, n) /\ l[2] = Stream(q.kind, td[2], v)
  BY <1>3, <1>4, <1>5 DEF Stamped
<1>7. td[2] = q.col
  BY <1>5, <1>6 DEF Stream
<1>8. l = <<PutNode(td), Stream(q.kind, q.col, v), n>>
  BY <1>5, <1>6, <1>7
<1>9. q.kind = "col" \/ Satisfies(q, v)
  <2>1. q.kind # "col" => e.tag = v
    BY <1>6 DEF Entry
  <2>2. v \in Nat /\ q.val \in Nat
    BY DataAssumption DEF DataAssumption, Valid, Queries
  <2> QED BY <1>3, <2>1, <2>2 DEF Fits, OreMatch, Satisfies
<1> QED BY <1>1, <1>2, <1>6, <1>7, <1>8, <1>9 DEF l

\* What a reader has in its hands comes from its entries.
LEMMA HitMeans ==
    ASSUME HitInv, NEW p \in Clients, NEW q, q = qry[p], q # Nil,
           NEW h \in Members(q.all \o q.ret)
    PROVE  Valid(q) /\ h \in Rows /\ Justified(index, issued, q, h)
<1>1. Valid(q) /\ q.all \in Seq(Rows) /\ q.ret \in Seq(Rows)
  BY DEF HitInv, CounterInv, TypeOK, Valid, Queries
<1>2. h \in Members(q.all) \cup Members(q.ret)
  BY <1>1, MembersConcat
<1>3. h \in Rows
  BY <1>1, <1>2 DEF Members
<1>4. Exact(index, issued, q)
  BY DEF HitInv, QueryExact
<1> QED BY <1>1, <1>2, <1>3, <1>4 DEF Exact

\* Where Redis refuses nothing, no row is an error text.
RowsAreHits ==
    \A p \in Clients : qry[p] # Nil => Members(qry[p].all \o qry[p].ret) \subseteq Hits

LEMMA NoErrorRow == MaxRefuse = 0 /\ HitInv => RowsAreHits
<1> SUFFICES ASSUME HitInv, MaxRefuse = 0, NEW p \in Clients, NEW q, q = qry[p], q # Nil
             PROVE  Members(q.all \o q.ret) \subseteq Hits
  BY DEF RowsAreHits
<1> QED BY HitMeans, ErrorRowType DEF Justified

LEMMA HitsIndexed == HitInv => HitsAreIndexed
<1> SUFFICES ASSUME HitInv, NEW p \in Readers, NEW q, q = qry[p], q # Nil,
                    NEW h \in Members(q.all \o q.ret) \ {ErrorRow}
             PROVE  /\ \E r \in issued : r.td = h.td /\ r.val = h.val
                    /\ \E v \in Values, i \in 0 .. MaxCtr - 1 :
                         /\ q.kind = "col" \/ Satisfies(q, v)
                         /\ index[<<PutNode(h.td), Stream(q.kind, q.col, v), i>>]
                              = Entry(q.kind, h.td, v, i)
  BY DEF HitsAreIndexed
<1>1. p \in Clients
  BY ClientAssumption DEF ClientAssumption
<1>2. Valid(q) /\ h.td \in Tds /\ Justified(index, issued, q, h)
  BY <1>1, HitMeans, ErrorRowType
<1>3. PICK n \in 0 .. MaxCtr - 1 : Leads(index, q, h.td, n)
  BY <1>2 DEF Justified
<1>4. \E v \in Values :
         /\ q.kind = "col" \/ Satisfies(q, v)
         /\ QueryLabel(q, PutNode(h.td), n) = <<PutNode(h.td), Stream(q.kind, q.col, v), n>>
         /\ index[QueryLabel(q, PutNode(h.td), n)] = Entry(q.kind, h.td, v, n)
  BY <1>2, <1>3, LeadsMeans DEF HitInv, CounterInv
<1>5. \E r \in issued : r.td = h.td /\ r.val = h.val
  BY <1>2 DEF Justified, Sent
<1> QED BY <1>4, <1>5

LEMMA HitsSound == HitInv => SearchSound
<1> SUFFICES ASSUME HitInv, NEW p \in Readers, NEW q, q = qry[p], q # Nil,
                    NEW h \in Members(q.all \o q.ret) \ {ErrorRow}
             PROVE  h.td[2] = q.col /\ (Satisfies(q, h.val) \/ ~OneValue(h))
  BY DEF SearchSound
<1>1. p \in Clients
  BY ClientAssumption DEF ClientAssumption
<1>2. Valid(q) /\ h.td \in Tds /\ Justified(index, issued, q, h)
  BY <1>1, HitMeans, ErrorRowType
<1>3. PICK n \in 0 .. MaxCtr - 1 : Leads(index, q, h.td, n)
  BY <1>2 DEF Justified
<1>4. PICK l : l = QueryLabel(q, PutNode(h.td), n)
  OBVIOUS
<1>5. /\ h.td[2] = q.col /\ l \in Labels
      /\ \E v \in Values : (q.kind = "col" \/ Satisfies(q, v))
                           /\ index[l] = Entry(q.kind, h.td, v, n)
  BY <1>2, <1>3, <1>4, LeadsMeans DEF HitInv, CounterInv
<1>6. PICK v \in Values : (q.kind = "col" \/ Satisfies(q, v))
                          /\ index[l] = Entry(q.kind, h.td, v, n)
  BY <1>5
<1>7. v # Nil
  BY NilAssumption DEF NilAssumption
<1>8. index[l] # Nil
  BY <1>3, <1>4 DEF Leads
<1>9. index[l].td = h.td /\ (q.kind # "col" => index[l].tag = v)
  BY <1>6 DEF Entry
<1>10. CASE q.kind = "col"
  BY <1>5, <1>10 DEF Satisfies
<1>11. CASE q.kind # "col"
  <2>1. OneValue(h) => v \in {h.val, Nil}
    BY <1>5, <1>8, <1>9, <1>11 DEF OneValue
  <2>2. OneValue(h) => v = h.val
    BY <1>7, <2>1
  <2> QED BY <1>5, <1>6, <1>11, <2>2
<1> QED BY <1>10, <1>11

\* The labels of a record's entries that q asks for are on the stream q walks.
LEMMA LeadingWalked ==
    ASSUME TypeOK, EntriesStamped, NEW q, Valid(q), NEW td \in Tds
    PROVE  \A l \in Leading(q, td) :
              \E n \in 0 .. MaxCtr - 1 : l = QueryLabel(q, PutNode(td), n)
<1> SUFFICES ASSUME NEW l \in Leading(q, td)
             PROVE  \E n \in 0 .. MaxCtr - 1 : l = QueryLabel(q, PutNode(td), n)
  OBVIOUS
<1>1. PICK v \in Values, n \in 0 .. MaxCtr - 1 : l = <<PutNode(td), Stream(q.kind, q.col, v), n>>
  BY DEF Leading
<1>2. index[l] # Nil /\ index[l].td = td /\ (q.kind = "col" \/ Satisfies(q, index[l].tag))
  BY DEF Leading
<1>3. Stream(q.kind, q.col, v) = Stream(q.kind, q.col, q.val)
  <2>1. CASE q.kind # "v2"
    BY <2>1 DEF Stream
  <2>2. CASE q.kind = "v2"
    <3>1. l \in Labels
      <4>1. PutNode(td) \in Nodes /\ q.kind \in Kinds /\ q.col \in Cols
        BY RouteTypes DEF Valid, Queries
      <4> QED BY <1>1, <4>1, StreamType DEF Labels
    <3>2. Stamped(l, index[l])
      BY <1>2, <3>1 DEF EntriesStamped
    <3>3. l[2] = Stream("v2", q.col, v) /\ l[2][1] = "v2" /\ l[2][3] = v
      BY <1>1, <2>2 DEF Stream
    <3>4. index[l].tag = v
      <4>1. PICK u \in Values : /\ index[l] = Entry("v2", index[l].td, u, l[3])
                                /\ l[2] = Stream("v2", index[l].td[2], u)
        BY <3>2, <3>3 DEF Stamped
      <4>2. l[2][3] = u
        BY <4>1 DEF Stream
      <4> QED BY <3>3, <4>1, <4>2 DEF Entry
    <3>5. v = q.val
      BY <1>2, <2>2, <3>4 DEF Satisfies
    <3> QED BY <3>5
  <2> QED BY <2>1, <2>2
<1> QED BY <1>1, <1>3 DEF QueryLabel

\* Every entry q has left behind is one of them.
LEMMA BehindLeading ==
    ASSUME TypeOK, EntriesStamped, NEW q, Valid(q), NEW td \in Tds
    PROVE  /\ IsFiniteSet(Leading(q, td))
           /\ Cardinality(Behind(index, q, td)) <= Cardinality(Leading(q, td))
<1> DEFINE I == 0 .. MaxCtr - 1
           g == [n \in I |-> QueryLabel(q, PutNode(td), n)]
           W == {g[n] : n \in I}
           B == Behind(index, q, td)
           f == [n \in B |-> QueryLabel(q, PutNode(td), n)]
<1>1. IsFiniteSet(I)
  BY BoundAssumption, FS_Interval DEF BoundAssumption
<1>2. IsFiniteSet(W)
  <2>1. g \in Surjection(I, W)
    BY DEF Surjection
  <2> QED BY <1>1, <2>1, FS_Surjection
<1>3. IsFiniteSet(Leading(q, td))
  <2>1. Leading(q, td) \in SUBSET W
    BY LeadingWalked
  <2> QED BY <1>2, <2>1, FS_Subset
<1>4. ASSUME NEW n \in B PROVE f[n] \in Leading(q, td)
  <2>1. n \in I /\ Leads(index, q, td, n)
    BY <1>4 DEF Behind
  <2>2. PICK l : l = QueryLabel(q, PutNode(td), n)
    OBVIOUS
  <2>3. PICK v \in Values : /\ q.kind = "col" \/ Satisfies(q, v)
                            /\ l = <<PutNode(td), Stream(q.kind, q.col, v), n>>
                            /\ index[l] = Entry(q.kind, td, v, n)
    BY <2>1, <2>2, LeadsMeans
  <2>4. index[l] # Nil /\ index[l].td = td
    BY <2>1, <2>2 DEF Leads
  <2>5. q.kind = "col" \/ Satisfies(q, index[l].tag)
    BY <2>3 DEF Entry
  <2>6. l \in Leading(q, td)
    BY <2>1, <2>3, <2>4, <2>5 DEF Leading
  <2> QED BY <2>2, <2>6
<1>5. \A m, n \in B : f[m] = f[n] => m = n
  BY DEF QueryLabel
<1>6. f \in Injection(B, Leading(q, td))
  BY <1>4, <1>5 DEF Injection, IsInjective
<1> HIDE DEF f
<1>7. Cardinality(B) <= Cardinality(Leading(q, td))
  BY <1>3, <1>6, FS_Injection
<1> QED BY <1>3, <1>7

LEMMA HitsOnce == HitInv => NoDoubleCount
<1> SUFFICES ASSUME HitInv, NEW p \in Readers, NEW q, q = qry[p], q # Nil,
                    NEW td \in Found(q.all \o q.ret) \ {Nil}
             PROVE  Times(q.all \o q.ret, td) <= Cardinality(Leading(q, td))
  BY DEF NoDoubleCount, Times, Places
<1>1. p \in Clients
  BY ClientAssumption DEF ClientAssumption
<1>2. PICK h \in Members(q.all \o q.ret) : h.td = td
  BY DEF Found
<1>3. Valid(q) /\ td \in Tds
  BY <1>1, <1>2, HitMeans, ErrorRowType
<1>4. q.all \in Seq(Rows) /\ q.ret \in Seq(Rows)
  BY <1>3 DEF Valid, Queries
<1>5. PICK a, b, c, d : /\ a = Times(q.all, td) /\ b = Times(q.ret, td)
                        /\ c = Cardinality(Behind(index, q, td))
                        /\ d = Cardinality(Leading(q, td))
  OBVIOUS
<1>6. a \in Nat /\ b \in Nat /\ c \in Nat /\ a + b <= c
  BY <1>1, <1>3, <1>4, <1>5, TimesType, BehindType DEF HitInv, QueryExact, Exact
<1>7. c <= d /\ d \in Nat
  BY <1>3, <1>5, BehindLeading, FS_CardinalityType DEF HitInv, CounterInv
<1>8. Times(q.all \o q.ret, td) = a + b
  BY <1>4, <1>5, TimesConcat, ZenonT(60)
<1>9. a + b <= d
  BY <1>6, <1>7
<1> QED BY <1>5, <1>8, <1>9, Zenon

\* With one writer that never restarts, queries return only records that some
\* Put has indexed under what they ask for, with values that were Put, through
\* every failure, refusal, late SET and concurrent Put; only the text of an
\* error reply comes as a row besides.
THEOREM ReturnsIndexed ==
    ASSUME NEW w \in Clients, Writers = {w}, MaxRestart = 0
    PROVE  Spec => []HitsAreIndexed
<1>1. HitInv /\ TypeOK' /\ [Next]_vars => HitInv'
  BY HitStep
<1> QED BY <1>1, HitInit, HitsIndexed, TypeCorrect, PTL DEF Spec

\* Then a record that is indexed under one value only is returned only by
\* queries of its column that its value satisfies.
THEOREM ReturnsSatisfying ==
    ASSUME NEW w \in Clients, Writers = {w}, MaxRestart = 0
    PROVE  Spec => []SearchSound
<1>1. HitInv /\ TypeOK' /\ [Next]_vars => HitInv'
  BY HitStep
<1> QED BY <1>1, HitInit, HitsSound, TypeCorrect, PTL DEF Spec

\* And no record is collected more often than it has entries the query asks
\* for, however the streams grow while the proxies walk them.
THEOREM ReturnsOnce ==
    ASSUME NEW w \in Clients, Writers = {w}, MaxRestart = 0
    PROVE  Spec => []NoDoubleCount
<1>1. HitInv /\ TypeOK' /\ [Next]_vars => HitInv'
  BY HitStep
<1> QED BY <1>1, HitInit, HitsOnce, TypeCorrect, PTL DEF Spec

-----------------------------------------------------------------------------
(***************************************************************************)
(* IV. The refinement: EncKV implements EncStore if no call throws, no     *)
(* command is refused, there is one writer that never restarts, and both   *)
(* routes of every record lead to one node.  Steps map to steps of the store one by one: the SET of an *)
(* entry to IndexRecord, the SET of the data to StoreRecord, the start of a*)
(* query to Ask, the last node's reply to Answer; all others to no step.   *)
(***************************************************************************)

\* What a reader may know of its calls is the same before and after.
SameCalls(c) ==
    /\ AskedBy(qry[c])' = AskedBy(qry[c])
    /\ AnswerTo(qry[c])' = AnswerTo(qry[c])
    /\ ReadBy(got[c])' = ReadBy(got[c])

LEMMA CallsStay ==
    ASSUME \A c \in Readers : SameCalls(c)
    PROVE  UNCHANGED Store!calls
BY DEF SameCalls, Store!calls

LEMMA StoreStays ==
    ASSUME UNCHANGED <<index, issued, acked>>, \A c \in Readers : SameCalls(c)
    PROVE  UNCHANGED Store!vars
<1>1. UNCHANGED Store!calls
  BY CallsStay
<1> QED BY <1>1 DEF Store!vars, Store!calls, FoundIn

\* An entry of a record under the label Put gives it lets the record be found.
LEMMA EntryFinds ==
    ASSUME NEW td \in Tds, NEW v \in Values, NEW k \in Kinds, NEW n \in 0 .. MaxCtr - 1,
           index[<<PutNode(td), Stream(k, td[2], v), n>>] = Entry(k, td, v, n)
    PROVE  Store!FoundBy(k, td, v) \in FoundIn(index)
<1> DEFINE l == <<PutNode(td), Stream(k, td[2], v), n>>
<1>1. l \in Labels /\ index[l] # Nil
  BY StoredTypes
<1>2. Way(l, index[l]) = Store!FoundBy(k, td, v)
  BY DEF Way, Stream, Entry, Store!FoundBy
<1> HIDE DEF l
<1> QED BY <1>1, <1>2 DEF FoundIn

-----------------------------------------------------------------------------
\* The SET of an entry goes to an unused label, so that the record can be found
\* by one thing more and nothing else is forgotten.
LEMMA PutIndexRefines ==
    ASSUME CounterInv, NEW w \in Clients, Writers = {w}, NEW kind \in Kinds, PutIndex(w, kind)
    PROVE  \E td \in Tds, v \in Values : Store!IndexRecord(kind, td, v)
<1> DEFINE f == LabelOf(w, put[w], kind)  e == EntryOf(w, put[w], kind)
           td == put[w].td  v == put[w].val
<1>1. /\ put[w] # Nil /\ HasRoom(w, put[w], kind) /\ CountUp(w, put[w], kind)
      /\ index' = [index EXCEPT ![f] = e]
      /\ UNCHANGED <<qry, got, issued, acked>>
  BY DEF PutIndex, StoreEntry, refusalVars, historyVars
<1>2. f \in Labels /\ index[f] = Nil
  BY <1>1, FreshLabel DEF Used
<1>3. put[w] \in Puts /\ e \in Entries
  BY <1>1, PutTypes DEF CounterInv
<1>4. td \in Tds /\ v \in Values /\ e # Nil
  BY <1>3, NilAssumption DEF NilAssumption, Puts
<1>5. Way(f, e) = Store!FoundBy(kind, td, v)
  BY DEF Way, LabelOf, EntryOf, Stream, Entry, Store!FoundBy
<1>6. index \in [Labels -> Entries \cup {Nil}]
  BY DEF CounterInv, TypeOK
<1> HIDE DEF f, e, td, v
<1>7. \A l \in Labels : index'[l] = IF l = f THEN e ELSE index[l]
  BY <1>1, <1>6
<1>8. FoundIn(index)' = FoundIn(index) \cup {Way(f, e)}
  BY <1>2, <1>4, <1>7 DEF FoundIn
<1>9. UNCHANGED Store!calls
  BY <1>1, CallsStay DEF SameCalls, AskedBy, AnswerTo, ReadBy, Question, Satisfies, Members
<1>10. Store!IndexRecord(kind, td, v)
  BY <1>1, <1>5, <1>8, <1>9 DEF Store!IndexRecord
<1> QED BY <1>4, <1>10

\* The SET of the data comes when the record is in all of its indexes.
LEMMA PutDataRefines ==
    ASSUME VisibleInv, NoLate, NEW p \in Clients, PutData(p)
    PROVE  \E r \in Records : Store!StoreRecord(r)
<1> DEFINE w == put[p]  r == RecordOf(w)
<1>1. /\ w # Nil /\ w.todo = {}
      /\ issued' = issued \cup {r} /\ acked' = [acked EXCEPT ![w.td] = r]
      /\ UNCHANGED <<index, qry, got>>
  BY DEF PutData, Indexed, refusalVars
<1>2. w \in Puts
  BY <1>1 DEF VisibleInv, CounterInv, TypeOK
<1>3. /\ w.td \in Tds /\ w.val \in Values /\ w.kinds \subseteq Kinds
      /\ r \in Records /\ r.td = w.td /\ r.val = w.val /\ r.kinds = w.kinds
  BY <1>2 DEF Puts, Records, RecordOf
<1>4. ASSUME NEW k \in w.kinds PROVE Store!FoundBy(k, w.td, w.val) \in FoundIn(index)
  <2>1. Stored(w, k)
    BY <1>1, <1>4 DEF VisibleInv, PutIndexed
  <2>2. PICK n \in 0 .. MaxCtr - 1 : StoredAt(w, k, n)
    BY <2>1 DEF Stored
  <2> QED BY <1>3, <1>4, <2>2, EntryFinds DEF StoredAt, NoLate
<1>5. UNCHANGED Store!calls
  BY <1>1, CallsStay DEF SameCalls, AskedBy, AnswerTo, ReadBy, Question, Satisfies, Members
<1>6. FoundIn(index)' = FoundIn(index)
  BY <1>1 DEF FoundIn
<1> HIDE DEF w, r
<1>7. Store!StoreRecord(r)
  BY <1>1, <1>3, <1>4, <1>5, <1>6 DEF Store!StoreRecord
<1> QED BY <1>3, <1>7

-----------------------------------------------------------------------------
\* A Get reads what the store holds for the record.
LEMMA GetRefines ==
    ASSUME TypeOK, LastPutStored, \A td \in Tds : GetNode(td) = PutNode(td),
           NEW p \in Clients, NEW td \in Tds, Get(p, td)
    PROVE  p \in Readers /\ Store!Get(p, td)
<1> DEFINE g == [td |-> td, ans |-> data[<<GetNode(td), td>>],
                 must |-> IF acked[td] = Nil THEN Nil ELSE acked[td].val]
<1>1. /\ p \in Readers /\ qry[p] = Nil /\ got[p] = Nil
      /\ got' = [got EXCEPT ![p] = g]
      /\ UNCHANGED <<index, issued, acked, qry>>
  BY DEF Get, Answer, Idle, storeVars, refusalVars, historyVars
<1>2. g.td = td /\ g.ans = Store!Stored(td)
  BY DEF LastPutStored, LastVal, DataKey, Store!Stored
<1>3. got' \in [Clients -> Gets \cup {Nil}] /\ got'[p] = g /\ g # Nil
  <2>1. data[<<GetNode(td), td>>] \in Values \cup {Nil}
    BY RouteTypes DEF TypeOK
  <2>2. g.must \in Values \cup {Nil}
    BY DEF TypeOK, Records
  <2>3. g \in Gets
    BY <2>1, <2>2 DEF Gets
  <2> HIDE DEF g
  <2> QED BY <1>1, <2>3, NilAssumption DEF NilAssumption, TypeOK
<1> HIDE DEF g
<1>4. ReadBy(g) = <<[td |-> td, ans |-> Store!Stored(td)]>>
  BY <1>2, <1>3 DEF ReadBy
<1>5. \A c \in Readers : got'[c] = IF c = p THEN g ELSE got[c]
  BY <1>1, ClientAssumption DEF ClientAssumption, TypeOK
<1>6. Store!Idle(p)
  BY <1>1 DEF Store!Idle, AskedBy, ReadBy
<1>7. [c \in Readers |-> ReadBy(got'[c])]
        = [[c \in Readers |-> ReadBy(got[c])] EXCEPT
              ![p] = <<[td |-> td, ans |-> Store!Stored(td)]>>]
  <2>1. \A c \in Readers : ReadBy(got'[c]) = IF c = p THEN ReadBy(g) ELSE ReadBy(got[c])
    BY <1>5
  <2>2. [c \in Readers |-> ReadBy(got'[c])]
          = [[c \in Readers |-> ReadBy(got[c])] EXCEPT ![p] = ReadBy(g)]
    BY <2>1
  <2> QED BY <1>4, <2>2
<1>8. FoundIn(index)' = FoundIn(index) /\ \A c \in Readers : qry'[c] = qry[c]
  BY <1>1 DEF FoundIn
<1> QED BY <1>1, <1>6, <1>7, <1>8 DEF Store!Get

LEMMA GetReturnRefines ==
    ASSUME TypeOK, NEW p \in Readers, GetReturn(p)
    PROVE  Store!GetReturn(p)
<1>1. /\ got[p] # Nil /\ got' = [got EXCEPT ![p] = Nil]
      /\ UNCHANGED <<index, issued, acked, qry>>
  BY DEF GetReturn, storeVars, refusalVars, historyVars
<1>2. \A c \in Readers : got'[c] = IF c = p THEN Nil ELSE got[c]
  BY <1>1, ClientAssumption DEF ClientAssumption, TypeOK
<1>3. ReadBy(got[p]) # <<>> /\ ReadBy(Nil) = <<>>
  BY <1>1 DEF ReadBy
<1>4. [c \in Readers |-> ReadBy(got'[c])]
        = [[c \in Readers |-> ReadBy(got[c])] EXCEPT ![p] = <<>>]
  BY <1>2, <1>3
<1>5. FoundIn(index)' = FoundIn(index) /\ \A c \in Readers : qry'[c] = qry[c]
  BY <1>1 DEF FoundIn
<1> QED BY <1>1, <1>3, <1>4, <1>5 DEF Store!GetReturn

-----------------------------------------------------------------------------
(***************************************************************************)
(* Queries.  Only Begin, the last NodeReply and QueryReturn can be seen.   *)
(***************************************************************************)

\* A step of p's query alone that gives the store's asked and answer of p the
\* values a and b.
Shows(p, a, b) ==
    /\ UNCHANGED <<index, issued, acked, got>>
    /\ \A c \in Readers \ {p} : qry'[c] = qry[c]
    /\ AskedBy(qry'[p]) = a
    /\ AnswerTo(qry'[p]) = b

LEMMA ShowsCalls ==
    ASSUME NEW p \in Readers, NEW a, NEW b, Shows(p, a, b)
    PROVE  /\ [c \in Readers |-> AskedBy(qry[c])]'
                = [[c \in Readers |-> AskedBy(qry[c])] EXCEPT ![p] = a]
           /\ [c \in Readers |-> AnswerTo(qry[c])]'
                = [[c \in Readers |-> AnswerTo(qry[c])] EXCEPT ![p] = b]
           /\ [c \in Readers |-> ReadBy(got[c])]' = [c \in Readers |-> ReadBy(got[c])]
           /\ FoundIn(index)' = FoundIn(index)
<1>1. /\ \A c \in Readers : AskedBy(qry'[c]) = IF c = p THEN a ELSE AskedBy(qry[c])
      /\ \A c \in Readers : AnswerTo(qry'[c]) = IF c = p THEN b ELSE AnswerTo(qry[c])
  BY DEF Shows
<1>2. [c \in Readers |-> AskedBy(qry'[c])]
        = [[c \in Readers |-> AskedBy(qry[c])] EXCEPT ![p] = a]
  BY <1>1
<1>3. [c \in Readers |-> AnswerTo(qry'[c])]
        = [[c \in Readers |-> AnswerTo(qry[c])] EXCEPT ![p] = b]
  BY <1>1
<1>4. FoundIn(index)' = FoundIn(index) /\ got' = got
  BY DEF Shows, FoundIn
<1> QED BY <1>2, <1>3, <1>4

\* A query that begins asks for what is due.
LEMMA BeginRefines ==
    ASSUME TypeOK, NEW p \in Clients, NEW kind \in Kinds, NEW col \in Cols, NEW x \in Nat,
           NEW cmp \in Cmps \cup {Nil}, Begin(p, NewQuery(kind, col, x, cmp))
    PROVE  p \in Readers /\ \E q \in Store!Questions : Store!Ask(p, q)
<1> DEFINE n == NewQuery(kind, col, x, cmp)  m == [n EXCEPT !.must = MustFind(n)]
           q == Question(m)
<1>1. /\ p \in Readers /\ qry[p] = Nil /\ got[p] = Nil
      /\ qry' = [qry EXCEPT ![p] = m]
      /\ UNCHANGED <<index, issued, acked, got>>
  BY DEF Begin, Idle, storeVars, refusalVars, historyVars
<1>2. /\ n.kind = kind /\ n.col = col /\ n.val = x /\ n.cmp = cmp
      /\ m.kind = kind /\ m.col = col /\ m.val = x /\ m.cmp = cmp /\ m.node = 0
      /\ m.must = MustFind(n)
  BY DEF NewQuery
<1>3. m \in Queries
  <2>1. MustFind(n) \in SUBSET Tds
    BY DEF MustFind
  <2> QED BY <2>1, NewQueryType
<1>4. m # Nil /\ m.node # NodeNum
  BY <1>2, <1>3, NilAssumption, RouterAssumption DEF NilAssumption, RouterAssumption
<1> HIDE DEF n, m
<1>5. \A v : Satisfies(m, v) <=> Satisfies(n, v)
  BY <1>2 DEF Satisfies
<1>6. /\ q.kind = kind /\ q.col = col /\ q.must = MustFind(n)
      /\ q.wanted = {v \in Values : Satisfies(n, v)}
  BY <1>2, <1>5 DEF Question
<1>7. q \in Store!Questions
  BY <1>2, <1>5 DEF Question, MustFind, Store!Questions
<1> HIDE DEF q
<1>8. ASSUME NEW td \in Tds, acked[td] # Nil
      PROVE  acked[td].val \in q.wanted <=> Satisfies(n, acked[td].val)
  BY <1>6, <1>8 DEF TypeOK, Records
<1>9. MustFind(n) \subseteq Store!Due(q)
  BY <1>2, <1>6, <1>8 DEF MustFind, Store!Due
<1>10. kind # "col" => Store!Due(q) \subseteq MustFind(n)
  BY <1>2, <1>6, <1>8 DEF MustFind, Covers, Store!Due
<1>11. Store!Idle(p)
  BY <1>1 DEF Store!Idle, AskedBy, ReadBy
<1>12. Shows(p, <<q>>, <<>>)
  <2>1. qry'[p] = m /\ \A c \in Readers \ {p} : qry'[c] = qry[c]
    BY <1>1, ClientAssumption DEF ClientAssumption, TypeOK
  <2>2. AskedBy(m) = <<q>> /\ AnswerTo(m) = <<>>
    BY <1>4 DEF q, AskedBy, AnswerTo
  <2> QED BY <1>1, <2>1, <2>2 DEF Shows
<1>13. [[c \in Readers |-> AnswerTo(qry[c])] EXCEPT ![p] = <<>>]
         = [c \in Readers |-> AnswerTo(qry[c])]
  BY <1>1 DEF AnswerTo
<1>14. Store!Ask(p, q)
  <2>1. IF q.kind = "col" THEN q.must \subseteq Store!Due(q) ELSE q.must = Store!Due(q)
    BY <1>6, <1>9, <1>10
  <2>2. UNCHANGED <<issued, acked>>
    BY <1>1
  <2>3. /\ [c \in Readers |-> AskedBy(qry[c])]'
             = [[c \in Readers |-> AskedBy(qry[c])] EXCEPT ![p] = <<q>>]
        /\ [c \in Readers |-> AnswerTo(qry[c])]' = [c \in Readers |-> AnswerTo(qry[c])]
        /\ [c \in Readers |-> ReadBy(got[c])]' = [c \in Readers |-> ReadBy(got[c])]
        /\ FoundIn(index)' = FoundIn(index)
    BY <1>1, <1>12, <1>13, ShowsCalls
  <2> QED BY <1>11, <2>1, <2>2, <2>3 DEF Store!Ask
<1> QED BY <1>1, <1>7, <1>14

\* What the steps of a walk leave alone.
LEMMA WalkKeeps ==
    ASSUME TypeOK, NEW p \in Clients,
           SearchLoop(p) \/ ColumnLoop(p) \/ FetchData(p) \/ NodeReply(p)
    PROVE  /\ qry[p] \in Queries /\ qry[p] # Nil /\ qry[p].node # NodeNum
           /\ qry'[p] \in Queries /\ qry'[p] # Nil
           /\ Question(qry'[p]) = Question(qry[p])
           /\ NodeReply(p) \/ qry'[p].node = qry[p].node
           /\ \A c \in Clients \ {p} : qry'[c] = qry[c]
           /\ UNCHANGED <<index, issued, acked, got>>
<1>1. /\ qry[p] \in Queries /\ qry[p] # Nil /\ qry[p].node < NodeNum
      /\ \E n : /\ Same(qry[p], n) /\ UpdateQuery(p, n)
                /\ NodeReply(p) \/ n.node = qry[p].node
  BY WalkSame DEF Asked
<1>2. PICK n : /\ Same(qry[p], n) /\ UpdateQuery(p, n)
               /\ NodeReply(p) \/ n.node = qry[p].node
  BY <1>1
<1>3. /\ qry'[p] = n /\ \A c \in Clients \ {p} : qry'[c] = qry[c]
      /\ UNCHANGED <<index, issued, acked, got>>
  BY <1>2 DEF UpdateQuery, storeVars, historyVars, TypeOK
<1>4. \A v : Satisfies(n, v) <=> Satisfies(qry[p], v)
  BY <1>2 DEF Same, Satisfies
<1>5. Question(n) = Question(qry[p])
  BY <1>2, <1>4 DEF Same, Question
<1>6. n \in Queries /\ n # Nil
  BY <1>2, NilAssumption DEF NilAssumption, Same
<1>7. qry[p].node # NodeNum
  BY <1>1, RouterAssumption DEF RouterAssumption, Queries
<1> QED BY <1>1, <1>2, <1>3, <1>5, <1>6, <1>7

\* A step of a walk cannot be seen, unless the last node has answered.
LEMMA WalkHidden ==
    ASSUME TypeOK, NEW p \in Clients,
           SearchLoop(p) \/ ColumnLoop(p) \/ FetchData(p) \/ NodeReply(p),
           p \notin Readers \/ qry'[p].node # NodeNum
    PROVE  UNCHANGED Store!vars
<1>1. /\ qry[p] # Nil /\ qry[p].node # NodeNum /\ qry'[p] # Nil
      /\ Question(qry'[p]) = Question(qry[p])
      /\ \A c \in Clients \ {p} : qry'[c] = qry[c]
      /\ UNCHANGED <<index, issued, acked, got>>
  BY WalkKeeps
<1>2. ASSUME NEW c \in Readers PROVE SameCalls(c)
  <2>1. CASE c # p
    BY <1>1, <2>1, ClientAssumption DEF ClientAssumption, SameCalls
  <2>2. CASE c = p
    BY <1>1, <1>2, <2>2 DEF SameCalls, AskedBy, AnswerTo
  <2> QED BY <2>1, <2>2
<1> QED BY <1>1, <1>2, StoreStays

LEMMA MembersFirst ==
    ASSUME NEW s \in Seq(Rows), NEW t \in Seq(Rows), NEW h \in Members(s)
    PROVE  h \in Members(s \o t)
<1>1. PICK i \in 1 .. Len(s) : h = s[i]
  BY DEF Members
<1>2. (s \o t)[i] = h /\ i \in 1 .. Len(s \o t)
  BY <1>1
<1>3. DOMAIN (s \o t) = 1 .. Len(s \o t)
  OBVIOUS
<1> QED BY <1>2, <1>3 DEF Members

\* What the last node's reply completes answers the question: it has found all
\* that it had to find, and nothing that is not indexed under what was asked.
LEMMA ReplyRefines ==
    ASSUME TypeOK, TypeOK', SearchComplete', SearchSound', HitsAreIndexed',
           RowsAreHits', NEW p \in Readers, NodeReply(p), qry'[p].node = NodeNum
    PROVE  \E q \in Store!Questions : Store!Answer(p, q)
<1> DEFINE m == qry'[p]  q == Question(m)  hits == Members(m.all)
<1>1. p \in Clients
  BY ClientAssumption DEF ClientAssumption
<1>2. /\ qry[p] # Nil /\ qry[p].node # NodeNum
      /\ m \in Queries /\ m # Nil /\ m.node = NodeNum
      /\ Question(m) = Question(qry[p])
      /\ \A c \in Clients \ {p} : qry'[c] = qry[c]
      /\ UNCHANGED <<index, issued, acked, got>>
  BY <1>1, WalkKeeps
<1>3. /\ m.kind \in Kinds /\ m.col \in Cols /\ m.must \in SUBSET Tds
      /\ m.all \in Seq(Rows) /\ m.ret \in Seq(Rows)
  BY <1>2 DEF Queries
<1>4. q \in Store!Questions
  BY <1>3 DEF Question, Store!Questions
<1>5. /\ q.kind = m.kind /\ q.col = m.col /\ q.must = m.must
      /\ q.wanted = {v \in Values : Satisfies(m, v)}
  BY DEF Question
<1>6. hits \in SUBSET Hits /\ ErrorRow \notin hits
  <2>1. Members(m.all \o m.ret) \subseteq Hits
    BY <1>1, <1>2 DEF RowsAreHits, Members
  <2> QED BY <1>3, <2>1, MembersFirst, ErrorRowType
<1>7. m.must \subseteq {h.td : h \in hits}
  BY <1>2 DEF SearchComplete, Answered, Found
<1>8. ASSUME NEW h \in hits PROVE Store!MayReturn(q, h)
  <2>1. h \in Members(m.all \o m.ret) \ {ErrorRow} /\ h \in Hits
    BY <1>3, <1>6, <1>8, MembersFirst
  <2>2. h.td[2] = m.col
    BY <1>2, <2>1 DEF SearchSound
  <2>3. /\ \E r \in issued : r.td = h.td /\ r.val = h.val
        /\ \E v \in Values, i \in 0 .. MaxCtr - 1 :
             /\ m.kind = "col" \/ Satisfies(m, v)
             /\ index[<<PutNode(h.td), Stream(m.kind, m.col, v), i>>]
                  = Entry(m.kind, h.td, v, i)
    <3>1. /\ \E r \in issued' : r.td = h.td /\ r.val = h.val
          /\ \E v \in Values, i \in 0 .. MaxCtr - 1 :
               /\ m.kind = "col" \/ Satisfies(m, v)
               /\ index'[<<PutNode(h.td), Stream(m.kind, m.col, v), i>>]
                    = Entry(m.kind, h.td, v, i)
      BY <1>2, <2>1 DEF HitsAreIndexed
    <3> QED BY <1>2, <3>1
  <2>4. PICK v \in Values, i \in 0 .. MaxCtr - 1 :
             /\ m.kind = "col" \/ Satisfies(m, v)
             /\ index[<<PutNode(h.td), Stream(m.kind, m.col, v), i>>]
                  = Entry(m.kind, h.td, v, i)
    BY <2>3
  <2>5. v \in q.wanted
    BY <1>5, <2>4 DEF Satisfies
  <2>6. h.td \in Tds
    BY <2>1 DEF Hits
  <2>7. Store!FoundBy(m.kind, h.td, v) \in FoundIn(index)
    BY <1>3, <2>2, <2>4, <2>6, EntryFinds
  <2> QED BY <1>5, <2>2, <2>3, <2>5, <2>7 DEF Store!MayReturn
<1>9. /\ AskedBy(qry[p]) = <<q>> /\ AnswerTo(qry[p]) = <<>>
      /\ AskedBy(m) = <<q>> /\ AnswerTo(m) = <<hits>>
  BY <1>2 DEF AskedBy, AnswerTo
<1> HIDE DEF m, q, hits
<1>10. Shows(p, <<q>>, <<hits>>)
  BY <1>2, <1>9, ClientAssumption DEF ClientAssumption, Shows, m
<1>11. [[c \in Readers |-> AskedBy(qry[c])] EXCEPT ![p] = <<q>>]
         = [c \in Readers |-> AskedBy(qry[c])]
  BY <1>9
<1>12. Store!Answer(p, q)
  <2>1. UNCHANGED <<issued, acked>>
    BY <1>2
  <2>2. /\ [c \in Readers |-> AskedBy(qry[c])]' = [c \in Readers |-> AskedBy(qry[c])]
        /\ [c \in Readers |-> AnswerTo(qry[c])]'
             = [[c \in Readers |-> AnswerTo(qry[c])] EXCEPT ![p] = <<hits>>]
        /\ [c \in Readers |-> ReadBy(got[c])]' = [c \in Readers |-> ReadBy(got[c])]
        /\ FoundIn(index)' = FoundIn(index)
    BY <1>10, <1>11, ShowsCalls, ZenonT(60)
  <2>3. q.must \subseteq {h.td : h \in hits} /\ \A h \in hits : Store!MayReturn(q, h)
    BY <1>5, <1>7, <1>8
  <2> QED BY <1>6, <1>9, <2>1, <2>2, <2>3 DEF Store!Answer
<1> QED BY <1>4, <1>12

LEMMA QueryReturnRefines ==
    ASSUME TypeOK, NEW p \in Readers, QueryReturn(p)
    PROVE  Store!QueryReturn(p)
<1>1. p \in Clients
  BY ClientAssumption DEF ClientAssumption
<1>2. /\ qry[p] # Nil /\ qry[p].node = NodeNum
      /\ qry'[p] = Nil /\ \A c \in Readers \ {p} : qry'[c] = qry[c]
      /\ UNCHANGED <<index, issued, acked, got>>
  BY <1>1, ClientAssumption
     DEF ClientAssumption, QueryReturn, UpdateQuery, storeVars, historyVars, TypeOK
<1>3. AnswerTo(qry[p]) # <<>> /\ AskedBy(Nil) = <<>> /\ AnswerTo(Nil) = <<>>
  BY <1>2 DEF AnswerTo, AskedBy
<1>4. Shows(p, <<>>, <<>>)
  BY <1>2, <1>3 DEF Shows
<1> QED BY <1>2, <1>3, <1>4, ShowsCalls DEF Store!QueryReturn

-----------------------------------------------------------------------------
\* Every step of clients, proxies and stores is a step of the store or none.
LEMMA StepRefines ==
    ASSUME NEW w \in Clients, Writers = {w}, MaxRestart = 0, MaxFail = 0,
           MaxRefuse = 0, \A td \in Tds : GetNode(td) = PutNode(td),
           SearchInv, LastPutStored, TypeOK',
           SearchComplete', SearchSound', HitsAreIndexed', RowsAreHits', [Next]_vars
    PROVE  [Store!Next]_(Store!vars)
<1> USE DEF storeVars, refusalVars, historyVars
<1>1. /\ TypeOK /\ CounterInv /\ VisibleInv /\ NoLate /\ OnlyWritersPut
      /\ fails = 0 /\ restarts = 0
  <2>1. TypeOK /\ CounterInv /\ VisibleInv /\ NoLate /\ OnlyWritersPut
    BY DEF SearchInv, VisibleInv, CounterInv
  <2>2. fails = 0 /\ restarts = 0
    BY <2>1 DEF TypeOK
  <2> QED BY <2>1, <2>2
<1>2. ASSUME UNCHANGED <<index, issued, acked, qry, got>> PROVE UNCHANGED Store!vars
  BY <1>2, StoreStays DEF SameCalls, AskedBy, AnswerTo, ReadBy, Question, Satisfies, Members
<1>3. ASSUME NEW p \in Clients, PutStep(p) PROVE [Store!Next]_(Store!vars)
  <2>1. ASSUME NEW td \in Tds, NEW v \in Values, NEW kinds \in FlagSets,
               PutBegin(p, td, v, kinds)
        PROVE  UNCHANGED Store!vars
    BY <1>2, <2>1 DEF PutBegin
  <2>2. ASSUME NEW kind \in Kinds, PutIndex(p, kind) PROVE Store!PutStep
    <3>1. p = w
      BY <1>1, <2>2 DEF PutIndex, OnlyWritersPut
    <3>2. \E td \in Tds, v \in Values : Store!IndexRecord(kind, td, v)
      BY <1>1, <2>2, <3>1, PutIndexRefines
    <3> QED BY <3>2 DEF Store!PutStep
  <2>3. ASSUME NEW kind \in Kinds, PutIndexThrows(p, kind) \/ PutDataThrows(p) PROVE FALSE
    BY <1>1, <2>3 DEF PutIndexThrows, PutDataThrows
  <2>4. ASSUME PutData(p) PROVE Store!PutStep
    BY <1>1, <2>4, PutDataRefines DEF Store!PutStep
  <2>5. ~PutDataRefused(p) /\ \A kind \in Kinds : ~PutIndexRefused(p, kind)
    BY <1>1, NothingRefused
  <2> QED BY <1>3, <2>1, <2>2, <2>3, <2>4, <2>5 DEF PutStep, Kinds, Store!Next
<1>4. ASSUME NEW p \in Clients, GetStep(p) PROVE [Store!Next]_(Store!vars)
  <2>1. ASSUME NEW td \in Tds, Get(p, td) PROVE Store!Next
    BY <1>1, <2>1, GetRefines DEF Store!GetStep, Store!Next
  <2>2. ASSUME GetReturn(p), p \in Readers PROVE Store!Next
    BY <1>1, <2>2, GetReturnRefines DEF Store!GetStep, Store!Next
  <2>3. ASSUME GetReturn(p), p \notin Readers PROVE UNCHANGED Store!vars
    <3>1. /\ UNCHANGED <<index, issued, acked, qry>>
          /\ \A c \in Readers : got'[c] = got[c]
      BY <1>1, <2>3, ClientAssumption DEF ClientAssumption, GetReturn, TypeOK
    <3> QED BY <3>1, StoreStays
            DEF SameCalls, AskedBy, AnswerTo, ReadBy, Question, Satisfies, Members
  <2>4. \A td \in Tds : ~GetRefused(p, td)
    BY <1>1, NothingRefused
  <2> QED BY <1>4, <2>1, <2>2, <2>3, <2>4 DEF GetStep
<1>5. ASSUME NEW p \in Clients, BeginStep(p) PROVE Store!Next
  <2>1. ASSUME NEW kind \in Kinds, NEW col \in Cols, NEW x \in Nat, NEW cmp \in Cmps \cup {Nil},
               Begin(p, NewQuery(kind, col, x, cmp))
        PROVE  Store!Next
    <3>1. p \in Readers /\ \E q \in Store!Questions : Store!Ask(p, q)
      BY <1>1, <2>1, BeginRefines
    <3> QED BY <3>1 DEF Store!QueryStep, Store!Next
  <2>2. ASSUME NEW col \in Cols, NEW v \in Values, NEW b \in BOOLEAN, Search(p, col, v, b)
        PROVE  Store!Next
    <3>1. v \in Nat /\ Nil \in Cmps \cup {Nil} /\ (IF b THEN "v2" ELSE "v1") \in Kinds
      BY DataAssumption DEF DataAssumption, Kinds
    <3> QED BY <2>1, <2>2, <3>1 DEF Search
  <2>3. ASSUME NEW col \in Cols, NEW v \in Values, NEW iCmp, RangeQuery(p, col, iCmp, v)
        PROVE  Store!Next
    <3>1. /\ v \in Nat /\ "ore" \in Kinds
          /\ (IF iCmp > 0 THEN "LARGE" ELSE "SMALL") \in Cmps \cup {Nil}
      BY DataAssumption DEF DataAssumption, Kinds, Cmps
    <3> QED BY <2>1, <2>3, <3>1 DEF RangeQuery
  <2>4. ASSUME NEW col \in Cols, NEW n \in Nums, GetCol(p, col, n)
        PROVE  Store!Next
    <3>1. n \div NodeNum \in Nat /\ "col" \in Kinds /\ Nil \in Cmps \cup {Nil}
      BY DataAssumption, RouterAssumption DEF DataAssumption, RouterAssumption, Kinds
    <3> QED BY <2>1, <2>4, <3>1 DEF GetCol
  <2> QED BY <1>5, <2>2, <2>3, <2>4 DEF BeginStep
<1>6. ASSUME NEW p \in Clients, ScanStep(p) PROVE [Store!Next]_(Store!vars)
  <2>1. ASSUME SearchLoop(p) \/ ColumnLoop(p) \/ FetchData(p) \/ NodeReply(p),
               p \notin Readers \/ qry'[p].node # NodeNum
        PROVE  UNCHANGED Store!vars
    BY <1>1, <2>1, WalkHidden
  <2>2. ASSUME SearchLoop(p) \/ ColumnLoop(p) \/ FetchData(p) \/ NodeReply(p),
               p \in Readers, qry'[p].node = NodeNum
        PROVE  Store!Next
    <3>1. NodeReply(p)
      BY <1>1, <2>2, WalkKeeps
    <3>2. \E q \in Store!Questions : Store!Answer(p, q)
      BY <1>1, <2>2, <3>1, ReplyRefines
    <3> QED BY <2>2, <3>2 DEF Store!QueryStep, Store!Next
  <2>3. ASSUME QueryReturn(p), p \in Readers PROVE Store!Next
    BY <1>1, <2>3, QueryReturnRefines DEF Store!QueryStep, Store!Next
  <2>4. ASSUME QueryReturn(p), p \notin Readers PROVE UNCHANGED Store!vars
    <3>1. /\ UNCHANGED <<index, issued, acked, got>>
          /\ \A c \in Readers : qry'[c] = qry[c]
      BY <1>1, <2>4, ClientAssumption DEF ClientAssumption, QueryReturn, UpdateQuery, TypeOK
    <3> QED BY <3>1, StoreStays
            DEF SameCalls, AskedBy, AnswerTo, ReadBy, Question, Satisfies, Members
  <2> QED BY <1>6, <2>1, <2>2, <2>3, <2>4 DEF ScanStep
<1>7. ASSUME NEW p \in Clients, Restart(p) \/ QueryThrows(p) \/ RefusedStep(p)
      PROVE  FALSE
  BY <1>1, <1>7, NothingRefused DEF Restart, QueryThrows
<1>8. ASSUME LateStep PROVE FALSE
  BY <1>1, <1>8 DEF LateStep, NoLate
<1>9. ASSUME UNCHANGED vars PROVE UNCHANGED Store!vars
  BY <1>2, <1>9 DEF vars
<1> QED BY <1>3, <1>4, <1>5, <1>6, <1>7, <1>8, <1>9, NextCases DEF ReaderStep

LEMMA InitRefines == Init => Store!Init
<1> SUFFICES ASSUME Init PROVE Store!Init
  OBVIOUS
<1>1. index = [l \in Labels |-> Nil] /\ issued = {} /\ acked = [td \in Tds |-> Nil]
  BY DEF Init
<1>2. \A c \in Readers : qry[c] = Nil /\ got[c] = Nil
  BY ClientAssumption DEF ClientAssumption, Init
<1>3. FoundIn(index) = {}
  BY <1>1 DEF FoundIn
<1>4. \A c \in Readers : /\ AskedBy(qry[c]) = <<>> /\ AnswerTo(qry[c]) = <<>>
                         /\ ReadBy(got[c]) = <<>>
  BY <1>2 DEF AskedBy, AnswerTo, ReadBy
<1> QED BY <1>1, <1>3, <1>4 DEF Store!Init

\* If no call throws and no command is refused, one writer that never restarts
\* and all readers together cannot tell the client library, its proxies and
\* their stores from a table of records, however their calls interleave: every
\* behaviour of EncKV is one of EncStore.  Without one of the assumptions it
\* fails; for three of them runs show it:
\* EncKVGet (routes), EncKVGap (a throw) and EncKVRestart.
THEOREM StoreImplemented ==
    ASSUME NEW w \in Clients, Writers = {w}, MaxRestart = 0, MaxFail = 0,
           MaxRefuse = 0, \A td \in Tds : GetNode(td) = PutNode(td)
    PROVE  Spec => ImplementsEncStore
<1>1. Spec => []TypeOK /\ []SearchComplete /\ []SearchSound /\ []HitsAreIndexed
  BY TypeCorrect, SearchesComplete, ReturnsSatisfying, ReturnsIndexed
<1>2. SearchInv /\ TypeOK' /\ [Next]_vars => SearchInv'
  BY SearchStep
<1>3. TypeOK /\ LastPutStored /\ [Next]_vars => LastPutStored'
  BY GetStepRight
<1>4. Init => LastPutStored
  BY LastPutInit
<1>5. HitInv /\ TypeOK' /\ [Next]_vars => HitInv'
  BY HitStep
<1>6. HitInv => RowsAreHits
  BY NoErrorRow
<1>7. /\ SearchInv /\ LastPutStored /\ TypeOK' /\ SearchComplete' /\ SearchSound'
      /\ HitsAreIndexed' /\ RowsAreHits' /\ [Next]_vars
      => [Store!Next]_(Store!vars)
  BY StepRefines
<1> QED BY <1>1, <1>2, <1>3, <1>4, <1>5, <1>6, <1>7, HitInit, SearchInit, InitRefines, PTL
        DEF Spec, ImplementsEncStore, Store!Spec
=============================================================================
