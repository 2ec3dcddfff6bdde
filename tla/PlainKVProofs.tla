---------------------------- MODULE PlainKVProofs ----------------------------
(***************************************************************************)
(* What the plaintext baseline promises, for any number of nodes, clients  *)
(* and keys, any width of an int, any routing and any bounds.              *)
(*                                                                         *)
(* Four layers: the types; who else writes at a place; what is stored at   *)
(* places that nobody else writes at; and what a query has still to find   *)
(* and has counted, turn by turn.                                          *)
(***************************************************************************)
EXTENDS PlainKV, SimConHashProofs, FiniteSetTheorems, SequenceTheorems

-----------------------------------------------------------------------------
(***************************************************************************)
(* Types.                                                                  *)
(***************************************************************************)
LEMMA PlaceType ==
    ASSUME NEW key \in Keys, NEW col \in Cols
    PROVE  <<Node(key, col), key>> \in Places
<1>1. XorWord[<<key, col>>] \in Word
  BY PlainAssumption DEF PlainAssumption
<1>2. Query(XorWord[<<key, col>>]) \in Nodes
  BY <1>1, QueryUnique
<1> QED BY <1>2 DEF Node, Places

\* An unsigned number read as an int is an int.
LEMMA SignedType ==
    ASSUME NEW v \in Values
    PROVE  Signed(v) \in Ints
<1>1. IntMax \in Nat /\ v \in 0 .. 2 * IntMax + 1
  BY PlainAssumption DEF PlainAssumption
<1> QED BY <1>1 DEF Signed, Ints

Remains(cmd, s) == \E i \in DOMAIN s : s[i] = cmd

LEMMA JoinRemains ==
    ASSUME NEW s \in Seq(Command), NEW t \in Seq(Command), NEW cmd,
           Remains(cmd, s) \/ Remains(cmd, t)
    PROVE  Remains(cmd, s \o t)
<1>1. Len(s) \in Nat /\ Len(t) \in Nat /\ DOMAIN s = 1 .. Len(s) /\ DOMAIN t = 1 .. Len(t)
  OBVIOUS
<1>2. /\ DOMAIN (s \o t) = 1 .. Len(s) + Len(t)
      /\ \A i \in 1 .. Len(s) + Len(t) :
           (s \o t)[i] = IF i <= Len(s) THEN s[i] ELSE t[i - Len(s)]
  BY ConcatProperties
<1> DEFINE u == s \o t
<1> HIDE DEF u
<1>3. CASE Remains(cmd, s)
  <2>1. PICK i \in 1 .. Len(s) : s[i] = cmd
    BY <1>1, <1>3 DEF Remains
  <2>2. i \in 1 .. Len(s) + Len(t) /\ i <= Len(s)
    BY <1>1, <2>1
  <2> QED BY <1>2, <2>1, <2>2 DEF Remains, u
<1>4. CASE Remains(cmd, t)
  <2>1. PICK i \in 1 .. Len(t) : t[i] = cmd
    BY <1>1, <1>4 DEF Remains
  <2>2. /\ i + Len(s) \in 1 .. Len(s) + Len(t) /\ ~(i + Len(s) <= Len(s))
        /\ (i + Len(s)) - Len(s) = i
    BY <1>1, <2>1
  <2> QED BY <1>2, <2>1, <2>2 DEF Remains, u
<1> QED BY <1>3, <1>4

LEMMA CommandsType ==
    ASSUME NEW flags \in SUBSET Flags
    PROVE  /\ Commands(flags) \in Seq(Command)
           /\ flags # {} => Remains("SET", Commands(flags))
           /\ "v2" \in flags => Remains("ZADD", Commands(flags))
           /\ flags = {"v2"} => Commands(flags) = <<"ZADD", "SET">>
<1> DEFINE a == IF "v1" \in flags THEN <<"SET">> ELSE <<>>
           b == IF "v2" \in flags THEN <<"ZADD", "SET">> ELSE <<>>
           c == IF "ore" \in flags THEN <<"SET">> ELSE <<>>
<1>1. "SET" \in Command /\ "ZADD" \in Command
  BY DEF Command
<1>2. /\ <<>> \in Seq(Command) /\ <<"SET">> \in Seq(Command) /\ <<"ZADD", "SET">> \in Seq(Command)
      /\ Remains("SET", <<"SET">>)
      /\ Remains("SET", <<"ZADD", "SET">>) /\ Remains("ZADD", <<"ZADD", "SET">>)
  <2>1. <<>> \in Seq(Command) /\ <<"SET">> \in Seq(Command)
    BY <1>1
  <2>2. <<"ZADD", "SET">> \in Seq(Command)
    BY <1>1
  <2>3. 1 \in DOMAIN <<"SET">> /\ <<"SET">>[1] = "SET"
    OBVIOUS
  <2>4. /\ 1 \in DOMAIN <<"ZADD", "SET">> /\ <<"ZADD", "SET">>[1] = "ZADD"
        /\ 2 \in DOMAIN <<"ZADD", "SET">> /\ <<"ZADD", "SET">>[2] = "SET"
    OBVIOUS
  <2> QED BY <2>1, <2>2, <2>3, <2>4 DEF Remains
<1>3. /\ a \in Seq(Command) /\ b \in Seq(Command) /\ c \in Seq(Command)
      /\ "v1" \in flags => Remains("SET", a)
      /\ "v2" \in flags => Remains("SET", b) /\ Remains("ZADD", b)
      /\ "ore" \in flags => Remains("SET", c)
  BY <1>2, Zenon
<1>4. flags = {"v2"} => a = <<>> /\ b = <<"ZADD", "SET">> /\ c = <<>>
  OBVIOUS
<1>5. Commands(flags) = (a \o b) \o c
  BY DEF Commands
<1> HIDE DEF a, b, c
<1>6. a \o b \in Seq(Command) /\ (a \o b) \o c \in Seq(Command)
  BY <1>3
<1>7. /\ "v1" \in flags => Remains("SET", (a \o b) \o c)
      /\ "v2" \in flags => Remains("SET", (a \o b) \o c) /\ Remains("ZADD", (a \o b) \o c)
      /\ "ore" \in flags => Remains("SET", (a \o b) \o c)
  BY <1>3, <1>6, JoinRemains
<1>8. flags # {} => "v1" \in flags \/ "v2" \in flags \/ "ore" \in flags
  BY DEF Flags
<1>9. flags = {"v2"} => (a \o b) \o c = <<"ZADD", "SET">>
  <2>1. <<>> \o b = b /\ b \o <<>> = b
    BY <1>3, ConcatEmptySeq
  <2> QED BY <1>4, <2>1
<1> QED BY <1>5, <1>6, <1>7, <1>8, <1>9

\* The record of a query after a write at x, and what stays of it.
SameProgress(q, r) ==
    /\ r.kind = q.kind /\ r.val = q.val /\ r.cmp = q.cmp
    /\ r.left = q.left /\ r.node = q.node /\ r.scanned = q.scanned /\ r.due = q.due
    /\ r.todo = q.todo /\ r.ret = q.ret /\ r.all = q.all /\ r.cut = q.cut
DisturbedQuery(q, x) == [q EXCEPT !.must = @ \ {x}, !.quiet = FALSE]

LEMMA DisturbedType ==
    ASSUME NEW q \in Queries, NEW x
    PROVE  /\ DisturbedQuery(q, x) \in Queries /\ DisturbedQuery(q, x) # Nil
           /\ DisturbedQuery(q, x).quiet = FALSE
           /\ DisturbedQuery(q, x).must = q.must \ {x}
           /\ SameProgress(q, DisturbedQuery(q, x))
<1>1. DisturbedQuery(q, x) \in Queries
  BY DEF DisturbedQuery, Queries
<1>2. SameProgress(q, DisturbedQuery(q, x))
  BY DEF DisturbedQuery, Queries, SameProgress
<1> QED BY <1>1, <1>2, NilAssumption DEF NilAssumption, DisturbedQuery, Queries

LEMMA DisturbTypes ==
    ASSUME TypeOK, NEW x \in Places, Disturb(x)
    PROVE  /\ last' \in [Places -> Lasts \cup {Nil}]
           /\ qry' \in [Clients -> Queries \cup {Nil}]
           /\ last'[x] = Nil
           /\ \A y \in Places : last'[y] # Nil => y # x /\ last'[y] = last[y]
           /\ \A p \in Clients : qry'[p] # Nil =>
                qry[p] \in Queries /\ qry[p] # Nil /\ qry'[p] = DisturbedQuery(qry[p], x)
<1>1. /\ last' \in [Places -> Lasts \cup {Nil}] /\ last'[x] = Nil
      /\ \A y \in Places : last'[y] # Nil => y # x /\ last'[y] = last[y]
  BY DEF Disturb, TypeOK
<1>2. \A p \in Clients : qry'[p] = IF qry[p] = Nil THEN Nil ELSE DisturbedQuery(qry[p], x)
  BY DEF Disturb, DisturbedQuery
<1>3. \A p \in Clients : qry[p] \in Queries \cup {Nil}
  BY DEF TypeOK
<1>4. ASSUME NEW p \in Clients PROVE qry'[p] \in Queries \cup {Nil}
  <2>1. CASE qry[p] = Nil
    BY <1>2, <2>1
  <2>2. CASE qry[p] # Nil
    <3>1. qry[p] \in Queries
      BY <1>3, <2>2
    <3> QED BY <1>2, <2>2, <3>1, DisturbedType
  <2> QED BY <2>1, <2>2
<1>5. qry' \in [Clients -> Queries \cup {Nil}]
  <2>1. qry' = [p \in Clients |-> qry'[p]]
    BY DEF Disturb
  <2> QED BY <1>4, <2>1
<1> QED BY <1>1, <1>2, <1>3, <1>5

\* The other Puts after a write at x.
LEMMA DisturbedTypes ==
    ASSUME TypeOK, NEW x
    PROVE  /\ Disturbed(x) \in [Clients -> Puts \cup {Nil}]
           /\ \A p \in Clients :
                /\ put[p] = Nil <=> Disturbed(x)[p] = Nil
                /\ put[p] # Nil =>
                     /\ Disturbed(x)[p].at = put[p].at /\ Disturbed(x)[p].val = put[p].val
                     /\ Disturbed(x)[p].flags = put[p].flags /\ Disturbed(x)[p].todo = put[p].todo
                     /\ Disturbed(x)[p].alone => put[p].alone /\ put[p].at # x
<1>1. ASSUME NEW p \in Clients, put[p] # Nil
      PROVE  /\ Disturbed(x)[p] \in Puts
             /\ Disturbed(x)[p].at = put[p].at /\ Disturbed(x)[p].val = put[p].val
             /\ Disturbed(x)[p].flags = put[p].flags /\ Disturbed(x)[p].todo = put[p].todo
             /\ Disturbed(x)[p].alone => put[p].alone /\ put[p].at # x
  <2>1. put[p] \in Puts
    BY <1>1 DEF TypeOK
  <2>2. Disturbed(x)[p] = IF put[p].at # x THEN put[p] ELSE [put[p] EXCEPT !.alone = FALSE]
    BY <1>1 DEF Disturbed
  <2>3. /\ [put[p] EXCEPT !.alone = FALSE] \in Puts
        /\ [put[p] EXCEPT !.alone = FALSE].at = put[p].at
        /\ [put[p] EXCEPT !.alone = FALSE].val = put[p].val
        /\ [put[p] EXCEPT !.alone = FALSE].flags = put[p].flags
        /\ [put[p] EXCEPT !.alone = FALSE].todo = put[p].todo
        /\ [put[p] EXCEPT !.alone = FALSE].alone = FALSE
    BY <2>1 DEF Puts
  <2> QED BY <2>1, <2>2, <2>3
<1>2. ASSUME NEW p \in Clients, put[p] = Nil PROVE Disturbed(x)[p] = Nil
  BY <1>2 DEF Disturbed
<1>3. Disturbed(x) = [p \in Clients |-> Disturbed(x)[p]]
  BY DEF Disturbed
<1>4. \A p \in Clients : Disturbed(x)[p] \in Puts \cup {Nil}
  BY <1>1, <1>2
<1>5. Disturbed(x) \in [Clients -> Puts \cup {Nil}]
  BY <1>3, <1>4
<1>6. Nil \notin Puts
  BY NilAssumption DEF NilAssumption
<1> QED BY <1>1, <1>2, <1>5, <1>6

\* A Put begins: at a place, with an int and the commands its flags ask for.
LEMMA PutBegins ==
    ASSUME TypeOK, NEW p \in Clients, NEW key \in Keys, NEW col \in Cols, NEW v \in Values,
           NEW flags \in FlagSets, PutPlainText(p, key, col, v, flags)
    PROVE  \E x \in Places, w \in Puts :
             /\ put[p] = Nil /\ put' = [Disturbed(x) EXCEPT ![p] = w]
             /\ w.at = x /\ w.flags = flags /\ flags \in SUBSET Flags
             /\ w.todo = Commands(flags) /\ (w.alone => Alone(x))
             /\ puts' = puts + 1 /\ puts < MaxPut
             /\ Disturb(x)
             /\ bare' = IF flags = {"v2"} THEN bare ELSE bare \cup {x}
             /\ UNCHANGED <<store, fails>>
<1> DEFINE x == <<Node(key, col), key>>
           w == [at |-> x, val |-> Signed(v), flags |-> flags,
                 todo |-> Commands(flags), alone |-> Alone(x)]
<1>1. x \in Places /\ Signed(v) \in Ints
  BY PlaceType, SignedType
<1>2. flags \in SUBSET Flags
  BY PlainAssumption DEF PlainAssumption
<1>3. Commands(flags) \in Seq(Command)
  BY <1>2, CommandsType
<1>4. Alone(x) \in BOOLEAN
  BY DEF Alone
<1>5. /\ put[p] = Nil /\ put' = [Disturbed(x) EXCEPT ![p] = w]
      /\ puts' = puts + 1 /\ puts < MaxPut
      /\ Disturb(x)
      /\ bare' = IF flags = {"v2"} THEN bare ELSE bare \cup {x}
      /\ UNCHANGED <<store, fails>>
  BY DEF PutPlainText
<1> HIDE DEF x
<1>6. w \in Puts
  BY <1>1, <1>2, <1>3, <1>4 DEF Puts
<1> QED BY <1>1, <1>2, <1>5, <1>6

LEMMA PutType ==
    ASSUME TypeOK, NEW p \in Clients, PutAny(p)
    PROVE  TypeOK'
<1>1. PICK key \in Keys, col \in Cols, v \in Values, flags \in FlagSets :
        PutPlainText(p, key, col, v, flags)
  BY DEF PutAny
<1>2. PICK x \in Places, w \in Puts :
             /\ put[p] = Nil /\ put' = [Disturbed(x) EXCEPT ![p] = w]
             /\ w.at = x /\ w.flags = flags /\ flags \in SUBSET Flags
             /\ w.todo = Commands(flags) /\ (w.alone => Alone(x))
             /\ puts' = puts + 1 /\ puts < MaxPut
             /\ Disturb(x)
             /\ bare' = IF flags = {"v2"} THEN bare ELSE bare \cup {x}
             /\ UNCHANGED <<store, fails>>
  BY <1>1, PutBegins
<1>3. put' \in [Clients -> Puts \cup {Nil}]
  BY <1>2, DisturbedTypes
<1>4. last' \in [Places -> Lasts \cup {Nil}] /\ qry' \in [Clients -> Queries \cup {Nil}]
  BY <1>2, DisturbTypes
<1>5. puts' \in 0 .. MaxPut
  BY <1>2, PlainAssumption DEF TypeOK, PlainAssumption
<1>6. bare' \subseteq Places
  BY <1>2 DEF TypeOK
<1> QED BY <1>2, <1>3, <1>4, <1>5, <1>6 DEF TypeOK, store

\* A command keeps the types of the store it changes at one place only.
LEMMA ExecuteTypes ==
    ASSUME TypeOK, NEW cmd \in Command, NEW x \in Places, NEW v \in Ints, Execute(cmd, x, v)
    PROVE  /\ data' \in [Places -> Ints \cup {Nil}] /\ index' \in [Places -> Ints \cup {Nil}]
           /\ cmd = "SET" => data' = [data EXCEPT ![x] = v] /\ index' = index
           /\ cmd = "ZADD" => index' = [index EXCEPT ![x] = v] /\ data' = data
           /\ \A y \in Places : y # x => data'[y] = data[y] /\ index'[y] = index[y]
           /\ \A y \in Places : index[y] # Nil => index'[y] # Nil
<1>1. cmd = "SET" \/ cmd = "ZADD"
  BY DEF Command
<1>2. Nil \notin Ints
  BY NilAssumption DEF NilAssumption
<1> QED BY <1>1, <1>2 DEF Execute, TypeOK

\* What is left to send of a Put that sends a command.
LEMMA SendTypes ==
    ASSUME NEW w \in Puts, w.todo # <<>>
    PROVE  /\ Head(w.todo) \in Command /\ Tail(w.todo) \in Seq(Command)
           /\ w.at \in Places /\ w.val \in Ints
           /\ [w EXCEPT !.todo = Tail(w.todo)] \in Puts
           /\ [cmd |-> Head(w.todo), at |-> w.at, val |-> w.val] \in LateCommands
<1>1. w.todo \in Seq(Command) /\ w.at \in Places /\ w.val \in Ints
  BY DEF Puts
<1>2. Head(w.todo) \in Command /\ Tail(w.todo) \in Seq(Command)
  BY <1>1, HeadTailProperties
<1>3. [w EXCEPT !.todo = Tail(w.todo)] \in Puts
  BY <1>2 DEF Puts
<1> QED BY <1>1, <1>2, <1>3 DEF LateCommands

LEMMA SendType ==
    ASSUME TypeOK, NEW p \in Clients, Send(p)
    PROVE  TypeOK'
<1> DEFINE w == put[p]
<1>1. w \in Puts /\ w.todo # <<>>
  BY DEF Send, TypeOK
<1>2. [w EXCEPT !.todo = Tail(w.todo)] \in Puts
  BY <1>1, SendTypes
<1>3. data' \in [Places -> Ints \cup {Nil}] /\ index' \in [Places -> Ints \cup {Nil}]
  BY <1>1, SendTypes, ExecuteTypes DEF Send
<1>4. put' = [put EXCEPT ![p] = [w EXCEPT !.todo = Tail(w.todo)]]
  BY DEF Send
<1> QED BY <1>2, <1>3, <1>4 DEF Send, TypeOK

\* A refused command changes what is left to do, and leaves its Put no longer
\* alone; nothing is executed.
Refused(w) == [w EXCEPT !.todo = Tail(w.todo), !.alone = FALSE]

LEMMA RefusedSend ==
    ASSUME TypeOK, NEW p \in Clients, SendRefused(p)
    PROVE  LET w == put[p]  n == put'[p] IN
           /\ w # Nil /\ w \in Puts /\ w.todo # <<>>
           /\ n \in Puts /\ n # Nil
           /\ n.at = w.at /\ n.todo = Tail(w.todo) /\ n.alone = FALSE
           /\ \A c \in Clients \ {p} : put'[c] = put[c]
           /\ put' \in [Clients -> Puts \cup {Nil}]
           /\ data' = data /\ index' = index /\ late' = late /\ last' = last /\ qry' = qry
           /\ bare' = IF Head(w.todo) = "ZADD" THEN bare \cup {w.at} ELSE bare
           /\ puts' = puts /\ fails' = fails + 1 /\ fails < MaxFail
<1> DEFINE w == put[p]
<1>1. w # Nil /\ w \in Puts /\ w.todo # <<>>
  BY DEF SendRefused, TypeOK
<1>2. Tail(w.todo) \in Seq(Command)
  BY <1>1, SendTypes
<1>3. /\ Refused(w) \in Puts /\ Refused(w).at = w.at
      /\ Refused(w).todo = Tail(w.todo) /\ Refused(w).alone = FALSE
  BY <1>1, <1>2 DEF Refused, Puts
<1>4. put' = [put EXCEPT ![p] = Refused(w)]
  BY DEF SendRefused, Refused
<1>5. put'[p] = Refused(w) /\ \A c \in Clients \ {p} : put'[c] = put[c]
  BY <1>4 DEF TypeOK
<1>6. put' \in [Clients -> Puts \cup {Nil}]
  BY <1>3, <1>4 DEF TypeOK
<1>7. Refused(w) # Nil
  BY <1>3, NilAssumption DEF NilAssumption
<1>8. /\ data' = data /\ index' = index /\ late' = late /\ last' = last /\ qry' = qry
      /\ bare' = IF Head(w.todo) = "ZADD" THEN bare \cup {w.at} ELSE bare
      /\ puts' = puts /\ fails' = fails + 1 /\ fails < MaxFail
  BY DEF SendRefused, store
<1> QED BY <1>1, <1>3, <1>5, <1>6, <1>7, <1>8

LEMMA RefusedType ==
    ASSUME TypeOK, NEW p \in Clients, SendRefused(p)
    PROVE  TypeOK'
<1> DEFINE w == put[p]
<1>1. /\ w \in Puts /\ put' \in [Clients -> Puts \cup {Nil}]
      /\ data' = data /\ index' = index /\ late' = late /\ last' = last /\ qry' = qry
      /\ bare' = IF Head(w.todo) = "ZADD" THEN bare \cup {w.at} ELSE bare
      /\ puts' = puts /\ fails' = fails + 1 /\ fails < MaxFail
  BY RefusedSend
<1>2. bare' \subseteq Places
  <2>1. w.at \in Places
    BY <1>1 DEF Puts
  <2> QED BY <1>1, <2>1 DEF TypeOK
<1>3. fails' \in 0 .. MaxFail
  BY <1>1, PlainAssumption DEF TypeOK, PlainAssumption
<1> QED BY <1>1, <1>2, <1>3 DEF TypeOK

LEMMA ThrowType ==
    ASSUME TypeOK, NEW p \in Clients, SendThrows(p)
    PROVE  TypeOK'
<1> DEFINE w == put[p]
<1>1. w \in Puts /\ w.todo # <<>>
  BY DEF SendThrows, TypeOK
<1>2. late' \subseteq LateCommands
  BY <1>1, SendTypes DEF SendThrows, TypeOK
<1>3. fails' \in 0 .. MaxFail
  BY PlainAssumption DEF SendThrows, TypeOK, PlainAssumption
<1> QED BY <1>2, <1>3 DEF SendThrows, TypeOK

LEMMA LateType ==
    ASSUME TypeOK, LateCommand
    PROVE  TypeOK'
<1>1. PICK c \in late : /\ late' = late \ {c} /\ Execute(c.cmd, c.at, c.val)
                        /\ put' = Disturbed(c.at) /\ Disturb(c.at)
                        /\ UNCHANGED <<puts, fails, bare>>
  BY DEF LateCommand
<1>2. c.cmd \in Command /\ c.at \in Places /\ c.val \in Ints
  BY DEF TypeOK, LateCommands
<1>3. data' \in [Places -> Ints \cup {Nil}] /\ index' \in [Places -> Ints \cup {Nil}]
  BY <1>1, <1>2, ExecuteTypes
<1>4. last' \in [Places -> Lasts \cup {Nil}] /\ qry' \in [Clients -> Queries \cup {Nil}]
  BY <1>1, <1>2, DisturbTypes
<1>5. put' \in [Clients -> Puts \cup {Nil}]
  BY <1>1, DisturbedTypes
<1> QED BY <1>1, <1>3, <1>4, <1>5 DEF TypeOK

LEMMA ReturnType ==
    ASSUME TypeOK, NEW p \in Clients, PutReturn(p)
    PROVE  TypeOK'
<1> DEFINE w == put[p]
<1>1. w \in Puts
  BY DEF PutReturn, TypeOK
<1>2. w.at \in Places /\ [val |-> w.val, flags |-> w.flags] \in Lasts
  BY <1>1 DEF Puts, Lasts
<1>3. last' \in [Places -> Lasts \cup {Nil}]
  BY <1>2 DEF PutReturn, TypeOK
<1> QED BY <1>3 DEF PutReturn, TypeOK, store

\* Nothing is being written.
Still == late = {} /\ \A w \in Clients : put[w] = Nil

LEMMA BeginTypes ==
    ASSUME TypeOK, NEW p \in Clients, NEW kind \in Kinds, NEW val \in Ints,
           NEW cmp \in {-1, 1, Nil}, Begin(p, kind, val, cmp)
    PROVE  \E q \in Queries :
             /\ qry' = [qry EXCEPT ![p] = q] /\ UNCHANGED <<store, put, puts, fails, last, bare>>
             /\ q.kind = kind /\ q.val = val /\ q.cmp = cmp
             /\ q.left = Nodes /\ q.node = Nil /\ q.todo = {} /\ q.ret.num = 0 /\ q.all.num = 0
             /\ q.must = MustFind(q) /\ (q.quiet => Still)
<1> DEFINE n == [kind |-> kind, val |-> val, cmp |-> cmp, left |-> Nodes, node |-> Nil,
                 scanned |-> FALSE, turn |-> 0, due |-> {}, todo |-> {}, held |-> Nil,
                 ret |-> NoHits, all |-> NoHits, must |-> {}, cut |-> FALSE,
                 quiet |-> late = {} /\ \A w \in Clients : put[w] = Nil]
           q == [n EXCEPT !.must = MustFind(n)]
<1>1. NoHits \in Hits /\ NoHits.num = 0
  BY DEF NoHits, Hits
<1>2. 0 \in 0 .. MaxTurn
  BY PlainAssumption DEF PlainAssumption
<1>3. n \in Queries
  BY <1>1, <1>2 DEF Queries
<1>4. MustFind(n) \subseteq Places
  BY DEF MustFind
<1>5. q \in Queries
  BY <1>3, <1>4, ZenonT(60) DEF Queries
<1>6. MustFind(n) = MustFind(q)
  BY DEF MustFind, Wanted
<1>7. q.quiet => Still
  BY DEF Still
<1>8. qry' = [qry EXCEPT ![p] = q] /\ UNCHANGED <<store, put, puts, fails, last, bare>>
  BY DEF Begin
<1>9. /\ q.kind = kind /\ q.val = val /\ q.cmp = cmp /\ q.left = Nodes /\ q.node = Nil
      /\ q.todo = {} /\ q.ret.num = 0 /\ q.all.num = 0 /\ q.must = MustFind(q)
  BY <1>1, <1>6
<1> HIDE DEF q
<1> QED BY <1>5, <1>7, <1>8, <1>9

\* Every query that begins is one of these.
LEMMA QueryBegins ==
    ASSUME TypeOK, NEW p \in Clients, QueryAny(p)
    PROVE  \E kind \in Kinds, val \in Ints, cmp \in {-1, 1, Nil} : Begin(p, kind, val, cmp)
<1>1. CASE \E v \in Values, b \in BOOLEAN : SearchPlainText(p, v, b)
  <2>1. PICK v \in Values, b \in BOOLEAN : SearchPlainText(p, v, b)
    BY <1>1
  <2>2. Signed(v) \in Ints
    BY SignedType
  <2> QED BY <2>1, <2>2 DEF SearchPlainText, Kinds
<1>2. CASE \E v \in Bounds, iCmp \in {-1, 1} : RangeQueryPlainText(p, iCmp, v)
  <2>1. PICK v \in Bounds, iCmp \in {-1, 1} : RangeQueryPlainText(p, iCmp, v)
    BY <1>2
  <2>2. v \in Ints
    <3>1. v \in 0 .. 2 * IntMax + 1 /\ IntMax \in Nat /\ v <= IntMax
      BY <2>1, PlainAssumption DEF PlainAssumption, RangeQueryPlainText
    <3> QED BY <3>1 DEF Ints
  <2> QED BY <2>1, <2>2 DEF RangeQueryPlainText, Kinds
<1> QED BY <1>1, <1>2 DEF QueryAny

\* Whatever a step makes of a query, the question stays the same.
SameQuestion(q, n) ==
    /\ n.kind = q.kind /\ n.val = q.val /\ n.cmp = q.cmp
    /\ n.must = q.must /\ n.quiet = q.quiet

Asked(q, n, due) ==
    [q EXCEPT !.left = @ \ {n}, !.node = n, !.scanned = FALSE, !.turn = 0, !.due = due]
Scanned(q, batch, zero) ==
    [q EXCEPT !.due = @ \ batch, !.todo = batch, !.scanned = zero, !.turn = @ + 1]
Cut(q) == [q EXCEPT !.scanned = TRUE, !.cut = TRUE]
Listed(q, todo) == [q EXCEPT !.scanned = TRUE, !.todo = todo]
Got(q, k, held, ret) == [q EXCEPT !.todo = @ \ {k}, !.held = held, !.ret = ret]
Missed(q, k, ret) == [q EXCEPT !.todo = @ \ {k}, !.cut = TRUE, !.ret = ret]
Collected(q, all) == [q EXCEPT !.node = Nil, !.held = Nil, !.ret = NoHits, !.all = all]

\* What a range query holds of the keys it reads, and what an answer adds.
HeldAfter(q, k) ==
    IF q.kind = "ore" /\ Considers(q.kind, k) THEN data[<<q.node, k>>] ELSE q.held
More(q, k) == [at |-> q.ret.at \cup {<<q.node, k>>}, num |-> q.ret.num + 1]
Again(q) == [q.ret EXCEPT !.num = @ + 1]

LEMMA AskedType ==
    ASSUME NEW q \in Queries, NEW n \in Nodes, NEW due \in SUBSET Keys
    PROVE  LET r == Asked(q, n, due) IN
           /\ r \in Queries /\ SameQuestion(q, r) /\ r.cut = q.cut
           /\ r.left = q.left \ {n} /\ r.node = n /\ r.scanned = FALSE /\ r.due = due
           /\ r.todo = q.todo /\ r.ret = q.ret /\ r.all = q.all
<1>1. 0 \in 0 .. MaxTurn
  BY PlainAssumption DEF PlainAssumption
<1>2. Asked(q, n, due) \in Queries
  BY <1>1 DEF Asked, Queries
<1> QED BY <1>2 DEF Asked, SameQuestion, Queries

LEMMA ScannedType ==
    ASSUME NEW q \in Queries, NEW batch \in SUBSET Keys, NEW zero \in BOOLEAN, q.turn < MaxTurn
    PROVE  LET r == Scanned(q, batch, zero) IN
           /\ r \in Queries /\ SameQuestion(q, r) /\ r.cut = q.cut
           /\ r.left = q.left /\ r.node = q.node /\ r.scanned = zero /\ r.due = q.due \ batch
           /\ r.todo = batch /\ r.ret = q.ret /\ r.all = q.all
<1>1. q.turn + 1 \in 0 .. MaxTurn
  BY PlainAssumption DEF PlainAssumption, Queries
<1>2. Scanned(q, batch, zero) \in Queries
  BY <1>1 DEF Scanned, Queries
<1> QED BY <1>2 DEF Scanned, SameQuestion, Queries

LEMMA CutType ==
    ASSUME NEW q \in Queries
    PROVE  LET r == Cut(q) IN
           /\ r \in Queries /\ SameQuestion(q, r) /\ r.cut = TRUE
           /\ r.left = q.left /\ r.node = q.node /\ r.scanned = TRUE /\ r.due = q.due
           /\ r.todo = q.todo /\ r.ret = q.ret /\ r.all = q.all
<1>1. Cut(q) \in Queries
  BY DEF Cut, Queries
<1> QED BY <1>1 DEF Cut, SameQuestion, Queries

LEMMA ListedType ==
    ASSUME NEW q \in Queries, NEW todo \in SUBSET Keys
    PROVE  LET r == Listed(q, todo) IN
           /\ r \in Queries /\ SameQuestion(q, r) /\ r.cut = q.cut
           /\ r.left = q.left /\ r.node = q.node /\ r.scanned = TRUE /\ r.due = q.due
           /\ r.todo = todo /\ r.ret = q.ret /\ r.all = q.all
<1>1. Listed(q, todo) \in Queries
  BY DEF Listed, Queries
<1> QED BY <1>1 DEF Listed, SameQuestion, Queries

LEMMA GotType ==
    ASSUME NEW q \in Queries, NEW k \in Keys, NEW held \in Ints \cup {Nil}, NEW ret \in Hits
    PROVE  LET r == Got(q, k, held, ret) IN
           /\ r \in Queries /\ SameQuestion(q, r) /\ r.cut = q.cut
           /\ r.left = q.left /\ r.node = q.node /\ r.scanned = q.scanned /\ r.due = q.due
           /\ r.todo = q.todo \ {k} /\ r.ret = ret /\ r.all = q.all
<1>1. Got(q, k, held, ret) \in Queries
  BY DEF Got, Queries
<1> QED BY <1>1 DEF Got, SameQuestion, Queries

LEMMA MissedType ==
    ASSUME NEW q \in Queries, NEW k \in Keys, NEW ret \in Hits
    PROVE  LET r == Missed(q, k, ret) IN
           /\ r \in Queries /\ SameQuestion(q, r) /\ r.cut = TRUE
           /\ r.left = q.left /\ r.node = q.node /\ r.scanned = q.scanned /\ r.due = q.due
           /\ r.todo = q.todo \ {k} /\ r.ret = ret /\ r.all = q.all
<1>1. Missed(q, k, ret) \in Queries
  BY DEF Missed, Queries
<1> QED BY <1>1 DEF Missed, SameQuestion, Queries

LEMMA CollectedType ==
    ASSUME NEW q \in Queries, NEW all \in Hits
    PROVE  LET r == Collected(q, all) IN
           /\ r \in Queries /\ SameQuestion(q, r) /\ r.cut = q.cut
           /\ r.left = q.left /\ r.node = Nil /\ r.scanned = q.scanned /\ r.due = q.due
           /\ r.todo = q.todo /\ r.ret = NoHits /\ r.all = all
<1>1. NoHits \in Hits
  BY DEF NoHits, Hits
<1>2. Collected(q, all) \in Queries
  BY <1>1 DEF Collected, Queries
<1> QED BY <1>2 DEF Collected, SameQuestion, Queries

\* What each step of a query makes of it.
AskTurn(q, r) ==
    \E n \in q.left : q.node = Nil /\ r = Asked(q, n, {k \in Keys : data[<<n, k>>] # Nil})
ScanTurn(q, r) ==
    \E batch \in SUBSET Keys, zero \in BOOLEAN :
        /\ Listing(q) /\ q.kind = "v1" /\ (zero => q.due \subseteq batch)
        /\ r = Scanned(q, batch, zero)
CutTurn(q, r) == Listing(q) /\ r = Cut(q)
ListTurn(q, r) ==
    /\ Listing(q) /\ q.kind # "v1"
    /\ r = Listed(q, IF q.kind = "ore" THEN Present(q)
                     ELSE {k \in Keys : index[<<q.node, k>>] = q.val})
GetTurn(q, r) ==
    \E k \in q.todo :
        q.node # Nil /\ r = Got(q, k, HeldAfter(q, k),
                               IF Considers(q.kind, k) /\ Hit(q, <<q.node, k>>)
                               THEN More(q, k) ELSE q.ret)
MissTurn(q, r) ==
    \E k \in q.todo, again \in BOOLEAN :
        q.node # Nil /\ r = Missed(q, k, IF again THEN Again(q) ELSE q.ret)
AnswerTurn(q, r) ==
    /\ q.node # Nil /\ q.scanned /\ q.todo = {}
    /\ r = Collected(q, [at |-> q.all.at \cup q.ret.at, num |-> q.all.num + q.ret.num])

Turn(p, r) ==
    LET q == qry[p] IN
    \/ AskTurn(q, r) \/ ScanTurn(q, r) \/ CutTurn(q, r)
    \/ ListTurn(q, r) \/ GetTurn(q, r) \/ MissTurn(q, r) \/ AnswerTurn(q, r)

LEMMA TurnTypes ==
    ASSUME TypeOK, NEW p \in Clients, qry[p] # Nil, NEW r, Turn(p, r), qry[p].turn < MaxTurn \/ ~ScanTurn(qry[p], r)
    PROVE  /\ qry[p] \in Queries /\ r \in Queries /\ SameQuestion(qry[p], r)
           /\ qry[p].cut => r.cut
<1> DEFINE q == qry[p]
<1>1. q \in Queries
  BY DEF TypeOK
<1>2. /\ q.left \subseteq Nodes /\ q.todo \subseteq Keys /\ q.ret \in Hits /\ q.all \in Hits
      /\ q.node \in Nodes \cup {Nil} /\ q.must \subseteq Places
  BY <1>1 DEF Queries
<1> HIDE DEF q
<1>3. CASE AskTurn(q, r)
  <2>1. PICK n \in q.left : q.node = Nil /\ r = Asked(q, n, {k \in Keys : data[<<n, k>>] # Nil})
    BY <1>3 DEF AskTurn
  <2>2. {k \in Keys : data[<<n, k>>] # Nil} \in SUBSET Keys
    OBVIOUS
  <2> QED BY <1>1, <1>2, <2>1, <2>2, AskedType DEF q
<1>4. CASE ScanTurn(q, r)
  <2>1. q.turn < MaxTurn
    BY <1>4 DEF q
  <2> QED BY <1>1, <1>4, <2>1, ScannedType DEF ScanTurn, q
<1>5. CASE CutTurn(q, r)
  BY <1>1, <1>5, CutType DEF CutTurn, q
<1>6. CASE ListTurn(q, r)
  <2> DEFINE todo == IF q.kind = "ore" THEN Present(q)
                     ELSE {k \in Keys : index[<<q.node, k>>] = q.val}
  <2>1. todo \in SUBSET Keys
    BY DEF Present
  <2>2. r = Listed(q, todo)
    BY <1>6 DEF ListTurn
  <2> HIDE DEF todo
  <2> QED BY <1>1, <2>1, <2>2, ListedType DEF q
<1>7. CASE GetTurn(q, r)
  <2>1. PICK k \in q.todo :
          /\ q.node # Nil
          /\ r = Got(q, k, HeldAfter(q, k), IF Considers(q.kind, k) /\ Hit(q, <<q.node, k>>)
                                           THEN More(q, k) ELSE q.ret)
    BY <1>7 DEF GetTurn
  <2>2. k \in Keys /\ <<q.node, k>> \in Places
    BY <1>2, <2>1 DEF Places
  <2>3. More(q, k) \in Hits
    BY <1>2, <2>2 DEF Hits, More
  <2>4. HeldAfter(q, k) \in Ints \cup {Nil}
    BY <1>1, <2>2 DEF HeldAfter, TypeOK, Queries, q
  <2>5. CASE Considers(q.kind, k) /\ Hit(q, <<q.node, k>>)
    <3>1. r = Got(q, k, HeldAfter(q, k), More(q, k))
      BY <2>1, <2>5
    <3> QED BY <1>1, <2>2, <2>3, <2>4, <3>1, GotType DEF q
  <2>6. CASE ~(Considers(q.kind, k) /\ Hit(q, <<q.node, k>>))
    <3>1. r = Got(q, k, HeldAfter(q, k), q.ret)
      BY <2>1, <2>6
    <3> QED BY <1>1, <1>2, <2>2, <2>4, <3>1, GotType DEF q
  <2> QED BY <2>5, <2>6
<1>71. CASE MissTurn(q, r)
  <2>1. PICK k \in q.todo, again \in BOOLEAN :
          r = Missed(q, k, IF again THEN Again(q) ELSE q.ret)
    BY <1>71 DEF MissTurn
  <2>2. k \in Keys
    BY <1>2, <2>1
  <2>3. Again(q) \in Hits
    BY <1>2 DEF Hits, Again
  <2> DEFINE ret == IF again THEN Again(q) ELSE q.ret
  <2>4. ret \in Hits
    BY <1>2, <2>3
  <2>5. r = Missed(q, k, ret)
    BY <2>1
  <2> HIDE DEF ret
  <2> QED BY <1>1, <2>2, <2>4, <2>5, MissedType DEF q
<1>8. CASE AnswerTurn(q, r)
  <2> DEFINE all == [at |-> q.all.at \cup q.ret.at, num |-> q.all.num + q.ret.num]
  <2>1. all \in Hits
    BY <1>2 DEF Hits
  <2>2. r = Collected(q, all)
    BY <1>8 DEF AnswerTurn
  <2> HIDE DEF all
  <2> QED BY <1>1, <2>1, <2>2, CollectedType DEF q
<1> QED BY <1>3, <1>4, <1>5, <1>6, <1>7, <1>71, <1>8 DEF Turn, q

\* A query that no proxy serves has no key to read.
Serving == \A p \in Clients : qry[p] # Nil /\ qry[p].node = Nil => qry[p].todo = {}
Typed == TypeOK /\ Serving

\* A query step is a turn, or the end of the query.
LEMMA QueryTurns ==
    ASSUME Typed, NEW p \in Clients, QueryStep(p) \/ QueryThrows(p)
    PROVE  /\ qry[p] \in Queries /\ qry[p] # Nil
           /\ UNCHANGED <<store, put, puts, last, bare>>
           /\ fails' \in 0 .. MaxFail
           /\ \/ qry' = [qry EXCEPT ![p] = Nil]
              \/ \E r \in Queries : /\ Turn(p, r) /\ SameQuestion(qry[p], r)
                                    /\ qry[p].cut => r.cut
                                    /\ qry' = [qry EXCEPT ![p] = r]
<1> DEFINE q == qry[p]
           Made(r) == Turn(p, r) /\ Step(p, r) /\ (q.turn < MaxTurn \/ ~ScanTurn(q, r))
<1>1. q # Nil /\ fails' \in 0 .. MaxFail
      /\ ((\E r : Made(r)) \/ Step(p, Nil))
  <2>1. ASSUME NEW n \in Nodes, Ask(p, n)
        PROVE  q # Nil /\ fails' = fails /\ \E r : Made(r)
    <3> DEFINE r == Asked(q, n, {k \in Keys : data[<<n, k>>] # Nil})
    <3>1. q # Nil /\ q.node = Nil /\ n \in q.left /\ fails' = fails
      BY <2>1 DEF Ask
    <3>2. Step(p, r)
      BY <2>1 DEF Ask, Asked
    <3>3. AskTurn(q, r) /\ ~ScanTurn(q, r)
      BY <3>1 DEF AskTurn, ScanTurn, Listing
    <3> QED BY <3>1, <3>2, <3>3 DEF Turn
  <2>2. ASSUME Scan(p) PROVE q # Nil /\ fails' = fails /\ \E r : Made(r)
    <3>1. Listing(q) /\ q.kind = "v1" /\ q.turn < MaxTurn /\ fails' = fails /\ q # Nil
      BY <2>2 DEF Scan, Listing
    <3>2. PICK batch \in SUBSET Present(q), zero \in BOOLEAN :
            /\ zero => q.due \subseteq batch
            /\ Step(p, Scanned(q, batch, zero))
      BY <2>2 DEF Scan, AllScanned, Scanned
    <3>3. batch \in SUBSET Keys
      BY DEF Present
    <3>4. ScanTurn(q, Scanned(q, batch, zero))
      BY <3>1, <3>2, <3>3 DEF ScanTurn
    <3> QED BY <3>1, <3>2, <3>4 DEF Turn
  <2>3. ASSUME ListRefused(p) PROVE q # Nil /\ fails' = fails + 1 /\ fails < MaxFail /\ \E r : Made(r)
    <3>1. Step(p, Cut(q)) /\ CutTurn(q, Cut(q)) /\ fails' = fails + 1 /\ fails < MaxFail /\ q # Nil
      BY <2>3 DEF ListRefused, Cut, CutTurn, Listing
    <3>2. q.turn < MaxTurn \/ ~ScanTurn(q, Cut(q))
      <4>1. q \in Queries
        BY <3>1 DEF Typed, TypeOK
      <4>2. ASSUME ScanTurn(q, Cut(q)) PROVE q.turn < MaxTurn
        <5>1. PICK batch \in SUBSET Keys, zero \in BOOLEAN : Cut(q) = Scanned(q, batch, zero)
          BY <4>2 DEF ScanTurn
        <5>2. Cut(q).turn = q.turn /\ Scanned(q, batch, zero).turn = q.turn + 1 /\ q.turn \in Nat
          BY <4>1 DEF Cut, Scanned, Queries
        <5> QED BY <5>1, <5>2
      <4> QED BY <4>2
    <3> QED BY <3>1, <3>2 DEF Turn
  <2>4. ASSUME ListAll(p) PROVE q # Nil /\ fails' = fails /\ \E r : Made(r)
    <3> DEFINE r == Listed(q, IF q.kind = "ore" THEN Present(q)
                              ELSE {k \in Keys : index[<<q.node, k>>] = q.val})
    <3>1. Step(p, r) /\ ListTurn(q, r) /\ fails' = fails /\ q # Nil /\ ~ScanTurn(q, r)
      BY <2>4 DEF ListAll, Listed, ListTurn, Listing, ScanTurn
    <3> QED BY <3>1 DEF Turn
  <2>5. ASSUME NEW k \in Keys, GetKey(p, k) PROVE q # Nil /\ fails' = fails /\ \E r : Made(r)
    <3> DEFINE r == Got(q, k, HeldAfter(q, k), IF Considers(q.kind, k) /\ Hit(q, <<q.node, k>>)
                                               THEN More(q, k) ELSE q.ret)
    <3>1. q # Nil /\ k \in q.todo /\ fails' = fails /\ Step(p, r)
      BY <2>5 DEF GetKey, Got, HeldAfter, More
    <3>2. q.node # Nil
      BY <3>1 DEF Typed, Serving
    <3>3. GetTurn(q, r) /\ ~ScanTurn(q, r)
      BY <3>1, <3>2 DEF GetTurn, ScanTurn, Listing
    <3> QED BY <3>1, <3>3 DEF Turn
  <2>51. ASSUME NEW k \in Keys, GetKeyRefused(p, k)
         PROVE q # Nil /\ fails' = fails + 1 /\ fails < MaxFail /\ \E r : Made(r)
    <3>1. PICK again \in StillHeld(q, k) : Step(p, Missed(q, k, IF again THEN Again(q) ELSE q.ret))
      BY <2>51 DEF GetKeyRefused, Missed, Again
    <3> DEFINE r == Missed(q, k, IF again THEN Again(q) ELSE q.ret)
    <3>2. q # Nil /\ k \in q.todo /\ fails' = fails + 1 /\ fails < MaxFail
      BY <2>51 DEF GetKeyRefused
    <3>3. q.node # Nil
      BY <3>2 DEF Typed, Serving
    <3>4. again \in BOOLEAN
      <4>1. Matches(q, q.held) \in BOOLEAN
        <5>1. CASE q.kind = "ore" /\ q.cmp = 1
          BY <5>1 DEF Matches
        <5>2. CASE q.kind = "ore" /\ q.cmp # 1
          BY <5>2 DEF Matches
        <5>3. CASE q.kind # "ore"
          BY <5>3 DEF Matches
        <5> QED BY <5>1, <5>2, <5>3
      <4>2. \/ StillHeld(q, k) = BOOLEAN
            \/ StillHeld(q, k) = {Matches(q, q.held)}
            \/ StillHeld(q, k) = {FALSE}
        BY DEF StillHeld
      <4> HIDE DEF q
      <4>3. CASE StillHeld(q, k) = BOOLEAN
        BY <3>1, <4>3
      <4>4. CASE StillHeld(q, k) = {Matches(q, q.held)}
        <5>1. again = Matches(q, q.held)
          BY <3>1, <4>4
        <5> QED BY <4>1, <5>1
      <4>5. CASE StillHeld(q, k) = {FALSE}
        <5>1. again = FALSE
          BY <3>1, <4>5
        <5> QED BY <5>1
      <4> QED BY <4>2, <4>3, <4>4, <4>5
    <3>5. MissTurn(q, r) /\ ~ScanTurn(q, r)
      BY <3>2, <3>3, <3>4 DEF MissTurn, ScanTurn, Listing
    <3> QED BY <3>1, <3>2, <3>5 DEF Turn
  <2>6. ASSUME Answer(p) PROVE q # Nil /\ fails' = fails /\ \E r : Made(r)
    <3> DEFINE r == Collected(q, [at |-> q.all.at \cup q.ret.at, num |-> q.all.num + q.ret.num])
    <3>1. Step(p, r) /\ AnswerTurn(q, r) /\ fails' = fails /\ q # Nil /\ ~ScanTurn(q, r)
      BY <2>6 DEF Answer, Collected, AnswerTurn, ScanTurn, Listing
    <3> QED BY <3>1 DEF Turn
  <2>7. ASSUME QueryReturn(p) PROVE q # Nil /\ fails' = fails /\ Step(p, Nil)
    BY <2>7 DEF QueryReturn, Finished
  <2>8. ASSUME QueryThrows(p) PROVE q # Nil /\ fails' = fails + 1 /\ fails < MaxFail /\ Step(p, Nil)
    BY <2>8 DEF QueryThrows
  <2>9. fails \in 0 .. MaxFail /\ MaxFail \in Nat
    BY PlainAssumption DEF Typed, TypeOK, PlainAssumption
  <2>10. fails < MaxFail => fails + 1 \in 0 .. MaxFail
    BY <2>9
  <2> QED BY <2>1, <2>2, <2>3, <2>4, <2>5, <2>51, <2>6, <2>7, <2>8, <2>9, <2>10
          DEF QueryStep, ProxyStep
<1>2. TypeOK /\ q \in Queries
  BY <1>1 DEF Typed, TypeOK
<1>3. CASE Step(p, Nil)
  BY <1>1, <1>2, <1>3 DEF Step
<1>4. CASE \E r : Made(r)
  <2>1. PICK r : Made(r)
    BY <1>4
  <2>2. r \in Queries /\ SameQuestion(q, r) /\ (q.cut => r.cut)
    BY <1>1, <1>2, <2>1, TurnTypes
  <2> QED BY <1>1, <1>2, <2>1, <2>2 DEF Step
<1> QED BY <1>1, <1>3, <1>4

\* One query changes, nothing else does.
LEMMA QueryType ==
    ASSUME TypeOK, NEW p \in Clients, NEW r \in Queries \cup {Nil},
           qry' = [qry EXCEPT ![p] = r], UNCHANGED <<store, put, puts, last, bare>>,
           fails' \in 0 .. MaxFail
    PROVE  TypeOK'
BY DEF TypeOK, store

LEMMA NextType ==
    ASSUME Typed, [Next]_vars
    PROVE  TypeOK'
<1> TypeOK
  BY DEF Typed
<1>1. ASSUME NEW p \in Clients, QueryAny(p) PROVE TypeOK'
  <2>1. PICK kind \in Kinds, val \in Ints, cmp \in {-1, 1, Nil} : Begin(p, kind, val, cmp)
    BY <1>1, QueryBegins
  <2>2. PICK q \in Queries : /\ qry' = [qry EXCEPT ![p] = q]
                             /\ UNCHANGED <<store, put, puts, fails, last, bare>>
    BY <2>1, BeginTypes
  <2>3. fails' \in 0 .. MaxFail
    BY <2>2 DEF TypeOK
  <2> QED BY <2>2, <2>3, QueryType
<1>2. ASSUME NEW p \in Clients, QueryStep(p) \/ QueryThrows(p) PROVE TypeOK'
  <2>1. /\ UNCHANGED <<store, put, puts, last, bare>> /\ fails' \in 0 .. MaxFail
        /\ \E r \in Queries \cup {Nil} : qry' = [qry EXCEPT ![p] = r]
    BY <1>2, QueryTurns
  <2> QED BY <2>1, QueryType
<1>3. ASSUME UNCHANGED vars PROVE TypeOK'
  BY <1>3 DEF vars, store, TypeOK
<1> QED BY <1>1, <1>2, <1>3, PutType, SendType, ThrowType, RefusedType, ReturnType, LateType
       DEF Next

LEMMA TurnServes ==
    ASSUME NEW p \in Clients, Typed, NEW q \in Queries, q = qry[p], q # Nil, NEW r \in Queries, Turn(p, r)
    PROVE  r.node = Nil => r.todo = {}
<1>1. CASE AskTurn(q, r)
  <2>1. PICK n \in q.left : \E due : r = Asked(q, n, due)
    BY <1>1 DEF AskTurn
  <2>2. n # Nil
    BY NilAssumption DEF Queries, NilAssumption
  <2>3. r.node = n
    BY <2>1 DEF Asked, Queries
  <2> QED BY <2>2, <2>3
<1>2. CASE ScanTurn(q, r)
  <2>1. PICK batch \in SUBSET Keys, zero \in BOOLEAN : q.node # Nil /\ r = Scanned(q, batch, zero)
    BY <1>2 DEF ScanTurn, Listing
  <2>2. r.node = q.node
    BY <2>1 DEF Scanned, Queries
  <2> QED BY <2>1, <2>2
<1>3. CASE CutTurn(q, r)
  BY <1>3, CutType DEF CutTurn, Listing
<1>4. CASE ListTurn(q, r)
  <2> DEFINE todo == IF q.kind = "ore" THEN Present(q)
                     ELSE {k \in Keys : index[<<q.node, k>>] = q.val}
  <2>1. r = Listed(q, todo) /\ q.node # Nil
    BY <1>4 DEF ListTurn, Listing
  <2> HIDE DEF todo
  <2>2. r.node = q.node
    BY <2>1 DEF Listed, Queries
  <2> QED BY <2>1, <2>2
<1>5. CASE GetTurn(q, r)
  <2>1. PICK k, held, ret : r = Got(q, k, held, ret) /\ q.node # Nil
    BY <1>5 DEF GetTurn
  <2>2. r.node = q.node
    BY <2>1 DEF Got, Queries
  <2> QED BY <2>1, <2>2
<1>51. CASE MissTurn(q, r)
  <2>1. PICK k, ret : r = Missed(q, k, ret) /\ q.node # Nil
    BY <1>51 DEF MissTurn
  <2>2. r.node = q.node
    BY <2>1 DEF Missed, Queries
  <2> QED BY <2>1, <2>2
<1>6. CASE AnswerTurn(q, r)
  <2>1. PICK all : r = Collected(q, all) /\ q.todo = {}
    BY <1>6 DEF AnswerTurn
  <2>2. r.todo = q.todo
    BY <2>1 DEF Collected, Queries
  <2> QED BY <2>1, <2>2
<1> QED BY <1>1, <1>2, <1>3, <1>4, <1>5, <1>51, <1>6 DEF Turn

LEMMA NextServes ==
    ASSUME Typed, [Next]_vars
    PROVE  Serving'
<1> DEFINE Idle(q) == q # Nil /\ q.node = Nil => q.todo = {}
<1>1. TypeOK /\ qry \in [Clients -> Queries \cup {Nil}] /\ \A p \in Clients : Idle(qry[p])
  BY DEF Typed, TypeOK, Serving
<1>2. SUFFICES \A p \in Clients : Idle(qry'[p])
  BY DEF Serving
<1>3. ASSUME NEW p \in Clients, QueryAny(p) PROVE \A w \in Clients : Idle(qry'[w])
  <2>1. PICK kind \in Kinds, val \in Ints, cmp \in {-1, 1, Nil} : Begin(p, kind, val, cmp)
    BY <1>1, <1>3, QueryBegins
  <2>2. PICK q \in Queries : qry' = [qry EXCEPT ![p] = q] /\ q.todo = {}
    BY <1>1, <2>1, BeginTypes
  <2> QED BY <1>1, <2>2
<1>4. ASSUME NEW p \in Clients, QueryStep(p) \/ QueryThrows(p)
      PROVE \A w \in Clients : Idle(qry'[w])
  <2>1. /\ qry[p] \in Queries /\ qry[p] # Nil
        /\ \/ qry' = [qry EXCEPT ![p] = Nil]
           \/ \E r \in Queries : Turn(p, r) /\ qry' = [qry EXCEPT ![p] = r]
    BY <1>4, QueryTurns
  <2>2. ASSUME NEW r \in Queries, Turn(p, r) PROVE Idle(r)
    BY <2>1, <2>2, TurnServes
  <2> QED BY <1>1, <2>1, <2>2
<1>5. ASSUME NEW x \in Places, Disturb(x) PROVE \A w \in Clients : Idle(qry'[w])
  <2>1. \A w \in Clients : qry'[w] # Nil =>
                qry[w] \in Queries /\ qry[w] # Nil /\ qry'[w] = DisturbedQuery(qry[w], x)
    BY <1>1, <1>5, DisturbTypes
  <2>2. TAKE w \in Clients
  <2>3. CASE qry'[w] # Nil
    <3>1. SameProgress(qry[w], qry'[w])
      BY <2>1, <2>3, DisturbedType, ZenonT(60)
    <3> QED BY <1>1, <2>1, <2>3, <3>1 DEF SameProgress
  <2> QED BY <2>3
<1>6. ASSUME NEW p \in Clients, PutAny(p) PROVE \A w \in Clients : Idle(qry'[w])
  <2>1. PICK key \in Keys, col \in Cols, v \in Values, flags \in FlagSets :
          PutPlainText(p, key, col, v, flags)
    BY <1>6 DEF PutAny
  <2>2. \E x \in Places : Disturb(x)
    BY <1>1, <2>1, PutBegins
  <2> QED BY <1>5, <2>2
<1>7. ASSUME LateCommand PROVE \A w \in Clients : Idle(qry'[w])
  <2>1. PICK c \in late : Disturb(c.at)
    BY <1>7 DEF LateCommand
  <2>2. c.at \in Places
    BY <1>1 DEF TypeOK, LateCommands
  <2> QED BY <1>5, <2>1, <2>2
<1>8. ASSUME NEW p \in Clients, Send(p) \/ SendThrows(p) \/ SendRefused(p) \/ PutReturn(p)
      PROVE qry' = qry
  BY <1>8 DEF Send, SendThrows, SendRefused, PutReturn
<1>9. ASSUME UNCHANGED vars PROVE qry' = qry
  BY <1>9 DEF vars
<1> QED BY <1>1, <1>3, <1>4, <1>6, <1>7, <1>8, <1>9 DEF Next

LEMMA InitType == Init => TypeOK
<1> SUFFICES ASSUME Init PROVE TypeOK
  OBVIOUS
<1>1. /\ data \in [Places -> Ints \cup {Nil}] /\ index \in [Places -> Ints \cup {Nil}]
      /\ late \subseteq LateCommands /\ last \in [Places -> Lasts \cup {Nil}] /\ bare \subseteq Places
  BY DEF Init
<1>2. put \in [Clients -> Puts \cup {Nil}] /\ qry \in [Clients -> Queries \cup {Nil}]
  BY DEF Init
<1>3. puts \in 0 .. MaxPut /\ fails \in 0 .. MaxFail
  BY PlainAssumption DEF Init, PlainAssumption
<1> QED BY <1>1, <1>2, <1>3 DEF TypeOK

LEMMA TypedAlways == Spec => []Typed
<1>1. Init => Typed
  BY InitType DEF Init, Serving, Typed
<1>2. Typed /\ [Next]_vars => Typed'
  BY NextType, NextServes DEF Typed
<1> QED BY <1>1, <1>2, PTL DEF Spec

\* Stores, commands, Puts and queries keep their types; what is stored are
\* ints, whatever unsigned numbers were Put (ClientCpp.cpp:303).
THEOREM TypeCorrect == Spec => []TypeOK
BY TypedAlways, PTL DEF Typed

-----------------------------------------------------------------------------
(***************************************************************************)
(* Who writes at a place.                                                  *)
(***************************************************************************)
\* A Put that is alone has no other Put beside it and no late command before it.
OnlyPut(p) ==
    /\ \A c \in late : c.at # put[p].at
    /\ \A w \in Clients \ {p} : put[w] # Nil => put[w].at # put[p].at

AloneInv ==
    /\ \A x \in Places : last[x] # Nil => Alone(x)
    /\ \A p \in Clients : put[p] # Nil /\ put[p].alone => OnlyPut(p)
    /\ \A p \in Clients : qry[p] # Nil =>
         /\ \A x \in qry[p].must : Alone(x)
         /\ qry[p].quiet => Still

LEMMA AlonePut ==
    ASSUME Typed, AloneInv, NEW p \in Clients, PutAny(p)
    PROVE  AloneInv'
<1> TypeOK
  BY DEF Typed
<1>1. PICK key \in Keys, col \in Cols, v \in Values, flags \in FlagSets :
        PutPlainText(p, key, col, v, flags)
  BY DEF PutAny
<1>2. PICK x \in Places, w \in Puts :
        /\ put[p] = Nil /\ put' = [Disturbed(x) EXCEPT ![p] = w]
        /\ w.at = x /\ (w.alone => Alone(x)) /\ Disturb(x) /\ UNCHANGED store
  BY <1>1, PutBegins DEF store
<1>3. /\ late' = late /\ put'[p] = w /\ w # Nil
      /\ \A c \in Clients \ {p} :
           /\ put'[c] = Disturbed(x)[c]
           /\ put'[c] # Nil => /\ put[c] # Nil /\ put'[c].at = put[c].at
                               /\ put'[c].alone => put[c].alone /\ put[c].at # x
  <2>1. late' = late /\ put'[p] = w /\ \A c \in Clients \ {p} : put'[c] = Disturbed(x)[c]
    BY <1>2, DisturbedTypes DEF store
  <2>2. w # Nil
    BY NilAssumption DEF NilAssumption
  <2>3. \A c \in Clients :
          /\ put[c] = Nil <=> Disturbed(x)[c] = Nil
          /\ put[c] # Nil => /\ Disturbed(x)[c].at = put[c].at
                             /\ Disturbed(x)[c].alone => put[c].alone /\ put[c].at # x
    BY DisturbedTypes
  <2> QED BY <2>1, <2>2, <2>3
<1>4. ASSUME NEW y \in Places, y # x, Alone(y) PROVE Alone(y)'
  BY <1>2, <1>3, <1>4 DEF Alone
<1>5. \A y \in Places : last'[y] # Nil => Alone(y)'
  <2>1. \A y \in Places : last'[y] # Nil => y # x /\ last'[y] = last[y]
    BY <1>2, DisturbTypes
  <2> QED BY <1>4, <2>1 DEF AloneInv
<1>6. ASSUME NEW c \in Clients, put'[c] # Nil, put'[c].alone PROVE OnlyPut(c)'
  <2>1. CASE c = p
    <3>1. Alone(x) /\ put'[c].at = x
      BY <1>2, <1>3, <1>6, <2>1
    <3> QED BY <1>3, <2>1, <3>1 DEF Alone, OnlyPut
  <2>2. CASE c # p
    <3>1. put[c] # Nil /\ put'[c].at = put[c].at /\ put[c].alone /\ put[c].at # x
      BY <1>3, <1>6, <2>2
    <3>2. OnlyPut(c)
      BY <3>1 DEF AloneInv
    <3> QED BY <1>2, <1>3, <2>2, <3>1, <3>2 DEF OnlyPut
  <2> QED BY <2>1, <2>2
<1>7. ASSUME NEW c \in Clients, qry'[c] # Nil
      PROVE  (\A y \in qry'[c].must : Alone(y)') /\ (qry'[c].quiet => Still')
  <2>1. qry[c] \in Queries /\ qry[c] # Nil /\ qry'[c] = DisturbedQuery(qry[c], x)
    BY <1>2, <1>7, DisturbTypes
  <2>2. qry'[c].quiet = FALSE /\ qry'[c].must = qry[c].must \ {x}
    BY <2>1, DisturbedType
  <2>3. qry[c].must \subseteq Places
    BY <2>1 DEF Queries
  <2> QED BY <1>4, <2>1, <2>2, <2>3 DEF AloneInv
<1> QED BY <1>5, <1>6, <1>7 DEF AloneInv

LEMMA AloneSend ==
    ASSUME Typed, AloneInv, NEW p \in Clients, Send(p)
    PROVE  AloneInv'
<1> DEFINE w == put[p]
<1>1. TypeOK /\ w # Nil /\ w \in Puts /\ w.todo # <<>>
  BY DEF Send, Typed, TypeOK
<1>2. put' = [put EXCEPT ![p] = [w EXCEPT !.todo = Tail(w.todo)]]
  BY DEF Send
<1>3. [w EXCEPT !.todo = Tail(w.todo)] \in Puts /\ Nil \notin Puts
  BY <1>1, SendTypes, NilAssumption DEF NilAssumption
<1>4. /\ late' = late /\ qry' = qry /\ last' = last
      /\ \A c \in Clients : /\ put'[c] = Nil <=> put[c] = Nil
                            /\ put'[c].at = put[c].at /\ put'[c].alone = put[c].alone
  <2>1. /\ [w EXCEPT !.todo = Tail(w.todo)].at = w.at
        /\ [w EXCEPT !.todo = Tail(w.todo)].alone = w.alone
    BY <1>1 DEF Puts
  <2>2. /\ put'[p] = [w EXCEPT !.todo = Tail(w.todo)]
        /\ \A c \in Clients \ {p} : put'[c] = put[c]
    BY <1>1, <1>2 DEF TypeOK
  <2> QED BY <1>1, <1>3, <2>1, <2>2 DEF Send
<1>5. \A y : Alone(y) => Alone(y)'
  BY <1>4 DEF Alone
<1>6. \A c \in Clients : OnlyPut(c) => OnlyPut(c)'
  BY <1>4 DEF OnlyPut
<1>7. Still => Still'
  BY <1>4 DEF Still
<1> QED BY <1>4, <1>5, <1>6, <1>7 DEF AloneInv

LEMMA AloneRefused ==
    ASSUME Typed, AloneInv, NEW p \in Clients, SendRefused(p)
    PROVE  AloneInv'
<1>1. /\ late' = late /\ qry' = qry /\ last' = last
      /\ put[p] # Nil /\ put'[p] # Nil /\ put'[p].at = put[p].at /\ ~put'[p].alone
      /\ \A c \in Clients \ {p} : put'[c] = put[c]
  BY RefusedSend DEF Typed
<1>2. \A c \in Clients : /\ put'[c] = Nil <=> put[c] = Nil
                         /\ put[c] # Nil => put'[c].at = put[c].at
                         /\ put'[c] # Nil /\ put'[c].alone => put[c].alone
  BY <1>1
<1>3. \A y : Alone(y) => Alone(y)'
  BY <1>1, <1>2 DEF Alone
<1>4. \A c \in Clients : put[c] # Nil /\ OnlyPut(c) => OnlyPut(c)'
  BY <1>1, <1>2 DEF OnlyPut
<1>5. Still => Still'
  BY <1>1 DEF Still
<1> QED BY <1>1, <1>2, <1>3, <1>4, <1>5 DEF AloneInv

LEMMA AloneThrow ==
    ASSUME Typed, AloneInv, NEW p \in Clients, SendThrows(p)
    PROVE  AloneInv'
<1>1. /\ put[p] # Nil /\ qry' = qry /\ last' = last
      /\ \A c \in late' : c \in late \/ c.at = put[p].at
  BY DEF SendThrows
<1>2. put'[p] = Nil /\ \A c \in Clients \ {p} : put'[c] = put[c]
  BY DEF SendThrows, Typed, TypeOK
<1>3. \A y : Alone(y) => Alone(y)'
  BY <1>1, <1>2 DEF Alone
<1>4. \A c \in Clients \ {p} : OnlyPut(c) /\ put'[c] # Nil => OnlyPut(c)'
  BY <1>1, <1>2 DEF OnlyPut
<1>5. ~Still
  BY <1>1 DEF Still
<1>6. \A c \in Clients : put'[c] # Nil => c # p /\ put[c] # Nil /\ put'[c] = put[c]
  BY <1>2
<1> QED BY <1>1, <1>3, <1>4, <1>5, <1>6 DEF AloneInv

LEMMA AloneLate ==
    ASSUME Typed, AloneInv, LateCommand
    PROVE  AloneInv'
<1> TypeOK
  BY DEF Typed
<1>1. PICK l \in late : late' = late \ {l} /\ put' = Disturbed(l.at) /\ Disturb(l.at)
  BY DEF LateCommand
<1>2. l.at \in Places
  BY DEF TypeOK, LateCommands
<1>3. \A c \in Clients : put'[c] # Nil => /\ put[c] # Nil /\ put'[c].at = put[c].at
                                          /\ put'[c].alone => put[c].alone
  BY <1>1, DisturbedTypes
<1>4. \A y : Alone(y) => Alone(y)'
  BY <1>1, <1>3 DEF Alone
<1>5. \A c \in Clients : put'[c] # Nil /\ OnlyPut(c) => OnlyPut(c)'
  BY <1>1, <1>3 DEF OnlyPut
<1>6. \A y \in Places : last'[y] # Nil => Alone(y)'
  <2>1. \A y \in Places : last'[y] # Nil => last'[y] = last[y]
    BY <1>1, <1>2, DisturbTypes
  <2> QED BY <1>4, <2>1 DEF AloneInv
<1>7. \A c \in Clients : put'[c] # Nil /\ put'[c].alone => OnlyPut(c)'
  BY <1>3, <1>5 DEF AloneInv
<1>8. ASSUME NEW c \in Clients, qry'[c] # Nil
      PROVE  (\A y \in qry'[c].must : Alone(y)') /\ (qry'[c].quiet => Still')
  <2>1. qry[c] \in Queries /\ qry[c] # Nil /\ qry'[c] = DisturbedQuery(qry[c], l.at)
    BY <1>1, <1>2, <1>8, DisturbTypes
  <2>2. qry'[c].quiet = FALSE /\ qry'[c].must = qry[c].must \ {l.at}
    BY <2>1, DisturbedType, ZenonT(60)
  <2> QED BY <1>4, <2>1, <2>2 DEF AloneInv
<1> QED BY <1>6, <1>7, <1>8 DEF AloneInv

LEMMA AloneReturn ==
    ASSUME Typed, AloneInv, NEW p \in Clients, PutReturn(p)
    PROVE  AloneInv'
<1> DEFINE w == put[p]
<1>1. TypeOK /\ w # Nil /\ w \in Puts /\ w.at \in Places
  BY DEF PutReturn, Typed, TypeOK, Puts
<1>2. put'[p] = Nil /\ \A c \in Clients \ {p} : put'[c] = put[c]
  BY DEF PutReturn, Typed, TypeOK
<1>3. late' = late /\ qry' = qry
  BY DEF PutReturn, store
<1>4. \A y : Alone(y) => Alone(y)'
  BY <1>2, <1>3 DEF Alone
<1>5. \A c \in Clients : OnlyPut(c) /\ put'[c] # Nil => OnlyPut(c)'
  BY <1>2, <1>3 DEF OnlyPut
<1>6. ASSUME NEW y \in Places, last'[y] # Nil PROVE Alone(y)'
  <2>1. CASE y = w.at
    <3>1. w.alone
      BY <1>1, <1>6, <2>1 DEF PutReturn, TypeOK
    <3>2. OnlyPut(p)
      BY <1>1, <3>1 DEF AloneInv
    <3> QED BY <1>2, <1>3, <2>1, <3>2 DEF OnlyPut, Alone
  <2>2. CASE y # w.at
    <3>1. last[y] # Nil
      BY <1>1, <1>6, <2>2 DEF PutReturn, TypeOK
    <3> QED BY <1>4, <3>1 DEF AloneInv
  <2> QED BY <2>1, <2>2
<1>7. \A c \in Clients : put'[c] # Nil => c # p /\ put[c] # Nil /\ put'[c] = put[c]
  BY <1>2
<1>8. Still => Still'
  BY <1>2, <1>3 DEF Still
<1>9. \A c \in Clients : put'[c] # Nil /\ put'[c].alone => OnlyPut(c)'
  BY <1>5, <1>7 DEF AloneInv
<1>10. \A c \in Clients : qry'[c] # Nil =>
         (\A y \in qry'[c].must : Alone(y)') /\ (qry'[c].quiet => Still')
  BY <1>3, <1>4, <1>8 DEF AloneInv
<1> QED BY <1>6, <1>9, <1>10 DEF AloneInv

\* A query that begins has to find what Puts that are over have left alone.
LEMMA AloneBegin ==
    ASSUME Typed, AloneInv, NEW p \in Clients, QueryAny(p)
    PROVE  AloneInv'
<1> TypeOK
  BY DEF Typed
<1>1. PICK kind \in Kinds, val \in Ints, cmp \in {-1, 1, Nil} : Begin(p, kind, val, cmp)
  BY QueryBegins
<1>2. PICK q \in Queries : /\ qry' = [qry EXCEPT ![p] = q]
                           /\ UNCHANGED <<store, put, puts, fails, last, bare>>
                           /\ q.must = MustFind(q) /\ (q.quiet => Still)
  BY <1>1, BeginTypes
<1>3. late' = late /\ put' = put /\ last' = last
  BY <1>2 DEF store
<1>4. qry'[p] = q /\ \A c \in Clients \ {p} : qry'[c] = qry[c]
  BY <1>2 DEF TypeOK
<1>5. \A y : Alone(y) <=> Alone(y)'
  BY <1>3 DEF Alone
<1>6. (Still <=> Still') /\ \A c \in Clients : OnlyPut(c) <=> OnlyPut(c)'
  BY <1>3 DEF Still, OnlyPut
<1>7. \A y \in q.must : Alone(y)
  BY <1>2 DEF MustFind, AloneInv
<1>8. \A y \in Places : last'[y] # Nil => Alone(y)'
  BY <1>3, <1>5 DEF AloneInv
<1>9. \A c \in Clients : put'[c] # Nil /\ put'[c].alone => OnlyPut(c)'
  BY <1>3, <1>6 DEF AloneInv
<1>10. \A c \in Clients \ {p} : qry'[c] # Nil =>
         (\A y \in qry'[c].must : Alone(y)') /\ (qry'[c].quiet => Still')
  BY <1>4, <1>5, <1>6 DEF AloneInv
<1>11. (\A y \in qry'[p].must : Alone(y)') /\ (qry'[p].quiet => Still')
  BY <1>2, <1>4, <1>5, <1>6, <1>7
<1> QED BY <1>8, <1>9, <1>10, <1>11 DEF AloneInv

LEMMA AloneTurn ==
    ASSUME Typed, AloneInv, NEW p \in Clients, QueryStep(p) \/ QueryThrows(p)
    PROVE  AloneInv'
<1>1. /\ qry[p] # Nil /\ UNCHANGED <<store, put, last>>
      /\ \/ qry' = [qry EXCEPT ![p] = Nil]
         \/ \E r \in Queries : SameQuestion(qry[p], r) /\ qry' = [qry EXCEPT ![p] = r]
  BY QueryTurns
<1>2. late' = late /\ put' = put /\ last' = last
  BY <1>1 DEF store
<1>3. \A c \in Clients : qry'[c] # Nil =>
        qry[c] # Nil /\ qry'[c].must = qry[c].must /\ qry'[c].quiet = qry[c].quiet
  BY <1>1 DEF Typed, TypeOK, SameQuestion
<1>4. \A y : Alone(y) <=> Alone(y)'
  BY <1>2 DEF Alone
<1>5. (Still <=> Still') /\ \A c \in Clients : OnlyPut(c) <=> OnlyPut(c)'
  BY <1>2 DEF Still, OnlyPut
<1> QED BY <1>2, <1>3, <1>4, <1>5 DEF AloneInv

LEMMA AloneNext ==
    ASSUME Typed, AloneInv, [Next]_vars
    PROVE  AloneInv'
<1>1. ASSUME UNCHANGED vars PROVE AloneInv'
  <2>1. late' = late /\ put' = put /\ last' = last /\ qry' = qry
    BY <1>1 DEF vars
  <2>2. \A y : Alone(y) <=> Alone(y)'
    BY <2>1 DEF Alone
  <2>3. (Still <=> Still') /\ \A c \in Clients : OnlyPut(c) <=> OnlyPut(c)'
    BY <2>1 DEF Still, OnlyPut
  <2> QED BY <2>1, <2>2, <2>3 DEF AloneInv
<1> QED BY <1>1, AlonePut, AloneSend, AloneRefused, AloneThrow, AloneReturn, AloneLate,
       AloneBegin, AloneTurn DEF Next

LEMMA AloneAlways == Spec => [](Typed /\ AloneInv)
<1>1. Init => AloneInv
  BY DEF Init, AloneInv
<1>2. AloneInv /\ Typed /\ [Next]_vars => AloneInv'
  BY AloneNext
<1> QED BY <1>1, <1>2, TypedAlways, PTL DEF Spec

-----------------------------------------------------------------------------
(***************************************************************************)
(* What Puts leave.                                                        *)
(***************************************************************************)
\* A Put that is alone has written what it no longer has to; one at a place
\* where no number goes without its index entry indexes first.
PutRight(w, d, ix, b) ==
    /\ w.alone /\ w.flags # {} /\ ~Remains("SET", w.todo) => d[w.at] = w.val
    /\ w.alone /\ "v2" \in w.flags /\ ~Remains("ZADD", w.todo) => ix[w.at] = w.val
    /\ w.at \notin b =>
         \/ w.todo = <<"ZADD", "SET">>
         \/ w.todo \in {<<"SET">>, <<>>} /\ ix[w.at] # Nil

PutInv == \A p \in Clients : put[p] # Nil => PutRight(put[p], data, index, bare)
LateInv == \A c \in late : c.cmd = "SET" /\ c.at \notin bare => index[c.at] # Nil
WrittenInv == IndexedFirst /\ PutInv /\ LateInv

LEMMA Leaves ==
    ASSUME NEW s \in Seq(Command), s # <<>>, NEW cmd, ~Remains(cmd, Tail(s))
    PROVE  Head(s) = cmd \/ ~Remains(cmd, s)
<1> SUFFICES ASSUME NEW i \in 1 .. Len(s), s[i] = cmd, Head(s) # cmd PROVE FALSE
  BY DEF Remains
<1>1. /\ Len(s) \in Nat /\ Len(Tail(s)) = Len(s) - 1 /\ Head(s) = s[1]
      /\ \A j \in 1 .. Len(Tail(s)) : Tail(s)[j] = s[j + 1]
  BY HeadTailProperties
<1>2. i # 1
  BY <1>1
<1>3. i - 1 \in 1 .. Len(Tail(s)) /\ (i - 1) + 1 = i
  BY <1>1, <1>2
<1>4. Tail(s)[i - 1] = cmd
  BY <1>1, <1>3
<1>5. Tail(s) \in Seq(Command)
  BY HeadTailProperties
<1>6. DOMAIN Tail(s) = 1 .. Len(Tail(s))
  BY <1>5
<1> QED BY <1>3, <1>4, <1>6 DEF Remains

LEMMA NothingRemains == \A cmd : ~Remains(cmd, <<>>)
BY DEF Remains

LEMMA IndexThenData ==
    /\ Head(<<"ZADD", "SET">>) = "ZADD" /\ Tail(<<"ZADD", "SET">>) = <<"SET">>
    /\ Head(<<"SET">>) = "SET" /\ Tail(<<"SET">>) = <<>>
OBVIOUS

\* Steps that leave the store, the commands and the Puts alone.
LEMMA WrittenSame ==
    ASSUME WrittenInv, data' = data, index' = index, late' = late, put' = put,
           last' = last, bare' = bare
    PROVE  WrittenInv'
<1>1. PutInv'
  BY DEF WrittenInv, PutInv, PutRight
<1>2. LateInv' /\ IndexedFirst'
  BY DEF WrittenInv, LateInv, IndexedFirst
<1> QED BY <1>1, <1>2 DEF WrittenInv

LEMMA WrittenPut ==
    ASSUME Typed, WrittenInv, NEW p \in Clients, PutAny(p)
    PROVE  WrittenInv'
<1> TypeOK
  BY DEF Typed
<1>1. PICK key \in Keys, col \in Cols, v \in Values, flags \in FlagSets :
        PutPlainText(p, key, col, v, flags)
  BY DEF PutAny
<1>2. PICK x \in Places, w \in Puts :
             /\ put[p] = Nil /\ put' = [Disturbed(x) EXCEPT ![p] = w]
             /\ w.at = x /\ w.flags = flags /\ flags \in SUBSET Flags
             /\ w.todo = Commands(flags) /\ (w.alone => Alone(x))
             /\ puts' = puts + 1 /\ puts < MaxPut
             /\ Disturb(x)
             /\ bare' = IF flags = {"v2"} THEN bare ELSE bare \cup {x}
             /\ UNCHANGED <<store, fails>>
  BY <1>1, PutBegins
<1>3. data' = data /\ index' = index /\ late' = late /\ bare \subseteq bare'
  BY <1>2 DEF store
<1>4. \A y \in Places : last'[y] # Nil => last'[y] = last[y]
  BY <1>2, DisturbTypes
<1>5. IndexedFirst'
  BY <1>3, <1>4 DEF WrittenInv, IndexedFirst
<1>6. LateInv'
  BY <1>3 DEF WrittenInv, LateInv
<1>7. ASSUME NEW c \in Clients, put'[c] # Nil PROVE PutRight(put'[c], data', index', bare')
  <2>1. CASE c = p
    <3>1. put'[c] = w
      BY <1>2, <2>1, DisturbedTypes
    <3>2. /\ flags # {} => Remains("SET", w.todo)
          /\ "v2" \in flags => Remains("ZADD", w.todo)
          /\ flags = {"v2"} => w.todo = <<"ZADD", "SET">>
      BY <1>2, CommandsType
    <3>3. w.at \notin bare' => flags = {"v2"}
      BY <1>2
    <3> QED BY <1>2, <3>1, <3>2, <3>3 DEF PutRight
  <2>2. CASE c # p
    <3>1. put'[c] = Disturbed(x)[c]
      BY <1>2, <2>2, DisturbedTypes
    <3>2. /\ put[c] # Nil /\ put'[c].at = put[c].at /\ put'[c].val = put[c].val
          /\ put'[c].flags = put[c].flags /\ put'[c].todo = put[c].todo
          /\ put'[c].alone => put[c].alone
      BY <1>7, <3>1, DisturbedTypes
    <3>3. PutRight(put[c], data, index, bare)
      BY <3>2 DEF WrittenInv, PutInv
    <3> QED BY <1>3, <3>2, <3>3 DEF PutRight
  <2> QED BY <2>1, <2>2
<1>8. PutInv'
  BY <1>7 DEF PutInv
<1> QED BY <1>5, <1>6, <1>8 DEF WrittenInv

LEMMA WrittenSend ==
    ASSUME Typed, AloneInv, WrittenInv, NEW p \in Clients, Send(p)
    PROVE  WrittenInv'
<1> DEFINE w == put[p]
           n == [w EXCEPT !.todo = Tail(w.todo)]
           cmd == Head(w.todo)
<1>1. TypeOK /\ w # Nil /\ w \in Puts /\ w.todo # <<>> /\ w.todo \in Seq(Command)
  BY DEF Send, Typed, TypeOK, Puts
<1>2. cmd \in Command /\ w.at \in Places /\ w.val \in Ints /\ w.val # Nil
  BY <1>1, SendTypes, NilAssumption DEF NilAssumption
<1>3. Execute(cmd, w.at, w.val) /\ late' = late /\ last' = last /\ bare' = bare
  BY DEF Send
<1>4. put'[p] = n /\ \A c \in Clients \ {p} : put'[c] = put[c]
  BY <1>1 DEF Send, TypeOK
<1>5. n.at = w.at /\ n.val = w.val /\ n.flags = w.flags /\ n.alone = w.alone /\ n.todo = Tail(w.todo)
  BY <1>1 DEF Puts
<1>6. /\ cmd = "SET" => data' = [data EXCEPT ![w.at] = w.val] /\ index' = index
      /\ cmd = "ZADD" => index' = [index EXCEPT ![w.at] = w.val] /\ data' = data
      /\ \A y \in Places : y # w.at => data'[y] = data[y] /\ index'[y] = index[y]
      /\ \A y \in Places : index[y] # Nil => index'[y] # Nil
  BY <1>1, <1>2, <1>3, ExecuteTypes
<1>7. /\ cmd = "SET" => data'[w.at] = w.val
      /\ cmd = "ZADD" => index'[w.at] = w.val
  BY <1>1, <1>2, <1>6 DEF TypeOK
<1>8. cmd = "SET" \/ cmd = "ZADD"
  BY <1>2 DEF Command
<1>9. PutRight(w, data, index, bare)
  BY <1>1 DEF WrittenInv, PutInv
<1> HIDE DEF n, cmd
<1>10. w.at \notin bare => \/ w.todo = <<"ZADD", "SET">> /\ cmd = "ZADD" /\ n.todo = <<"SET">>
                           \/ w.todo = <<"SET">> /\ cmd = "SET" /\ n.todo = <<>> /\ index[w.at] # Nil
  BY <1>1, <1>5, <1>9, IndexThenData DEF PutRight, cmd
<1>11. PutRight(n, data', index', bare')
  <2>1. ASSUME n.alone, n.flags # {}, ~Remains("SET", n.todo) PROVE data'[n.at] = n.val
    <3>1. cmd = "SET" \/ ~Remains("SET", w.todo)
      BY <1>1, <1>5, <2>1, Leaves DEF cmd
    <3>2. cmd # "SET" => data'[w.at] = data[w.at]
      BY <1>6, <1>8
    <3>3. ~Remains("SET", w.todo) => data[w.at] = w.val
      BY <1>5, <1>9, <2>1 DEF PutRight
    <3> QED BY <1>5, <1>7, <3>1, <3>2, <3>3
  <2>2. ASSUME n.alone, "v2" \in n.flags, ~Remains("ZADD", n.todo) PROVE index'[n.at] = n.val
    <3>1. cmd = "ZADD" \/ ~Remains("ZADD", w.todo)
      BY <1>1, <1>5, <2>2, Leaves DEF cmd
    <3>2. cmd # "ZADD" => index'[w.at] = index[w.at]
      BY <1>6, <1>8
    <3>3. ~Remains("ZADD", w.todo) => index[w.at] = w.val
      BY <1>5, <1>9, <2>2 DEF PutRight
    <3> QED BY <1>5, <1>7, <3>1, <3>2, <3>3
  <2>3. ASSUME n.at \notin bare' PROVE n.todo \in {<<"SET">>, <<>>} /\ index'[n.at] # Nil
    BY <1>2, <1>3, <1>5, <1>6, <1>7, <1>10, <2>3
  <2> QED BY <2>1, <2>2, <2>3 DEF PutRight
<1>12. ASSUME NEW c \in Clients, c # p, put[c] # Nil PROVE PutRight(put[c], data', index', bare')
  <2>1. PutRight(put[c], data, index, bare)
    BY <1>12 DEF WrittenInv, PutInv
  <2>2. put[c].alone => put[c].at # w.at
    <3>1. put[c].alone => OnlyPut(c)
      BY <1>12 DEF AloneInv
    <3> QED BY <1>1, <1>12, <3>1 DEF OnlyPut
  <2>3. put[c].at \in Places
    BY <1>1, <1>12 DEF TypeOK, Puts
  <2> QED BY <1>3, <1>6, <2>1, <2>2, <2>3 DEF PutRight
<1>13. PutInv'
  BY <1>4, <1>11, <1>12 DEF PutInv
<1>14. LateInv'
  <2>1. \A c \in late : c.at \in Places
    BY <1>1 DEF TypeOK, LateCommands
  <2> QED BY <1>3, <1>6, <2>1 DEF WrittenInv, LateInv
<1>15. IndexedFirst'
  <2>1. ASSUME NEW y \in Places, last'[y] # Nil
        PROVE data'[y] = last'[y].val /\ ("v2" \in last'[y].flags => index'[y] = last'[y].val)
    <3>1. last[y] # Nil /\ last'[y] = last[y]
      BY <1>3, <2>1
    <3>2. Alone(y)
      BY <3>1 DEF AloneInv
    <3>3. y # w.at
      BY <1>1, <3>2 DEF Alone
    <3> QED BY <1>6, <3>1, <3>3 DEF WrittenInv, IndexedFirst
  <2>2. ASSUME NEW y \in Places \ bare', data'[y] # Nil PROVE index'[y] # Nil
    <3>1. CASE y = w.at
      <4>1. cmd = "SET" => index[y] # Nil
        BY <1>3, <1>10, <2>2, <3>1
      <4> QED BY <1>2, <1>6, <1>7, <1>8, <3>1, <4>1
    <3>2. CASE y # w.at
      BY <1>3, <1>6, <2>2, <3>2 DEF WrittenInv, IndexedFirst
    <3> QED BY <3>1, <3>2
  <2> QED BY <2>1, <2>2 DEF IndexedFirst
<1> QED BY <1>13, <1>14, <1>15 DEF WrittenInv

\* A Put whose command was refused promises nothing; if it was the entry of the
\* index, its place is bare.
LEMMA WrittenRefused ==
    ASSUME Typed, WrittenInv, NEW p \in Clients, SendRefused(p)
    PROVE  WrittenInv'
<1> DEFINE w == put[p]
           n == put'[p]
<1>1. /\ w # Nil /\ w \in Puts /\ w.todo # <<>>
      /\ n.at = w.at /\ n.todo = Tail(w.todo) /\ n.alone = FALSE
      /\ \A c \in Clients \ {p} : put'[c] = put[c]
      /\ data' = data /\ index' = index /\ late' = late /\ last' = last
      /\ bare' = IF Head(w.todo) = "ZADD" THEN bare \cup {w.at} ELSE bare
  BY RefusedSend DEF Typed
<1> HIDE DEF w, n
<1>2. PutRight(w, data, index, bare)
  BY <1>1 DEF WrittenInv, PutInv, w
<1>3. n.at \notin bare' => n.todo = <<>> /\ index[n.at] # Nil
  <2>1. ASSUME n.at \notin bare' PROVE Head(w.todo) # "ZADD" /\ w.at \notin bare
    BY <1>1, <2>1
  <2> QED BY <1>1, <1>2, <2>1, IndexThenData DEF PutRight
<1>4. PutRight(n, data', index', bare')
  BY <1>1, <1>3 DEF PutRight
<1>5. ASSUME NEW c \in Clients, c # p, put'[c] # Nil PROVE PutRight(put'[c], data', index', bare')
  <2>1. put'[c] = put[c] /\ PutRight(put[c], data, index, bare)
    BY <1>1, <1>5 DEF WrittenInv, PutInv
  <2>2. put[c].at \notin bare' => put[c].at \notin bare
    BY <1>1
  <2> QED BY <1>1, <2>1, <2>2 DEF PutRight
<1>6. PutInv'
  BY <1>4, <1>5 DEF PutInv, n
<1>7. LateInv' /\ IndexedFirst'
  BY <1>1 DEF WrittenInv, LateInv, IndexedFirst
<1> QED BY <1>6, <1>7 DEF WrittenInv

LEMMA WrittenThrow ==
    ASSUME Typed, WrittenInv, NEW p \in Clients, SendThrows(p)
    PROVE  WrittenInv'
<1> DEFINE w == put[p]
<1>1. w # Nil /\ w \in Puts /\ w.todo # <<>>
  BY DEF SendThrows, Typed, TypeOK
<1>2. /\ data' = data /\ index' = index /\ last' = last /\ bare' = bare
      /\ late' = late \cup {[cmd |-> Head(w.todo), at |-> w.at, val |-> w.val]}
  BY DEF SendThrows
<1>3. \A c \in Clients : put'[c] # Nil => put[c] # Nil /\ put'[c] = put[c]
  BY DEF SendThrows, Typed, TypeOK
<1>4. IndexedFirst'
  BY <1>2 DEF WrittenInv, IndexedFirst
<1>5. PutInv'
  BY <1>2, <1>3 DEF WrittenInv, PutInv, PutRight
<1>6. Head(w.todo) = "SET" /\ w.at \notin bare => index[w.at] # Nil
  <2>1. PutRight(w, data, index, bare)
    BY <1>1 DEF WrittenInv, PutInv
  <2> QED BY <1>1, <2>1, IndexThenData DEF PutRight
<1>7. LateInv'
  BY <1>2, <1>6 DEF WrittenInv, LateInv
<1> QED BY <1>4, <1>5, <1>7 DEF WrittenInv

LEMMA WrittenLate ==
    ASSUME Typed, WrittenInv, LateCommand
    PROVE  WrittenInv'
<1> TypeOK
  BY DEF Typed
<1>1. PICK l \in late : /\ late' = late \ {l} /\ Execute(l.cmd, l.at, l.val)
                        /\ put' = Disturbed(l.at) /\ Disturb(l.at) /\ bare' = bare
  BY DEF LateCommand
<1>2. l.cmd \in Command /\ l.at \in Places /\ l.val \in Ints /\ l.val # Nil
  BY NilAssumption DEF TypeOK, LateCommands, NilAssumption
<1>3. /\ l.cmd = "SET" => index' = index
      /\ l.cmd = "ZADD" => index' = [index EXCEPT ![l.at] = l.val]
      /\ \A y \in Places : y # l.at => data'[y] = data[y] /\ index'[y] = index[y]
      /\ \A y \in Places : index[y] # Nil => index'[y] # Nil
  BY <1>1, <1>2, ExecuteTypes
<1>4. l.cmd = "ZADD" => index'[l.at] # Nil
  BY <1>2, <1>3 DEF TypeOK
<1>5. \A y \in Places : last'[y] # Nil => y # l.at /\ last'[y] = last[y]
  BY <1>1, <1>2, DisturbTypes
<1>6. LateInv'
  <2>1. \A c \in late : c.at \in Places
    BY DEF TypeOK, LateCommands
  <2> QED BY <1>1, <1>3, <2>1 DEF WrittenInv, LateInv
<1>7. IndexedFirst'
  <2>1. ASSUME NEW y \in Places, last'[y] # Nil
        PROVE data'[y] = last'[y].val /\ ("v2" \in last'[y].flags => index'[y] = last'[y].val)
    BY <1>3, <1>5, <2>1 DEF WrittenInv, IndexedFirst
  <2>2. ASSUME NEW y \in Places \ bare', data'[y] # Nil PROVE index'[y] # Nil
    <3>1. CASE y = l.at
      <4>1. l.cmd = "SET" => index[y] # Nil
        BY <1>1, <2>2, <3>1 DEF WrittenInv, LateInv
      <4> QED BY <1>2, <1>3, <1>4, <3>1, <4>1 DEF Command
    <3>2. CASE y # l.at
      BY <1>1, <1>3, <2>2, <3>2 DEF WrittenInv, IndexedFirst
    <3> QED BY <3>1, <3>2
  <2> QED BY <2>1, <2>2 DEF IndexedFirst
<1>8. ASSUME NEW c \in Clients, put'[c] # Nil PROVE PutRight(put'[c], data', index', bare')
  <2>1. /\ put[c] # Nil /\ put'[c].at = put[c].at /\ put'[c].val = put[c].val
        /\ put'[c].flags = put[c].flags /\ put'[c].todo = put[c].todo
        /\ put'[c].alone => put[c].alone /\ put[c].at # l.at
    BY <1>1, <1>8, DisturbedTypes
  <2>2. PutRight(put[c], data, index, bare)
    BY <2>1 DEF WrittenInv, PutInv
  <2>3. put[c].at \in Places
    BY <2>1 DEF TypeOK, Puts
  <2> QED BY <1>1, <1>3, <2>1, <2>2, <2>3 DEF PutRight
<1>9. PutInv'
  BY <1>8 DEF PutInv
<1> QED BY <1>6, <1>7, <1>9 DEF WrittenInv

LEMMA WrittenReturn ==
    ASSUME Typed, WrittenInv, NEW p \in Clients, PutReturn(p)
    PROVE  WrittenInv'
<1> DEFINE w == put[p]
           done == [val |-> w.val, flags |-> w.flags]
<1>1. TypeOK /\ w # Nil /\ w \in Puts /\ w.todo = <<>> /\ w.at \in Places
  BY DEF PutReturn, Typed, TypeOK, Puts
<1>2. /\ data' = data /\ index' = index /\ late' = late /\ bare' = bare
      /\ last' = [last EXCEPT ![w.at] = IF w.flags # {} /\ w.alone THEN done ELSE Nil]
  BY DEF PutReturn, store
<1>3. \A c \in Clients : put'[c] # Nil => put[c] # Nil /\ put'[c] = put[c]
  BY <1>1 DEF PutReturn, TypeOK
<1>4. PutInv' /\ LateInv'
  BY <1>2, <1>3 DEF WrittenInv, PutInv, PutRight, LateInv
<1>5. ASSUME NEW y \in Places, last'[y] # Nil
      PROVE data'[y] = last'[y].val /\ ("v2" \in last'[y].flags => index'[y] = last'[y].val)
  <2>1. CASE y = w.at
    <3>1. w.flags # {} /\ w.alone /\ last'[y].val = w.val /\ last'[y].flags = w.flags
      BY <1>1, <1>2, <1>5, <2>1 DEF TypeOK
    <3>2. PutRight(w, data, index, bare)
      BY <1>1 DEF WrittenInv, PutInv
    <3> QED BY <1>1, <1>2, <2>1, <3>1, <3>2, NothingRemains DEF PutRight
  <2>2. CASE y # w.at
    BY <1>1, <1>2, <1>5, <2>2 DEF TypeOK, WrittenInv, IndexedFirst
  <2> QED BY <2>1, <2>2
<1>6. \A y \in Places \ bare' : data'[y] # Nil => index'[y] # Nil
  BY <1>2 DEF WrittenInv, IndexedFirst
<1> QED BY <1>4, <1>5, <1>6 DEF WrittenInv, IndexedFirst

LEMMA WrittenNext ==
    ASSUME Typed, AloneInv, WrittenInv, [Next]_vars
    PROVE  WrittenInv'
<1>1. ASSUME NEW p \in Clients, QueryAny(p) PROVE WrittenInv'
  <2>1. PICK kind \in Kinds, val \in Ints, cmp \in {-1, 1, Nil} : Begin(p, kind, val, cmp)
    BY <1>1, QueryBegins DEF Typed
  <2> QED BY <2>1, WrittenSame DEF Begin, store
<1>2. ASSUME NEW p \in Clients, QueryStep(p) \/ QueryThrows(p) PROVE WrittenInv'
  <2>1. UNCHANGED <<store, put, puts, last, bare>>
    BY <1>2, QueryTurns
  <2> QED BY <2>1, WrittenSame DEF store
<1>3. ASSUME UNCHANGED vars PROVE WrittenInv'
  BY <1>3, WrittenSame DEF vars
<1> QED BY <1>1, <1>2, <1>3, WrittenPut, WrittenSend, WrittenRefused, WrittenThrow, WrittenLate,
       WrittenReturn DEF Next

LEMMA WrittenAlways == Spec => [](Typed /\ AloneInv /\ WrittenInv)
<1>1. Init => WrittenInv
  BY DEF Init, WrittenInv, IndexedFirst, PutInv, LateInv
<1>2. Typed /\ AloneInv /\ WrittenInv /\ [Next]_vars => WrittenInv'
  BY WrittenNext
<1> QED BY <1>1, <1>2, AloneAlways, PTL DEF Spec

\* What the last Put at a place has stored, if no other wrote there meanwhile
\* and Redis refused none of its commands, stays; and a reader that sees a
\* number of strategy II has it in the sorted set, unless a ZADD was refused
\* there: ZADD goes before SET, whoever fails in between (ClientCpp.cpp:326-327).
THEOREM AlwaysIndexedFirst == Spec => []IndexedFirst
BY WrittenAlways, PTL DEF WrittenInv

-----------------------------------------------------------------------------
(***************************************************************************)
(* What queries have still to find.                                        *)
(***************************************************************************)
Holds(q, x, d, ix) ==
    /\ d[x] # Nil /\ Wanted(q, d[x]) /\ Considers(q.kind, x[2])
    /\ q.kind = "v2" => ix[x] = q.val

Ahead(q, x) ==
    \/ x[1] \in q.left
    \/ x \in q.all.at
    \/ /\ q.node = x[1]
       /\ \/ x \in q.ret.at \/ x[2] \in q.todo
          \/ ~q.scanned /\ (q.kind = "v1" => x[2] \in q.due)

Owed(q, d, ix) ==
    \A x \in q.must : Holds(q, x, d, ix) /\ (q.cut \/ Ahead(q, x))
OwedInv == \A p \in Clients : qry[p] # Nil => Owed(qry[p], data, index)

LEMMA OwedKept ==
    ASSUME NEW q \in Queries, NEW r \in Queries, SameProgress(q, r), r.must \subseteq q.must,
           NEW d, NEW ix, NEW d2, NEW ix2, \A x \in r.must : d2[x] = d[x] /\ ix2[x] = ix[x],
           Owed(q, d, ix)
    PROVE  Owed(r, d2, ix2)
BY DEF SameProgress, Owed, Holds, Ahead, Wanted

\* A write does not touch what queries have to find.
LEMMA OwedWrite ==
    ASSUME Typed, OwedInv, NEW x \in Places, Disturb(x),
           \A y \in Places : y # x => data'[y] = data[y] /\ index'[y] = index[y]
    PROVE  OwedInv'
<1> TypeOK
  BY DEF Typed
<1>1. ASSUME NEW c \in Clients, qry'[c] # Nil PROVE Owed(qry'[c], data', index')
  <2>1. qry[c] \in Queries /\ qry[c] # Nil /\ qry'[c] = DisturbedQuery(qry[c], x)
    BY <1>1, DisturbTypes
  <2>2. /\ SameProgress(qry[c], qry'[c]) /\ qry'[c] \in Queries
        /\ qry'[c].must = qry[c].must \ {x}
    BY <2>1, DisturbedType
  <2>3. qry[c].must \subseteq Places
    BY <2>1 DEF Queries
  <2>4. Owed(qry[c], data, index)
    BY <2>1 DEF OwedInv
  <2>5. /\ qry'[c].must \subseteq qry[c].must
        /\ \A y \in qry'[c].must : data'[y] = data[y] /\ index'[y] = index[y]
    BY <2>2, <2>3
  <2> QED BY <2>1, <2>2, <2>4, <2>5, OwedKept
<1> QED BY <1>1 DEF OwedInv

LEMMA OwedSend ==
    ASSUME Typed, AloneInv, OwedInv, NEW p \in Clients, Send(p)
    PROVE  OwedInv'
<1> DEFINE w == put[p]
<1>1. TypeOK /\ w # Nil /\ w \in Puts /\ w.todo # <<>>
  BY DEF Send, Typed, TypeOK
<1>2. /\ qry' = qry
      /\ \A y \in Places : y # w.at => data'[y] = data[y] /\ index'[y] = index[y]
  <2>1. Head(w.todo) \in Command /\ w.at \in Places /\ w.val \in Ints
    BY <1>1, SendTypes
  <2>2. qry' = qry /\ Execute(Head(w.todo), w.at, w.val)
    BY DEF Send
  <2> QED BY <1>1, <2>1, <2>2, ExecuteTypes
<1>3. ASSUME NEW c \in Clients, qry[c] # Nil PROVE Owed(qry[c], data', index')
  <2>1. qry[c] \in Queries /\ qry[c].must \subseteq Places
    BY <1>1, <1>3 DEF TypeOK, Queries
  <2>2. \A y \in qry[c].must : y # w.at
    BY <1>1, <1>3 DEF AloneInv, Alone
  <2>3. SameProgress(qry[c], qry[c]) /\ Owed(qry[c], data, index)
    BY <1>3 DEF SameProgress, OwedInv
  <2>4. \A y \in qry[c].must : data'[y] = data[y] /\ index'[y] = index[y]
    BY <1>2, <2>1, <2>2
  <2> QED BY <2>1, <2>3, <2>4, OwedKept
<1> QED BY <1>2, <1>3 DEF OwedInv

\* A query that begins: what Puts have left is stored, and in the index.
LEMMA OwedBegin ==
    ASSUME Typed, WrittenInv, OwedInv, NEW p \in Clients, QueryAny(p)
    PROVE  OwedInv'
<1> TypeOK
  BY DEF Typed
<1>1. PICK kind \in Kinds, val \in Ints, cmp \in {-1, 1, Nil} : Begin(p, kind, val, cmp)
  BY QueryBegins
<1>2. PICK q \in Queries : /\ qry' = [qry EXCEPT ![p] = q]
                           /\ UNCHANGED <<store, put, puts, fails, last, bare>>
                           /\ q.left = Nodes /\ q.must = MustFind(q)
  BY <1>1, BeginTypes
<1>3. data' = data /\ index' = index
  BY <1>2 DEF store
<1>4. ASSUME NEW x \in q.must PROVE Holds(q, x, data, index) /\ Ahead(q, x)
  <2>1. /\ x \in Places /\ last[x] # Nil /\ Considers(q.kind, x[2])
        /\ q.kind = "v2" => "v2" \in last[x].flags
        /\ Wanted(q, last[x].val)
    BY <1>2, <1>4 DEF MustFind
  <2>2. last[x] \in Lasts /\ last[x].val # Nil
    BY <2>1, NilAssumption DEF TypeOK, Lasts, NilAssumption
  <2>3. data[x] = last[x].val /\ ("v2" \in last[x].flags => index[x] = last[x].val)
    BY <2>1 DEF WrittenInv, IndexedFirst
  <2>4. q.kind = "v2" => last[x].val = q.val
    BY <2>1 DEF Wanted
  <2>5. x[1] \in Nodes
    BY <2>1 DEF Places
  <2> QED BY <1>2, <2>1, <2>2, <2>3, <2>4, <2>5 DEF Holds, Ahead
<1>5. Owed(q, data, index)
  BY <1>4 DEF Owed
<1>6. \A c \in Clients : qry'[c] = IF c = p THEN q ELSE qry[c]
  BY <1>2 DEF TypeOK
<1> QED BY <1>3, <1>5, <1>6 DEF OwedInv

\* Turn by turn, what is still to find stays ahead or is found.
LEMMA AheadTurn ==
    ASSUME NEW p \in Clients, Typed, NEW q \in Queries, q = qry[p], q # Nil,
           NEW r \in Queries, Turn(p, r),
           NEW x \in Places, Holds(q, x, data, index), q.cut \/ Ahead(q, x)
    PROVE  r.cut \/ Ahead(r, x)
<1>0. /\ x[1] \in Nodes /\ x[2] \in Keys /\ x = <<x[1], x[2]>> /\ x[1] # Nil
      /\ data[x] # Nil /\ Wanted(q, data[x]) /\ Considers(q.kind, x[2])
      /\ q.kind = "v2" => index[x] = q.val
  BY NilAssumption DEF Places, Holds, NilAssumption
<1>00. /\ q.left \subseteq Nodes /\ q.todo \subseteq Keys /\ q.ret \in Hits /\ q.all \in Hits
       /\ q.due \subseteq Keys /\ q.kind \in Kinds
  BY DEF Queries
<1>1. CASE AskTurn(q, r)
  <2>1. PICK n \in q.left : q.node = Nil /\ r = Asked(q, n, {k \in Keys : data[<<n, k>>] # Nil})
    BY <1>1 DEF AskTurn
  <2> DEFINE due == {k \in Keys : data[<<n, k>>] # Nil}
  <2>2. due \in SUBSET Keys /\ n \in Nodes /\ (n = x[1] => x[2] \in due)
    BY <1>0, <1>00, <2>1
  <2>3. r = Asked(q, n, due)
    BY <2>1
  <2> HIDE DEF due
  <2>4. /\ r.cut = q.cut /\ r.left = q.left \ {n} /\ r.node = n /\ r.scanned = FALSE
        /\ r.due = due /\ r.all = q.all
    BY <2>3 DEF Asked, Queries
  <2> QED BY <1>0, <2>1, <2>2, <2>4 DEF Ahead
<1>2. CASE ScanTurn(q, r)
  <2>1. PICK batch \in SUBSET Keys, zero \in BOOLEAN :
        /\ Listing(q) /\ q.kind = "v1" /\ (zero => q.due \subseteq batch)
        /\ r = Scanned(q, batch, zero)
    BY <1>2 DEF ScanTurn
  <2>2. /\ SameQuestion(q, r) /\ r.cut = q.cut
        /\ r.left = q.left /\ r.node = q.node /\ r.scanned = zero /\ r.due = q.due \ batch
        /\ r.todo = batch /\ r.ret = q.ret /\ r.all = q.all
    BY <2>1 DEF Scanned, Queries, SameQuestion
  <2> QED BY <2>1, <2>2 DEF Ahead, Listing, SameQuestion
<1>3. CASE CutTurn(q, r)
  BY <1>3, CutType DEF CutTurn
<1>4. CASE ListTurn(q, r)
  <2> DEFINE todo == IF q.kind = "ore" THEN Present(q)
                     ELSE {k \in Keys : index[<<q.node, k>>] = q.val}
  <2>1. Listing(q) /\ q.kind # "v1" /\ r = Listed(q, todo) /\ todo \in SUBSET Keys
    BY <1>4 DEF ListTurn, Present
  <2>2. q.node = x[1] => x[2] \in todo
    BY <1>0, <1>00, <2>1 DEF Present, Kinds
  <2> HIDE DEF todo
  <2>3. /\ r.cut = q.cut /\ r.left = q.left /\ r.node = q.node /\ r.todo = todo
        /\ r.all = q.all
    BY <2>1, ListedType
  <2> QED BY <2>1, <2>2, <2>3 DEF Ahead
<1>5. CASE GetTurn(q, r)
  <2> DEFINE hit(k) == Considers(q.kind, k) /\ Hit(q, <<q.node, k>>)
  <2>1. PICK k \in q.todo :
          q.node # Nil /\ r = Got(q, k, HeldAfter(q, k), IF hit(k) THEN More(q, k) ELSE q.ret)
    BY <1>5 DEF GetTurn
  <2> DEFINE ret == IF hit(k) THEN More(q, k) ELSE q.ret
             held == HeldAfter(q, k)
  <2>2. q.ret.at \subseteq ret.at /\ (hit(k) => <<q.node, k>> \in ret.at)
    BY DEF More
  <2>3. q.node = x[1] /\ k = x[2] => hit(k)
    BY <1>0, <1>00 DEF Hit, Matches, Wanted, Kinds
  <2>4. r = Got(q, k, held, ret) /\ k \in Keys
    BY <1>00, <2>1
  <2> HIDE DEF ret, hit, held
  <2>5. /\ r.cut = q.cut /\ r.left = q.left /\ r.node = q.node /\ r.scanned = q.scanned
        /\ r.due = q.due /\ r.todo = q.todo \ {k} /\ r.ret = ret /\ r.all = q.all /\ r.kind = q.kind
    BY <2>4 DEF Got, Queries
  <2> QED BY <1>0, <2>2, <2>3, <2>5 DEF Ahead
<1>51. CASE MissTurn(q, r)
  <2>1. PICK k, ret : r = Missed(q, k, ret)
    BY <1>51 DEF MissTurn
  <2> QED BY <2>1 DEF Missed, Queries
<1>6. CASE AnswerTurn(q, r)
  <2> DEFINE all == [at |-> q.all.at \cup q.ret.at, num |-> q.all.num + q.ret.num]
  <2>1. q.node # Nil /\ q.scanned /\ q.todo = {} /\ r = Collected(q, all)
    BY <1>6 DEF AnswerTurn
  <2>2. all.at = q.all.at \cup q.ret.at
    OBVIOUS
  <2> HIDE DEF all
  <2>3. r.cut = q.cut /\ r.left = q.left /\ r.all = all
    BY <2>1 DEF Collected, Queries
  <2> QED BY <2>1, <2>2, <2>3 DEF Ahead
<1> QED BY <1>1, <1>2, <1>3, <1>4, <1>5, <1>51, <1>6 DEF Turn

LEMMA OwedTurn ==
    ASSUME Typed, OwedInv, NEW p \in Clients, QueryStep(p) \/ QueryThrows(p)
    PROVE  OwedInv'
<1> DEFINE q == qry[p]
<1>1. /\ q \in Queries /\ q # Nil /\ UNCHANGED <<store, put, puts, last, bare>>
      /\ \/ qry' = [qry EXCEPT ![p] = Nil]
         \/ \E r \in Queries : /\ Turn(p, r) /\ SameQuestion(q, r)
                               /\ qry' = [qry EXCEPT ![p] = r]
  BY QueryTurns
<1>2. data' = data /\ index' = index
  BY <1>1 DEF store
<1>3. qry \in [Clients -> Queries \cup {Nil}]
  BY DEF Typed, TypeOK
<1>4. ASSUME NEW r \in Queries, Turn(p, r), SameQuestion(q, r) PROVE Owed(r, data, index)
  <2>1. Owed(q, data, index) /\ q.must \subseteq Places /\ r.must = q.must
    BY <1>1, <1>4 DEF OwedInv, Queries, SameQuestion
  <2>2. ASSUME NEW x \in q.must PROVE Holds(r, x, data, index) /\ (r.cut \/ Ahead(r, x))
    <3>1. Holds(q, x, data, index) /\ (q.cut \/ Ahead(q, x)) /\ x \in Places
      BY <2>1, <2>2 DEF Owed
    <3>2. Holds(r, x, data, index)
      BY <1>4, <3>1 DEF Holds, Wanted, SameQuestion
    <3> HIDE DEF q
    <3>3. q = qry[p]
      BY DEF q
    <3> QED BY <1>1, <1>4, <3>1, <3>2, <3>3, AheadTurn
  <2> QED BY <2>1, <2>2 DEF Owed
<1>5. \A c \in Clients : qry'[c] = qry[c] \/ qry'[c] = Nil
                         \/ (qry'[c] \in Queries /\ Owed(qry'[c], data, index))
  <2>1. CASE qry' = [qry EXCEPT ![p] = Nil]
    <3>1. \A c \in Clients : qry'[c] = qry[c] \/ qry'[c] = Nil
      BY <1>3, <2>1
    <3> QED BY <3>1
  <2>2. CASE \E r \in Queries : /\ Turn(p, r) /\ SameQuestion(q, r)
                               /\ qry' = [qry EXCEPT ![p] = r]
    <3>1. PICK r \in Queries : Turn(p, r) /\ SameQuestion(q, r) /\ qry' = [qry EXCEPT ![p] = r]
      BY <2>2
    <3>2. Owed(r, data, index)
      BY <1>4, <3>1
    <3>3. \A c \in Clients : qry'[c] = qry[c] \/ qry'[c] = r
      BY <1>3, <3>1
    <3> QED BY <3>2, <3>3
  <2> QED BY <1>1, <2>1, <2>2
<1> QED BY <1>2, <1>5 DEF OwedInv

LEMMA OwedNext ==
    ASSUME Typed, AloneInv, WrittenInv, OwedInv, [Next]_vars
    PROVE  OwedInv'
<1> TypeOK
  BY DEF Typed
<1>1. ASSUME NEW p \in Clients, PutAny(p) PROVE OwedInv'
  <2>1. PICK key \in Keys, col \in Cols, v \in Values, flags \in FlagSets :
          PutPlainText(p, key, col, v, flags)
    BY <1>1 DEF PutAny
  <2>2. data' = data /\ index' = index /\ \E x \in Places : Disturb(x)
    BY <2>1, PutBegins DEF store
  <2> QED BY <2>2, OwedWrite
<1>2. ASSUME LateCommand PROVE OwedInv'
  <2>1. PICK c \in late : Execute(c.cmd, c.at, c.val) /\ Disturb(c.at)
    BY <1>2 DEF LateCommand
  <2>2. c.cmd \in Command /\ c.at \in Places /\ c.val \in Ints
    BY DEF TypeOK, LateCommands
  <2>3. \A y \in Places : y # c.at => data'[y] = data[y] /\ index'[y] = index[y]
    BY <2>1, <2>2, ExecuteTypes
  <2> QED BY <2>1, <2>2, <2>3, OwedWrite
<1>3. ASSUME data' = data, index' = index, qry' = qry PROVE OwedInv'
  BY <1>3 DEF OwedInv
<1>4. ASSUME NEW p \in Clients, SendThrows(p) \/ SendRefused(p) \/ PutReturn(p) PROVE OwedInv'
  BY <1>3, <1>4 DEF SendThrows, SendRefused, PutReturn, store
<1>5. ASSUME UNCHANGED vars PROVE OwedInv'
  BY <1>3, <1>5 DEF vars
<1> QED BY <1>1, <1>2, <1>4, <1>5, OwedSend, OwedBegin, OwedTurn DEF Next

LEMMA OwedAlways == Spec => [](Typed /\ OwedInv)
<1>1. Init => OwedInv
  BY DEF Init, OwedInv
<1>2. Typed /\ AloneInv /\ WrittenInv /\ OwedInv /\ [Next]_vars => OwedInv'
  BY OwedNext
<1> QED BY <1>1, <1>2, WrittenAlways, PTL DEF Spec

\* A query none of whose commands Redis refused has found every number that was
\* Put before it began and that nobody wrote over: however its proxies list
\* keys, whatever is written elsewhere meanwhile, and whatever was thrown or
\* refused in other calls (TProxy.cpp:363-390, 409-421; ClientCpp.cpp:308-334).
THEOREM QueriesComplete == Spec => []PlainComplete
<1>1. Typed /\ OwedInv => PlainComplete
  <2> SUFFICES ASSUME Typed, OwedInv, NEW p \in Clients, Finished(qry[p]), ~qry[p].cut,
                      NEW x \in qry[p].must
               PROVE  x \in qry[p].all.at
    BY DEF PlainComplete
  <2>1. qry[p] \in Queries /\ qry[p] # Nil /\ qry[p].left = {} /\ qry[p].node = Nil
    BY DEF Finished, Typed, TypeOK
  <2>2. x \in Places
    BY <2>1 DEF Queries
  <2>3. x[1] # Nil
    BY <2>2, NilAssumption DEF Places, NilAssumption
  <2>4. Ahead(qry[p], x)
    BY <2>1 DEF OwedInv, Owed
  <2> QED BY <2>1, <2>3, <2>4 DEF Ahead
<1> QED BY <1>1, OwedAlways, PTL

-----------------------------------------------------------------------------
(***************************************************************************)
(* What queries have counted.                                              *)
(***************************************************************************)
Targets(q, d, ix) == {x \in Places : /\ d[x] # Nil /\ Wanted(q, d[x]) /\ Considers(q.kind, x[2])
                                     /\ q.kind = "v2" => ix[x] = d[x]}
Passed(q, d, ix) == {x \in Targets(q, d, ix) : x[1] \notin q.left /\ x[1] # q.node}
Tested(q, d, ix) == {x \in Targets(q, d, ix) : x[1] = q.node /\ x[2] \notin q.todo}

Counted(q, d, ix) ==
    /\ q.node = Nil \/ ~q.scanned => q.todo = {} /\ q.ret.num = 0
    /\ q.node # Nil => q.node \notin q.left
    /\ q.all.num = Cardinality(Passed(q, d, ix))
    /\ q.node # Nil /\ q.scanned =>
         /\ q.ret.num = Cardinality(Tested(q, d, ix))
         /\ q.kind = "v2" => \A k \in q.todo : ix[<<q.node, k>>] = q.val
CountInv ==
    \A p \in Clients : qry[p] # Nil /\ qry[p].quiet /\ ~qry[p].cut /\ qry[p].kind # "v1" =>
        Counted(qry[p], data, index)

LEMMA FinitePlaces == IsFiniteSet(Places)
<1>1. IsFiniteSet(Nodes)
  <2>1. 0 \in Int /\ NodeNum - 1 \in Int
    BY RouterAssumption DEF RouterAssumption
  <2> QED BY <2>1, FS_Interval DEF Nodes
<1>2. IsFiniteSet(Keys)
  BY PlainAssumption DEF PlainAssumption
<1> QED BY <1>1, <1>2, FS_Product DEF Places

LEMMA FiniteTargets ==
    ASSUME NEW q, NEW d, NEW ix
    PROVE  /\ IsFiniteSet(Targets(q, d, ix)) /\ IsFiniteSet(Passed(q, d, ix))
           /\ IsFiniteSet(Tested(q, d, ix))
<1>1. /\ Targets(q, d, ix) \in SUBSET Places
      /\ Passed(q, d, ix) \in SUBSET Places /\ Tested(q, d, ix) \in SUBSET Places
  BY DEF Targets, Passed, Tested
<1> QED BY <1>1, FinitePlaces, FS_Subset

\* The same question has the same targets.
LEMMA SameTargets ==
    ASSUME NEW q, NEW r, SameQuestion(q, r), NEW d, NEW ix
    PROVE  Targets(r, d, ix) = Targets(q, d, ix)
BY DEF Targets, Wanted, SameQuestion

\* What a turn leaves when it changes neither the nodes nor what was read.
LEMMA SamePassed ==
    ASSUME NEW q, NEW r, SameQuestion(q, r), r.left = q.left, r.node = q.node, NEW d, NEW ix
    PROVE  Passed(r, d, ix) = Passed(q, d, ix)
BY SameTargets DEF Passed

LEMMA CountAsk ==
    ASSUME NEW q \in Queries, q.kind # "v1", Counted(q, data, index), NEW r, AskTurn(q, r)
    PROVE  Counted(r, data, index)
<1>1. PICK n \in q.left : q.node = Nil /\ r = Asked(q, n, {k \in Keys : data[<<n, k>>] # Nil})
  BY DEF AskTurn
<1> DEFINE due == {k \in Keys : data[<<n, k>>] # Nil}
<1>2. r = Asked(q, n, due)
  BY <1>1
<1>3. n \in Nodes
  BY DEF Queries
<1> HIDE DEF due
<1>4. /\ SameQuestion(q, r) /\ r.left = q.left \ {n} /\ r.node = n /\ r.scanned = FALSE
      /\ r.todo = q.todo /\ r.ret = q.ret /\ r.all = q.all
  BY <1>2 DEF Asked, Queries, SameQuestion
<1>5. Targets(r, data, index) = Targets(q, data, index)
  BY <1>4, SameTargets
<1>6. \A x \in Targets(q, data, index) : x[1] # Nil
  BY NilAssumption DEF Targets, Places, NilAssumption
<1>7. Passed(r, data, index) = Passed(q, data, index)
  BY <1>1, <1>4, <1>5, <1>6 DEF Passed
<1>8. q.todo = {} /\ q.ret.num = 0 /\ q.all.num = Cardinality(Passed(q, data, index))
  BY <1>1 DEF Counted
<1> QED BY <1>4, <1>7, <1>8 DEF Counted

LEMMA CountList ==
    ASSUME NEW q \in Queries, q.kind # "v1", Counted(q, data, index), NEW r, ListTurn(q, r)
    PROVE  Counted(r, data, index)
<1> DEFINE todo == IF q.kind = "ore" THEN Present(q)
                   ELSE {k \in Keys : index[<<q.node, k>>] = q.val}
<1>1. /\ q.node # Nil /\ ~q.scanned /\ q.todo = {} /\ r = Listed(q, todo)
  BY DEF ListTurn, Listing
<1>2. q.kind = "v2" => \A k \in todo : index[<<q.node, k>>] = q.val
  OBVIOUS
<1>3. \A x \in Targets(q, data, index) : x[1] = q.node => x[2] \in todo
  <2>1. TAKE x \in Targets(q, data, index)
  <2>2. /\ x[2] \in Keys /\ x = <<x[1], x[2]>> /\ data[x] # Nil /\ Wanted(q, data[x])
        /\ q.kind = "v2" => index[x] = data[x]
    BY <2>1 DEF Targets, Places
  <2>3. q.kind = "ore" \/ q.kind = "v2"
    BY DEF Queries, Kinds
  <2> QED BY <2>2, <2>3 DEF Present, Wanted
<1> HIDE DEF todo
<1>4. /\ SameQuestion(q, r) /\ r.left = q.left /\ r.node = q.node /\ r.scanned = TRUE
      /\ r.todo = todo /\ r.ret = q.ret /\ r.all = q.all
  BY <1>1 DEF Listed, Queries, SameQuestion
<1>5. Targets(r, data, index) = Targets(q, data, index)
  BY <1>4, SameTargets
<1>6. Passed(r, data, index) = Passed(q, data, index)
  BY <1>4, SamePassed
<1>7. Tested(r, data, index) = {}
  BY <1>3, <1>4, <1>5 DEF Tested
<1>8. Cardinality(Tested(r, data, index)) = 0
  BY <1>7, FS_EmptySet
<1>9. q.ret.num = 0 /\ q.node \notin q.left /\ q.all.num = Cardinality(Passed(q, data, index))
  BY <1>1 DEF Counted
<1>10. r.kind = q.kind /\ r.val = q.val
  BY <1>4 DEF SameQuestion
<1> QED BY <1>1, <1>2, <1>4, <1>6, <1>8, <1>9, <1>10 DEF Counted

\* A key read counts if it holds what is wanted, now and in the index.
LEMMA CountGet ==
    ASSUME NEW q \in Queries, q.kind # "v1", Counted(q, data, index), NEW r, GetTurn(q, r)
    PROVE  Counted(r, data, index)
<1> DEFINE hit(k) == Considers(q.kind, k) /\ Hit(q, <<q.node, k>>)
<1>1. PICK k \in q.todo :
        q.node # Nil /\ r = Got(q, k, HeldAfter(q, k), IF hit(k) THEN More(q, k) ELSE q.ret)
  BY DEF GetTurn
<1> DEFINE ret == IF hit(k) THEN More(q, k) ELSE q.ret
           held == HeldAfter(q, k)
           x == <<q.node, k>>
<1>2. /\ r = Got(q, k, held, ret)
      /\ ret.num = IF hit(k) THEN q.ret.num + 1 ELSE q.ret.num
  BY <1>1 DEF More
<1>3. /\ q.scanned /\ q.node \notin q.left /\ q.all.num = Cardinality(Passed(q, data, index))
      /\ q.ret.num = Cardinality(Tested(q, data, index))
      /\ q.kind = "v2" => \A j \in q.todo : index[<<q.node, j>>] = q.val
  BY <1>1 DEF Counted
<1>4. x \in Places /\ x[1] = q.node /\ x[2] = k
  BY <1>1 DEF Queries, Places
<1>5. hit(k) <=> x \in Targets(q, data, index)
  <2>1. q.kind = "ore" \/ q.kind = "v2"
    BY DEF Queries, Kinds
  <2>2. q.kind = "v2" => index[x] = q.val
    BY <1>1, <1>3
  <2>3. Matches(q, data[x]) <=> Wanted(q, data[x])
    BY <2>1 DEF Matches, Wanted
  <2>4. q.kind = "v2" => (Wanted(q, data[x]) <=> data[x] = q.val)
    BY DEF Wanted
  <2> QED BY <1>4, <2>2, <2>3, <2>4 DEF Hit, Targets
<1> HIDE DEF ret, hit, held, x
<1>6. /\ SameQuestion(q, r) /\ r.left = q.left /\ r.node = q.node /\ r.scanned = q.scanned
      /\ r.todo = q.todo \ {k} /\ r.ret = ret /\ r.all = q.all
  BY <1>2 DEF Got, Queries, SameQuestion
<1>7. Targets(r, data, index) = Targets(q, data, index)
  BY <1>6, SameTargets
<1>8. Passed(r, data, index) = Passed(q, data, index)
  BY <1>6, SamePassed
<1>9. \A y \in Targets(q, data, index) : y[1] = q.node /\ y[2] = k <=> y = x
  <2>1. \A y \in Targets(q, data, index) : y = <<y[1], y[2]>>
    BY DEF Targets, Places
  <2> QED BY <1>4, <2>1 DEF x
<1>10. x \notin Tested(q, data, index)
  BY <1>1, <1>4 DEF Tested
<1>11. ret.num = Cardinality(Tested(r, data, index))
  <2>1. CASE hit(k)
    <3>1. Tested(r, data, index) = Tested(q, data, index) \cup {x}
      BY <1>4, <1>5, <1>6, <1>7, <1>9, <2>1 DEF Tested
    <3>2. Cardinality(Tested(q, data, index) \cup {x}) = Cardinality(Tested(q, data, index)) + 1
      BY <1>10, FiniteTargets, FS_AddElement
    <3> QED BY <1>2, <1>3, <2>1, <3>1, <3>2
  <2>2. CASE ~hit(k)
    <3>1. Tested(r, data, index) = Tested(q, data, index)
      BY <1>5, <1>6, <1>7, <1>9, <2>2 DEF Tested
    <3> QED BY <1>2, <1>3, <2>2, <3>1
  <2> QED BY <2>1, <2>2
<1>12. r.kind = q.kind /\ r.val = q.val
  BY <1>6 DEF SameQuestion
<1> QED BY <1>1, <1>3, <1>6, <1>8, <1>11, <1>12 DEF Counted

\* What a proxy has counted is added when it answers.
LEMMA CountAnswer ==
    ASSUME NEW q \in Queries, q.kind # "v1", Counted(q, data, index), NEW r, AnswerTurn(q, r)
    PROVE  Counted(r, data, index)
<1> DEFINE all == [at |-> q.all.at \cup q.ret.at, num |-> q.all.num + q.ret.num]
           P == Passed(q, data, index)
           T == Tested(q, data, index)
<1>1. q.node # Nil /\ q.scanned /\ q.todo = {} /\ r = Collected(q, all)
  BY DEF AnswerTurn
<1>2. all.num = q.all.num + q.ret.num /\ NoHits.num = 0
  BY DEF NoHits
<1> HIDE DEF all
<1>3. /\ SameQuestion(q, r) /\ r.left = q.left /\ r.node = Nil
      /\ r.todo = q.todo /\ r.ret = NoHits /\ r.all = all
  BY <1>1 DEF Collected, Queries, SameQuestion
<1>4. /\ q.node \notin q.left /\ q.all.num = Cardinality(P) /\ q.ret.num = Cardinality(T)
  BY <1>1 DEF Counted
<1>5. Targets(r, data, index) = Targets(q, data, index)
  BY <1>3, SameTargets
<1>6. \A x \in Targets(q, data, index) : x[1] # Nil
  BY NilAssumption DEF Targets, Places, NilAssumption
<1>7. Passed(r, data, index) = P \cup T /\ P \cap T = {}
  BY <1>1, <1>3, <1>4, <1>5, <1>6 DEF Passed, Tested
<1>8. Cardinality(P \cup T) = Cardinality(P) + Cardinality(T)
  <2>1. IsFiniteSet(P) /\ IsFiniteSet(T)
    BY FiniteTargets
  <2>2. Cardinality(P \cup T) = Cardinality(P) + Cardinality(T) - Cardinality(P \cap T)
    BY <2>1, FS_Union
  <2>3. Cardinality(P \cap T) = 0
    BY <1>7, FS_EmptySet
  <2>4. Cardinality(P) \in Nat /\ Cardinality(T) \in Nat
    BY <2>1, FS_CardinalityType
  <2> HIDE DEF P, T
  <2> QED BY <2>2, <2>3, <2>4
<1> HIDE DEF P, T
<1> QED BY <1>1, <1>2, <1>3, <1>4, <1>7, <1>8 DEF Counted

LEMMA CountTurn ==
    ASSUME NEW p \in Clients, NEW q \in Queries, q = qry[p], q.kind # "v1",
           Counted(q, data, index), NEW r, Turn(p, r), ~r.cut
    PROVE  Counted(r, data, index)
<1>1. ~ScanTurn(q, r)
  BY DEF ScanTurn
<1>2. ~CutTurn(q, r)
  BY CutType DEF CutTurn
<1>3. ~MissTurn(q, r)
  <2>1. \A k, ret : Missed(q, k, ret).cut = TRUE
    BY DEF Missed, Queries
  <2> QED BY <2>1 DEF MissTurn
<1> QED BY <1>1, <1>2, <1>3, CountAsk, CountList, CountGet, CountAnswer DEF Turn

LEMMA CountQueries ==
    ASSUME Typed, CountInv, NEW p \in Clients, QueryStep(p) \/ QueryThrows(p)
    PROVE  CountInv'
<1> DEFINE q == qry[p]
<1>1. /\ q \in Queries /\ q # Nil /\ UNCHANGED <<store, put, puts, last, bare>>
      /\ \/ qry' = [qry EXCEPT ![p] = Nil]
         \/ \E r \in Queries : /\ Turn(p, r) /\ SameQuestion(q, r) /\ (q.cut => r.cut)
                               /\ qry' = [qry EXCEPT ![p] = r]
  BY QueryTurns
<1>2. data' = data /\ index' = index
  BY <1>1 DEF store
<1>3. qry \in [Clients -> Queries \cup {Nil}]
  BY DEF Typed, TypeOK
<1>4. CASE qry' = [qry EXCEPT ![p] = Nil]
  <2>1. \A c \in Clients : qry'[c] = qry[c] \/ qry'[c] = Nil
    BY <1>3, <1>4
  <2> QED BY <1>2, <2>1 DEF CountInv
<1>5. CASE \E r \in Queries : /\ Turn(p, r) /\ SameQuestion(q, r) /\ (q.cut => r.cut)
                             /\ qry' = [qry EXCEPT ![p] = r]
  <2>1. PICK r \in Queries : /\ Turn(p, r) /\ SameQuestion(q, r) /\ (q.cut => r.cut)
                             /\ qry' = [qry EXCEPT ![p] = r]
    BY <1>5
  <2>2. \A c \in Clients : qry'[c] = qry[c] \/ (c = p /\ qry'[c] = r)
    BY <1>3, <2>1
  <2>3. ASSUME r.quiet, ~r.cut, r.kind # "v1" PROVE Counted(r, data, index)
    <3>1. q.quiet /\ ~q.cut /\ q.kind # "v1"
      BY <2>1, <2>3 DEF SameQuestion
    <3>2. Counted(q, data, index)
      BY <1>1, <3>1 DEF CountInv
    <3> HIDE DEF q
    <3>3. q = qry[p]
      BY DEF q
    <3> QED BY <1>1, <2>1, <2>3, <3>1, <3>2, <3>3, CountTurn
  <2> QED BY <1>2, <2>2, <2>3 DEF CountInv
<1> QED BY <1>1, <1>4, <1>5

LEMMA CountBegin ==
    ASSUME Typed, CountInv, NEW p \in Clients, QueryAny(p)
    PROVE  CountInv'
<1>1. TypeOK /\ qry \in [Clients -> Queries \cup {Nil}]
  BY DEF Typed, TypeOK
<1>2. PICK kind \in Kinds, val \in Ints, cmp \in {-1, 1, Nil} : Begin(p, kind, val, cmp)
  BY <1>1, QueryBegins
<1>3. PICK q \in Queries :
        /\ qry' = [qry EXCEPT ![p] = q] /\ UNCHANGED <<store, put, puts, fails, last, bare>>
        /\ q.left = Nodes /\ q.node = Nil /\ q.todo = {} /\ q.ret.num = 0 /\ q.all.num = 0
  BY <1>1, <1>2, BeginTypes
<1>4. Passed(q, data, index) = {}
  BY <1>3 DEF Passed, Targets, Places
<1>5. Cardinality(Passed(q, data, index)) = 0
  BY <1>4, FS_EmptySet
<1>6. Counted(q, data, index)
  BY <1>3, <1>5 DEF Counted
<1>7. data' = data /\ index' = index
  BY <1>3 DEF store
<1>8. \A c \in Clients : qry'[c] = qry[c] \/ qry'[c] = q
  BY <1>1, <1>3
<1> QED BY <1>6, <1>7, <1>8 DEF CountInv

\* Nobody writes beside a quiet query.
LEMMA CountNext ==
    ASSUME Typed, AloneInv, CountInv, [Next]_vars
    PROVE  CountInv'
<1> TypeOK
  BY DEF Typed
<1>1. ASSUME NEW x \in Places, Disturb(x) PROVE CountInv'
  <2>1. ASSUME NEW c \in Clients, qry'[c] # Nil PROVE ~qry'[c].quiet
    <3>1. qry[c] \in Queries /\ qry'[c] = DisturbedQuery(qry[c], x)
      BY <1>1, <2>1, DisturbTypes
    <3> QED BY <3>1, DisturbedType
  <2> QED BY <2>1 DEF CountInv
<1>2. ASSUME NEW p \in Clients, PutAny(p) PROVE CountInv'
  <2>1. PICK key \in Keys, col \in Cols, v \in Values, flags \in FlagSets :
          PutPlainText(p, key, col, v, flags)
    BY <1>2 DEF PutAny
  <2>2. \E x \in Places : Disturb(x)
    BY <2>1, PutBegins
  <2> QED BY <1>1, <2>2
<1>3. ASSUME LateCommand PROVE CountInv'
  <2>1. PICK c \in late : Disturb(c.at)
    BY <1>3 DEF LateCommand
  <2>2. c.at \in Places
    BY DEF TypeOK, LateCommands
  <2> QED BY <1>1, <2>1, <2>2
<1>4. ASSUME NEW p \in Clients, Send(p) PROVE CountInv'
  <2>1. put[p] # Nil /\ qry' = qry
    BY <1>4 DEF Send
  <2>2. \A c \in Clients : qry[c] # Nil => ~qry[c].quiet
    BY <2>1 DEF AloneInv, Still
  <2> QED BY <2>1, <2>2 DEF CountInv
<1>5. ASSUME data' = data, index' = index, qry' = qry PROVE CountInv'
  BY <1>5 DEF CountInv
<1>6. ASSUME NEW p \in Clients, SendThrows(p) \/ SendRefused(p) \/ PutReturn(p) PROVE CountInv'
  BY <1>5, <1>6 DEF SendThrows, SendRefused, PutReturn, store
<1>7. ASSUME UNCHANGED vars PROVE CountInv'
  BY <1>5, <1>7 DEF vars
<1> QED BY <1>2, <1>3, <1>4, <1>6, <1>7, CountBegin, CountQueries DEF Next

LEMMA CountAlways == Spec => [](Typed /\ CountInv)
<1>1. Init => CountInv
  BY DEF Init, CountInv
<1>2. Typed /\ AloneInv /\ CountInv /\ [Next]_vars => CountInv'
  BY CountNext
<1> QED BY <1>1, <1>2, AloneAlways, PTL DEF Spec

\* A range or a search through the sorted set that nobody writes beside counts
\* exactly the keys that hold what is wanted, over all proxies, if none of its
\* own commands is refused, whichever commands of Puts were lost, refused or
\* came late before (TProxy.cpp:409-421, 448-470).
THEOREM CountsExactly == Spec => []PlainExact
<1>1. Typed /\ CountInv => PlainExact
  <2> SUFFICES ASSUME Typed, CountInv, NEW p \in Clients, Finished(qry[p]), qry[p].quiet,
                      ~qry[p].cut, qry[p].kind # "v1"
               PROVE  qry[p].all.num = Cardinality(Targets(qry[p], data, index))
    BY DEF PlainExact, Targets
  <2>1. qry[p] # Nil /\ qry[p].left = {} /\ qry[p].node = Nil
    BY DEF Finished
  <2>2. qry[p].all.num = Cardinality(Passed(qry[p], data, index))
    BY <2>1 DEF CountInv, Counted
  <2>3. \A x \in Targets(qry[p], data, index) : x[1] # Nil
    BY NilAssumption DEF Targets, Places, NilAssumption
  <2>4. Passed(qry[p], data, index) = Targets(qry[p], data, index)
    BY <2>1, <2>3 DEF Passed
  <2> QED BY <2>2, <2>4
<1> QED BY <1>1, CountAlways, PTL
=============================================================================
