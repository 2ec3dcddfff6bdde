------------------------------- MODULE PlainKV -------------------------------
(***************************************************************************)
(* The plaintext baseline the encrypted store is compared with: the client *)
(* calls PutPlainText, SearchPlainText and RangeQueryPlainText and the     *)
(* proxy methods and Redis commands they use.                              *)
(*                                                                         *)
(* A Put stores a number under its key, routed as the encrypted record is; *)
(* under strategy II it first enters key and number into a sorted set.     *)
(* Queries ask the proxies one by one in a random order; a proxy lists     *)
(* keys (SCAN, ZRANGEBYSCORE or KEYS) and then reads each one, while other *)
(* clients write.                                                          *)
(*                                                                         *)
(* A call may throw, and Redis may refuse a command with an error reply,   *)
(* which throws nothing: a SET or ZADD whose reply is not read is taken    *)
(* for executed, a list becomes an empty one, and the text of the error is *)
(* taken for the value of a key.                                           *)
(*                                                                         *)
(* Abstracted: keys are members of a set with what isdigit says of them;   *)
(* decimal text is the number it denotes.  Redis keeps numbers under the   *)
(* keys of this baseline only, and never drops one.                        *)
(***************************************************************************)
EXTENDS SimConHash, Sequences, FiniteSets

CONSTANTS
    Clients,      \* ClientCpp objects, one thread each
    Writers,      \* the clients that Put; the others query
    Keys, Cols,
    DigitFirst,   \* keys that begin with a digit
    DigitKeys,    \* keys of digits only
    XorWord,      \* xor of the words of a record's trapdoor
    Bits,         \* width of an int, 32
    Values,       \* the uint32_t values stored and searched for
    Bounds,       \* the uint32_t bounds of ranges
    FlagSets,     \* the combinations of strategies a Put may ask for
    Nil,
    MaxPut,       \* bound on the Puts
    MaxFail,      \* bound on calls that throw and commands that Redis refuses
    MaxTurn       \* bound on the SCANs of one search

Flags == {"v1", "v2", "ore"}
Kinds == {"v1", "v2", "ore"}
IntMax == 2 ^ (Bits - 1) - 1
Ints == -(IntMax + 1) .. IntMax
Places == Nodes \X Keys

\* Commands, Puts and queries under way, and what a Put has left.
Command == {"SET", "ZADD"}
LateCommands == [cmd : Command, at : Places, val : Ints]
Puts == [at : Places, val : Ints, flags : SUBSET Flags, todo : Seq(Command), alone : BOOLEAN]
Lasts == [val : Ints, flags : SUBSET Flags]
Hits == [at : SUBSET Places, num : Nat]
Queries == [kind : Kinds, val : Ints, cmp : {-1, 1, Nil}, left : SUBSET Nodes,
            node : Nodes \cup {Nil}, scanned : BOOLEAN, turn : 0 .. MaxTurn,
            due : SUBSET Keys, todo : SUBSET Keys, held : Ints \cup {Nil},
            ret : Hits, all : Hits,
            must : SUBSET Places, cut : BOOLEAN, quiet : BOOLEAN]

ASSUME PlainAssumption ==
    /\ Writers \subseteq Clients
    /\ NodeNum <= 16  \* serverID[16]
    /\ IsFiniteSet(Keys) /\ DigitKeys \subseteq DigitFirst /\ DigitFirst \subseteq Keys
    /\ XorWord \in [Keys \X Cols -> Word]
    /\ Bits \in Nat \ {0} /\ IntMax \in Nat /\ Values \cup Bounds \subseteq 0 .. 2 * IntMax + 1
    /\ FlagSets \subseteq SUBSET Flags
    /\ MaxPut \in Nat /\ MaxFail \in Nat /\ MaxTurn \in Nat
ASSUME NilAssumption ==
    Nil \notin Ints /\ Nil \notin Nodes /\ Nil \notin Puts /\ Nil \notin Queries /\ Nil \notin Lasts

VARIABLES
    data,   \* Redis: the number under each key, by node
    index,  \* Redis: the score of each member of the sorted set "index", by node
    late,   \* commands whose caller was told of a failure, not executed
    put,    \* client: the Put it is executing, or Nil
    qry,    \* client and proxies: the query it is executing, or Nil
    puts, fails,  \* number of Puts begun and of failures so far
    last,   \* history: at each place what the last Put there, if it returned
            \* and no other is to come, has stored, or Nil
    bare    \* history: places where a Put has stored a number without having
            \* indexed it, or taken a refused ZADD for executed

store == <<data, index, late>>
vars == <<data, index, late, put, qry, puts, fails, last, bare>>

-----------------------------------------------------------------------------
\* Mutant: the number is written unsigned.
Unsigned(v) == v
\* *(int*)pVal
Signed(v) == IF v > IntMax THEN v - 2 * (IntMax + 1) ELSE v

Node(key, col) == Query(XorWord[<<key, col>>])

Init ==
    /\ data = [x \in Places |-> Nil]
    /\ index = [x \in Places |-> Nil]
    /\ late = {}
    /\ put = [p \in Clients |-> Nil]
    /\ qry = [p \in Clients |-> Nil]
    /\ puts = 0 /\ fails = 0
    /\ last = [x \in Places |-> Nil]
    /\ bare = {}

-----------------------------------------------------------------------------
(***************************************************************************)
(* PutPlainText: the commands it sends one after the other.                *)
(***************************************************************************)
\* Mutant: the number is stored before it is indexed, and not after.
DataFirst(flags) ==
    (IF "v1" \in flags THEN <<"SET">> ELSE <<>>)
    \o (IF "v2" \in flags THEN <<"SET", "ZADD">> ELSE <<>>)
    \o (IF "ore" \in flags THEN <<"SET">> ELSE <<>>)
Commands(flags) ==
    (IF "v1" \in flags THEN <<"SET">> ELSE <<>>)
    \o (IF "v2" \in flags THEN <<"ZADD", "SET">> ELSE <<>>)
    \o (IF "ore" \in flags THEN <<"SET">> ELSE <<>>)

\* For the properties: what is written at a place concerns the Puts and the
\* queries under way.
Disturb(x) ==
    /\ last' = [last EXCEPT ![x] = Nil]
    /\ qry' = [p \in Clients |->
                 IF qry[p] = Nil THEN Nil
                 ELSE [qry[p] EXCEPT !.must = @ \ {x}, !.quiet = FALSE]]
Disturbed(x) ==
    [p \in Clients |-> IF put[p] = Nil \/ put[p].at # x THEN put[p]
                       ELSE [put[p] EXCEPT !.alone = FALSE]]
Alone(x) ==
    /\ \A c \in late : c.at # x
    /\ \A p \in Clients : put[p] # Nil => put[p].at # x

PutPlainText(p, key, col, v, flags) ==
    LET x == <<Node(key, col), key>> IN
    /\ p \in Writers /\ put[p] = Nil /\ puts < MaxPut
    /\ put' = [Disturbed(x) EXCEPT ![p] =
                 [at |-> x, val |-> Signed(v), flags |-> flags,
                  todo |-> Commands(flags), alone |-> Alone(x)]]
    /\ puts' = puts + 1
    /\ Disturb(x)
    /\ bare' = IF flags = {"v2"} THEN bare ELSE bare \cup {x}
    /\ UNCHANGED <<store, fails>>

Execute(cmd, x, v) ==
    IF cmd = "SET" THEN data' = [data EXCEPT ![x] = v] /\ UNCHANGED index
                   ELSE index' = [index EXCEPT ![x] = v] /\ UNCHANGED data

\* ProxyPut, or RunCommand with a ZADD, answered.
Send(p) ==
    LET w == put[p] IN
    /\ w # Nil /\ w.todo # <<>>
    /\ Execute(Head(w.todo), w.at, w.val)
    /\ put' = [put EXCEPT ![p].todo = Tail(w.todo)]
    /\ UNCHANGED <<late, qry, puts, fails, last, bare>>

\* The call throws and leaves PutPlainText.  Its command is executed now,
\* later or never.
SendThrows(p) ==
    LET w == put[p] IN
    /\ w # Nil /\ w.todo # <<>> /\ fails < MaxFail
    /\ late' = late \cup {[cmd |-> Head(w.todo), at |-> w.at, val |-> w.val]}
    /\ put' = [put EXCEPT ![p] = Nil]
    /\ fails' = fails + 1
    /\ UNCHANGED <<data, index, qry, puts, last, bare>>

\* Redis refuses the command; its reply is not looked at.
SendRefused(p) ==
    LET w == put[p] IN
    /\ w # Nil /\ w.todo # <<>> /\ fails < MaxFail
    /\ put' = [put EXCEPT ![p].todo = Tail(w.todo), ![p].alone = FALSE]
    /\ bare' = IF Head(w.todo) = "ZADD" THEN bare \cup {w.at} ELSE bare
    /\ fails' = fails + 1
    /\ UNCHANGED <<store, qry, puts, last>>

LateCommand ==
    \E c \in late :
        /\ late' = late \ {c}
        /\ Execute(c.cmd, c.at, c.val)
        /\ put' = Disturbed(c.at)
        /\ Disturb(c.at)
        /\ UNCHANGED <<puts, fails, bare>>

PutReturn(p) ==
    LET w == put[p] IN
    /\ w # Nil /\ w.todo = <<>>
    /\ put' = [put EXCEPT ![p] = Nil]
    /\ last' = [last EXCEPT ![w.at] =
                  IF w.flags # {} /\ w.alone THEN [val |-> w.val, flags |-> w.flags]
                                                     ELSE Nil]
    /\ UNCHANGED <<store, qry, puts, fails, bare>>

-----------------------------------------------------------------------------
(***************************************************************************)
(* SearchPlainText and RangeQueryPlainText.                                *)
(***************************************************************************)
\* The keys a proxy takes for numbers (TProxy.cpp:374, 451).
Considers(kind, key) ==
    \/ kind = "v2"
    \/ kind = "v1" /\ key \in DigitFirst
    \/ kind = "ore" /\ key \in DigitKeys

Matches(q, n) ==
    IF q.kind = "ore" THEN IF q.cmp = 1 THEN n > q.val ELSE n < q.val ELSE n = q.val

\* What a query has to find: the meaning of the call, not the code.  A key
\* written without strategy II is not in the sorted set.
Wanted(q, n) ==
    \/ q.kind # "ore" /\ n = q.val
    \/ q.kind = "ore" /\ q.cmp = 1 /\ n > q.val
    \/ q.kind = "ore" /\ q.cmp # 1 /\ n < q.val
MustFind(q) ==
    {x \in Places : /\ last[x] # Nil /\ Considers(q.kind, x[2])
                    /\ q.kind = "v2" => "v2" \in last[x].flags
                    /\ Wanted(q, last[x].val)}

NoHits == [at |-> {}, num |-> 0]
Begin(p, kind, val, cmp) ==
    LET q == [kind |-> kind, val |-> val, cmp |-> cmp, left |-> Nodes, node |-> Nil,
              scanned |-> FALSE, turn |-> 0, due |-> {}, todo |-> {}, held |-> Nil,
              ret |-> NoHits, all |-> NoHits, must |-> {}, cut |-> FALSE,
              quiet |-> late = {} /\ \A w \in Clients : put[w] = Nil]
    IN /\ p \notin Writers /\ qry[p] = Nil
       /\ qry' = [qry EXCEPT ![p] = [q EXCEPT !.must = MustFind(q)]]
       /\ UNCHANGED <<store, put, puts, fails, last, bare>>

SearchPlainText(p, v, bIndexV2) == Begin(p, IF bIndexV2 THEN "v2" ELSE "v1", Signed(v), Nil)

\* The bound is sent as an unsigned number; std::stoi throws if it is no int
\* and the call fails at the first proxy.
RangeQueryPlainText(p, iCmp, uiVal) == uiVal <= IntMax /\ Begin(p, "ore", uiVal, iCmp)

Step(p, q) ==
    /\ qry' = [qry EXCEPT ![p] = q]
    /\ UNCHANGED <<store, put, puts, last, bare>>

\* The next proxy of the random sequence.
Ask(p, n) ==
    LET q == qry[p] IN
    /\ q # Nil /\ q.node = Nil /\ n \in q.left
    /\ Step(p, [q EXCEPT !.left = @ \ {n}, !.node = n, !.scanned = FALSE, !.turn = 0,
                         !.due = {k \in Keys : data[<<n, k>>] # Nil}])
    /\ UNCHANGED fails

Listing(q) == q # Nil /\ q.node # Nil /\ ~q.scanned /\ q.todo = {}
Present(q) == {k \in Keys : data[<<q.node, k>>] # Nil}

\* SCAN: some of the keys, some perhaps again; the cursor is 0 only after all
\* that were there when the scan began have been returned.
\* Mutant: the scan ends with its first answer.
OneScan(q, batch) == TRUE
AllScanned(q, batch) == q.due \subseteq batch
Scan(p) ==
    LET q == qry[p] IN
    /\ Listing(q) /\ q.kind = "v1" /\ q.turn < MaxTurn
    /\ \E batch \in SUBSET Present(q), zero \in BOOLEAN :
        /\ zero => AllScanned(q, batch)
        /\ q.turn = MaxTurn - 1 => zero
        /\ Step(p, [q EXCEPT !.due = @ \ batch, !.todo = batch, !.scanned = zero,
                             !.turn = @ + 1])
    /\ UNCHANGED fails

\* ZRANGEBYSCORE index val val, or KEYS *.
ListAll(p) ==
    LET q == qry[p] IN
    /\ Listing(q) /\ q.kind # "v1"
    /\ Step(p, [q EXCEPT !.scanned = TRUE,
                  !.todo = IF q.kind = "ore" THEN Present(q)
                           ELSE {k \in Keys : index[<<q.node, k>>] = q.val}])
    /\ UNCHANGED fails

\* An error becomes a list without elements: the listing ends.
ListRefused(p) ==
    LET q == qry[p] IN
    /\ Listing(q) /\ fails < MaxFail
    /\ Step(p, [q EXCEPT !.scanned = TRUE, !.cut = TRUE])
    /\ fails' = fails + 1

\* Mutant: the sorted set is trusted.
TrustIndex(q, x) == q.kind = "v2" \/ (data[x] # Nil /\ Matches(q, data[x]))
Hit(q, x) == data[x] # Nil /\ Matches(q, data[x])

\* PoolGet of a listed key, unless it is no number, and the test of its value.
GetKey(p, k) ==
    LET q == qry[p]  x == <<q.node, k>> IN
    /\ q # Nil /\ k \in q.todo
    /\ Step(p, [q EXCEPT !.todo = @ \ {k},
                  !.held = IF q.kind = "ore" /\ Considers(q.kind, k) THEN data[x] ELSE @,
                  !.ret = IF Considers(q.kind, k) /\ Hit(q, x)
                          THEN [at |-> q.ret.at \cup {x}, num |-> q.ret.num + 1]
                          ELSE q.ret])
    /\ UNCHANGED fails

\* The text of an error is no number a search asks for.  A range query reads
\* no number from it and tests once more the one it read last, or whatever val
\* holds before the first.
StillHeld(q, k) ==
    IF q.kind = "ore" /\ Considers(q.kind, k)
    THEN IF q.held = Nil THEN BOOLEAN ELSE {Matches(q, q.held)}
    ELSE {FALSE}
GetKeyRefused(p, k) ==
    LET q == qry[p] IN
    /\ q # Nil /\ k \in q.todo /\ fails < MaxFail
    /\ \E again \in StillHeld(q, k) :
        Step(p, [q EXCEPT !.todo = @ \ {k}, !.cut = TRUE,
                    !.ret = IF again THEN [q.ret EXCEPT !.num = @ + 1] ELSE @])
    /\ fails' = fails + 1

\* The proxy answers; the client collects, and the stub clears vecRet before
\* it reads the next answer into it.
Answer(p) ==
    LET q == qry[p] IN
    /\ q # Nil /\ q.node # Nil /\ q.scanned /\ q.todo = {}
    /\ Step(p, [q EXCEPT !.node = Nil, !.held = Nil, !.ret = NoHits,
                  !.all = [at |-> q.all.at \cup q.ret.at, num |-> q.all.num + q.ret.num]])
    /\ UNCHANGED fails

Finished(q) == q # Nil /\ q.left = {} /\ q.node = Nil

\* The count is returned, or a call throws and with it the whole query.
QueryReturn(p) == Finished(qry[p]) /\ Step(p, Nil) /\ UNCHANGED fails
QueryThrows(p) ==
    /\ qry[p] # Nil /\ fails < MaxFail
    /\ Step(p, Nil)
    /\ fails' = fails + 1

-----------------------------------------------------------------------------
PutAny(p) == \E key \in Keys, col \in Cols, v \in Values, flags \in FlagSets :
                 PutPlainText(p, key, col, v, flags)
QueryAny(p) == \/ \E v \in Values, b \in BOOLEAN : SearchPlainText(p, v, b)
               \/ \E v \in Bounds, iCmp \in {-1, 1} : RangeQueryPlainText(p, iCmp, v)
ProxyStep(p) == \/ Scan(p) \/ ListAll(p) \/ ListRefused(p)
                \/ \E k \in Keys : GetKey(p, k) \/ GetKeyRefused(p, k)
QueryStep(p) ==
    \/ \E n \in Nodes : Ask(p, n)
    \/ ProxyStep(p) \/ Answer(p) \/ QueryReturn(p)

Next ==
    \/ \E p \in Clients :
        \/ PutAny(p) \/ Send(p) \/ SendThrows(p) \/ SendRefused(p) \/ PutReturn(p)
        \/ QueryAny(p) \/ QueryStep(p) \/ QueryThrows(p)
    \/ LateCommand

Spec == Init /\ [][Next]_vars

-----------------------------------------------------------------------------
(***************************************************************************)
(* Properties.                                                             *)
(***************************************************************************)
TypeOK ==
    /\ data \in [Places -> Ints \cup {Nil}]
    /\ index \in [Places -> Ints \cup {Nil}]
    /\ late \subseteq LateCommands
    /\ put \in [Clients -> Puts \cup {Nil}]
    /\ qry \in [Clients -> Queries \cup {Nil}]
    /\ puts \in 0 .. MaxPut /\ fails \in 0 .. MaxFail
    /\ last \in [Places -> Lasts \cup {Nil}]
    /\ bare \subseteq Places

\* What a Put has stored before a query began, and no other Put disturbs, the
\* query finds, whatever other keys are written meanwhile and whatever failed
\* before, unless Redis refuses a command of the query itself; the code takes
\* such an answer for an empty one (ClientCpp.cpp:308-334, TProxy.cpp:363-390,
\* 409-421).
PlainComplete ==
    \A p \in Clients : Finished(qry[p]) /\ ~qry[p].cut =>
        qry[p].must \subseteq qry[p].all.at

\* A query counts nothing but what matches: one that no Put runs beside, and
\* none of whose commands is refused, returns, with strategy II and for ranges,
\* the number of keys that hold a wanted number, and the sorted set may lag
\* behind but not mislead it, whatever was refused or thrown before.
PlainExact ==
    \A p \in Clients :
        Finished(qry[p]) /\ qry[p].quiet /\ ~qry[p].cut /\ qry[p].kind # "v1" =>
        LET q == qry[p] IN
        q.all.num = Cardinality({x \in Places :
                                    /\ data[x] # Nil /\ Wanted(q, data[x])
                                    /\ Considers(q.kind, x[2])
                                    /\ q.kind = "v2" => index[x] = data[x]})

\* The number a key holds under strategy II is in the sorted set with it when
\* a Put has returned none of whose commands was refused, and also while it
\* writes for the first time: a reader that sees the number has it in the
\* index, unless a ZADD was taken for executed (ClientCpp.cpp:326-327).
IndexedFirst ==
    /\ \A x \in Places : last[x] # Nil =>
        /\ data[x] = last[x].val
        /\ "v2" \in last[x].flags => index[x] = last[x].val
    /\ \A x \in Places \ bare : data[x] # Nil => index[x] # Nil
=============================================================================
