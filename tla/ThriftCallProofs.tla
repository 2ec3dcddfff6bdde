-------------------------- MODULE ThriftCallProofs --------------------------
(***************************************************************************)
(* Proofs about ThriftCall, for any number of connections, calls, failures *)
(* and crashes: a call that returns has its own handler's answer, no       *)
(* handler runs twice, and the stubs implement RemoteCall.                 *)
(***************************************************************************)
EXTENDS ThriftCall, TLAPS

-----------------------------------------------------------------------------
(***************************************************************************)
(* The structs.  What the tables of ThriftStructs give a method by its     *)
(* name, and that the two copies of the generated code agree.              *)
(***************************************************************************)
ValuesOf(name) ==
    IF name = "ProxyGet" THEN ProxyGet_values
    ELSE IF name = "ProxyPut" THEN ProxyPut_values
    ELSE IF name = "ProxyGetColumn" THEN ProxyGetColumn_values
    ELSE IF name = "RunCommand" THEN RunCommand_values
    ELSE IF name \in {"OrderSearch", "OrderSearchPlainText"} THEN OrderSearch_values
    ELSE EqualSearch1_values

\* What is written and read for the arguments, on either side.
Params(name) ==
    IF name = "ProxyGet" THEN ProxyGet_args
    ELSE IF name = "ProxyPut" THEN ProxyPut_args
    ELSE IF name = "ProxyGetColumn" THEN ProxyGetColumn_args
    ELSE IF name = "RunCommand" THEN RunCommand_args
    ELSE IF name \in {"OrderSearch", "OrderSearchPlainText"} THEN OrderSearch_args
    ELSE EqualSearch1_args

\* What is written and read for the result, on either side.
Returns(name) ==
    IF name = "ProxyGet" THEN Success("T_STRING")
    ELSE IF name = "ProxyPut" THEN {} ELSE Success("T_LIST")

AnswersOf(name) ==
    IF name = "ProxyGet" THEN Blobs ELSE IF name = "ProxyPut" THEN {Void} ELSE Lists

\* The steps of the ten methods are the steps of one with their tables.
LEMMA SendOf ==
    ASSUME NEW c \in Clients, Send(c)
    PROVE  \E name \in processMap_ : \E s \in ValuesOf(name) : send(c, name, Params(name), s)
BY DEF Send, send_ProxyGet, send_ProxyPut, send_ProxyGetColumn, send_EqualSearch1,
       send_EqualSearch2, send_OrderSearch, send_RunCommand, send_EqualSearch1PlainText,
       send_EqualSearch2PlainText, send_OrderSearchPlainText, processMap_, ValuesOf, Params,
       ProxyGet_pargs, ProxyGet_args, ProxyPut_pargs, ProxyPut_args, ProxyGetColumn_pargs,
       ProxyGetColumn_args, EqualSearch1_pargs, EqualSearch1_args, EqualSearch2_pargs,
       EqualSearch2_values, EqualSearch1_values,
       OrderSearch_pargs, OrderSearch_args, OrderSearch_values, RunCommand_pargs,
       RunCommand_args, EqualSearch1PlainText_pargs, EqualSearch1PlainText_values,
       EqualSearch2PlainText_pargs, EqualSearch2PlainText_values,
       OrderSearchPlainText_pargs, OrderSearchPlainText_values

LEMMA ReceiveOf ==
    ASSUME NEW c \in Clients, Receive(c)
    PROVE  \E name \in processMap_ : recv(c, name, Returns(name))
BY DEF Receive, recv_ProxyGet, recv_ProxyPut, recv_ProxyGetColumn, recv_EqualSearch1,
       recv_EqualSearch2, recv_OrderSearch, recv_RunCommand, recv_EqualSearch1PlainText,
       recv_EqualSearch2PlainText, recv_OrderSearchPlainText, processMap_, Returns,
       ProxyGet_presult, ProxyPut_presult, ProxyGetColumn_presult, EqualSearch1_presult,
       EqualSearch2_presult, OrderSearch_presult, RunCommand_presult,
       EqualSearch1PlainText_presult, EqualSearch2PlainText_presult,
       OrderSearchPlainText_presult

LEMMA ProcessOf ==
    ASSUME NEW c \in Clients, Process(c)
    PROVE  \E name \in processMap_ :
               process(c, name, Params(name), Returns(name), AnswersOf(name))
BY DEF Process, process_ProxyGet, process_ProxyPut, process_ProxyGetColumn,
       process_EqualSearch1, process_EqualSearch2, process_OrderSearch, process_RunCommand,
       process_EqualSearch1PlainText, process_EqualSearch2PlainText,
       process_OrderSearchPlainText, processMap_, Params, Returns, AnswersOf,
       ProxyGet_result, ProxyPut_result, ProxyGetColumn_result, EqualSearch1_result,
       EqualSearch2_result, OrderSearch_result, RunCommand_result,
       EqualSearch1PlainText_result, EqualSearch2PlainText_result,
       OrderSearchPlainText_result,
       EqualSearch1_args, EqualSearch2_args, EqualSearch1PlainText_args,
       EqualSearch2PlainText_args, OrderSearch_args, OrderSearchPlainText_args

\* No two fields of a schema have the same member, or the same number and type.
Distinct(schema) ==
    \A f, g \in schema : f.name = g.name \/ (f.id = g.id /\ f.type = g.type) => f = g

\* What is written is read, if the same schema is used on both sides.
LEMMA ReadWrite ==
    ASSUME NEW schema, NEW s, Distinct(schema), s = [n \in Members(schema) |-> s[n]]
    PROVE  /\ Complete(schema, Write(schema, s))
           /\ Read(schema, Write(schema, s)) = s
<1> DEFINE x(f) == [id |-> f.id, type |-> f.type, val |-> s[f.name]]
           Chosen(n) == CHOOSE y \in Write(schema, s) :
                            \E f \in schema : f.name = n /\ Carries(y, f)
<1>1. \A f \in schema : x(f) \in Write(schema, s) /\ Carries(x(f), f)
  BY DEF Write, Carries
<1>2. Complete(schema, Write(schema, s))
  BY <1>1 DEF Complete
<1>3. ASSUME NEW n \in Members(schema) PROVE Chosen(n).val = s[n]
  <2>1. PICK f \in schema : f.name = n
    BY DEF Members
  <2>2. \E y \in Write(schema, s) : \E g \in schema : g.name = n /\ Carries(y, g)
    BY <1>1, <2>1
  <2>3. ASSUME NEW y \in Write(schema, s), NEW g \in schema, g.name = n, Carries(y, g)
        PROVE  y.val = s[n]
    <3>1. PICK h \in schema : y = x(h)
      BY DEF Write
    <3>2. h = g
      BY <2>3, <3>1 DEF Carries, Distinct
    <3> QED BY <2>3, <3>1, <3>2
  <2> QED BY <2>2, <2>3
<1>4. Read(schema, Write(schema, s)) = [n \in Members(schema) |-> s[n]]
  BY <1>3 DEF Read
<1> QED BY <1>2, <1>4

\* A handler reads the arguments its caller wrote.
LEMMA ArgumentsArrive ==
    ASSUME NEW name \in processMap_, NEW s \in ValuesOf(name)
    PROVE  /\ Complete(Params(name), Write(Params(name), s))
           /\ Read(Params(name), Write(Params(name), s)) = s
<1>1. Distinct(Params(name))
  BY DEF processMap_, Params, ProxyGet_args, ProxyPut_args, ProxyGetColumn_args,
         RunCommand_args, OrderSearch_args, EqualSearch1_args, Binaries, Field, Distinct
<1>2. s = [n \in Members(Params(name)) |-> s[n]]
  <2>1. CASE name = "ProxyGet"
    <3>1. Params(name) =
           {Field(1, "Trapdoor", "T_STRING")}
      BY <2>1 DEF Params, ProxyGet_args, Binaries
    <3>2. Members(Params(name)) = {"Trapdoor"}
      BY <3>1 DEF Field, Members
    <3>3. s = [n \in {"Trapdoor"} |-> s[n]]
      BY <2>1 DEF ValuesOf, ProxyGet_values
    <3> QED BY <3>2, <3>3
  <2>2. CASE name = "ProxyPut"
    <3>1. Params(name) =
           {Field(1, "Trapdoor", "T_STRING"), Field(2, "Val", "T_STRING"),
            Field(3, "IndexTrapdoor", "T_STRING"), Field(4, "IndexVal", "T_STRING")}
      BY <2>2 DEF Params, ProxyPut_args, Binaries
    <3>2. Members(Params(name)) = {"Trapdoor", "Val", "IndexTrapdoor", "IndexVal"}
      BY <3>1 DEF Field, Members
    <3>3. s = [n \in {"Trapdoor", "Val", "IndexTrapdoor", "IndexVal"} |-> s[n]]
      BY <2>2 DEF ValuesOf, ProxyPut_values
    <3> QED BY <3>2, <3>3
  <2>3. CASE name = "ProxyGetColumn"
    <3>1. Params(name) =
           {Field(1, "IndexTrapdoor", "T_STRING"), Field(2, "IndexMask", "T_STRING"),
            Field(3, "GetNum", "T_I32")}
      BY <2>3 DEF Params, ProxyGetColumn_args, Binaries
    <3>2. Members(Params(name)) = {"IndexTrapdoor", "IndexMask", "GetNum"}
      BY <3>1 DEF Field, Members
    <3>3. s = [n \in {"IndexTrapdoor", "IndexMask", "GetNum"} |-> s[n]]
      BY <2>3 DEF ValuesOf, ProxyGetColumn_values
    <3> QED BY <3>2, <3>3
  <2>4. CASE name = "RunCommand"
    <3>1. Members(Params(name)) = {"command"}
      BY <2>4 DEF Params, RunCommand_args, Field, Members
    <3>2. s = [n \in {"command"} |-> s[n]]
      BY <2>4 DEF ValuesOf, RunCommand_values
    <3> QED BY <3>1, <3>2
  <2>5. CASE name \in {"OrderSearch", "OrderSearchPlainText"}
    <3>1. Params(name) =
           {Field(1, "IndexTrapdoor", "T_STRING"), Field(2, "OrderLeft", "T_STRING")}
      BY <2>5 DEF Params, OrderSearch_args, Binaries
    <3>2. Members(Params(name)) = {"IndexTrapdoor", "OrderLeft"}
      BY <3>1 DEF Field, Members
    <3>3. s = [n \in {"IndexTrapdoor", "OrderLeft"} |-> s[n]]
      BY <2>5 DEF ValuesOf, OrderSearch_values
    <3> QED BY <3>2, <3>3
  <2>6. CASE name \in {"EqualSearch1", "EqualSearch2", "EqualSearch1PlainText",
                       "EqualSearch2PlainText"}
    <3>1. Params(name) =
           {Field(1, "IndexTrapdoor", "T_STRING"), Field(2, "IndexMask", "T_STRING")}
      BY <2>6 DEF Params, EqualSearch1_args, Binaries
    <3>2. Members(Params(name)) = {"IndexTrapdoor", "IndexMask"}
      BY <3>1 DEF Field, Members
    <3>3. s = [n \in {"IndexTrapdoor", "IndexMask"} |-> s[n]]
      BY <2>6 DEF ValuesOf, EqualSearch1_values
    <3> QED BY <3>2, <3>3
  <2> QED BY <2>1, <2>2, <2>3, <2>4, <2>5, <2>6 DEF processMap_
<1> QED BY <1>1, <1>2, ReadWrite

\* A caller reads the answer its handler wrote.
LEMMA AnswerArrives ==
    ASSUME NEW name \in processMap_, NEW a \in AnswersOf(name)
    PROVE  Result(Returns(name), Write(Returns(name), [success |-> a])) = a
<1>1. CASE name = "ProxyPut"
  BY <1>1 DEF Returns, AnswersOf, Result
<1>2. CASE name # "ProxyPut"
  <2> DEFINE r == Returns(name)  s == [success |-> a]
  <2>1. PICK type : r = {Field(0, "success", type)}
    BY <1>2 DEF Returns, Success
  <2>2. Distinct(r) /\ Members(r) = {"success"} /\ r # {}
    BY <2>1 DEF Distinct, Field, Members
  <2>3. s = [n \in Members(r) |-> s[n]]
    BY <2>2
  <2> HIDE DEF r, s
  <2>4. Complete(r, Write(r, s)) /\ Read(r, Write(r, s)) = s
    BY <2>2, <2>3, ReadWrite
  <2>5. Result(r, Write(r, s)) = s.success
    BY <2>2, <2>4 DEF Result
  <2> QED BY <2>5 DEF r, s
<1> QED BY <1>1, <1>2

\* Requests by the tables.
LEMMA RequestTypes ==
    /\ \A r \in Requests : /\ r.name \in processMap_ /\ r.name \in Methods
                           /\ r.args \in ValuesOf(r.name)
                           /\ r = [name |-> r.name, args |-> r.args]
    /\ \A name \in processMap_ \cap Methods : \A s \in ValuesOf(name) :
           [name |-> name, args |-> s] \in Requests
BY DEF Requests, Calls, processMap_, ValuesOf

\* The fields of what is written.
LEMMA ArgumentFields ==
    ASSUME NEW name \in processMap_, NEW s \in ValuesOf(name)
    PROVE  Write(Params(name), s) \subseteq Fields
<1> DEFINE Good(schema) == \A f \in schema :
                /\ f.id \in 0 .. 4 /\ f.type \in {"T_STRING", "T_I32", "T_LIST"}
                /\ s[f.name] \in Blobs \cup Nums \cup Lists
<1>1. CASE name = "ProxyGet"
  <2>1. Good(ProxyGet_args)
    BY <1>1 DEF ValuesOf, ProxyGet_values, ProxyGet_args, Binaries, Field
  <2> QED BY <1>1, <2>1 DEF Params, Write, Fields
<1>2. CASE name = "ProxyPut"
  <2>1. Good(ProxyPut_args)
    BY <1>2 DEF ValuesOf, ProxyPut_values, ProxyPut_args, Binaries, Field
  <2> QED BY <1>2, <2>1 DEF Params, Write, Fields
<1>3. CASE name = "ProxyGetColumn"
  <2>1. Good(ProxyGetColumn_args)
    BY <1>3 DEF ValuesOf, ProxyGetColumn_values, ProxyGetColumn_args, Binaries, Field
  <2> QED BY <1>3, <2>1 DEF Params, Write, Fields
<1>4. CASE name = "RunCommand"
  <2>1. Good(RunCommand_args)
    BY <1>4 DEF ValuesOf, RunCommand_values, RunCommand_args, Field
  <2> QED BY <1>4, <2>1 DEF Params, Write, Fields
<1>5. CASE name \in {"OrderSearch", "OrderSearchPlainText"}
  <2>1. Good(OrderSearch_args)
    BY <1>5 DEF ValuesOf, OrderSearch_values, OrderSearch_args, Binaries, Field
  <2> QED BY <1>5, <2>1 DEF Params, Write, Fields
<1>6. CASE name \in {"EqualSearch1", "EqualSearch2", "EqualSearch1PlainText",
                     "EqualSearch2PlainText"}
  <2>1. Good(EqualSearch1_args)
    BY <1>6 DEF ValuesOf, EqualSearch1_values, EqualSearch1_args, Binaries, Field
  <2> QED BY <1>6, <2>1 DEF Params, Write, Fields
<1> QED BY <1>1, <1>2, <1>3, <1>4, <1>5, <1>6 DEF processMap_

LEMMA AnswerFields ==
    ASSUME NEW name \in processMap_, NEW a \in AnswersOf(name)
    PROVE  Write(Returns(name), [success |-> a]) \subseteq Fields
BY DEF processMap_, AnswersOf, Returns, Success, Field, Write, Fields

LEMMA AnswerTypes ==
    ASSUME NEW name \in processMap_, NEW a \in AnswersOf(name)
    PROVE  a \in Answers /\ a # Nil /\ a # Failure
BY CallAssumption DEF CallAssumption, AnswersOf, Answers

-----------------------------------------------------------------------------
(***************************************************************************)
(* The inductive invariant, connection by connection.  At most one message *)
(* is on its way or worked on; it belongs to the call the client waits for *)
(* or, when the client has given up, to one whose reply nobody can read.   *)
(***************************************************************************)
Latest(c) == Len(asked[c])

\* A message that asks for a call that was made.
IsRequest(c, m) ==
    /\ m.type = "T_CALL" /\ m.id \in 1 .. Latest(c)
    /\ m.name = asked[c][m.id].name
    /\ m.fields = Write(Params(m.name), asked[c][m.id].args)
    /\ call[c] # Nil => m.id = Latest(c)

\* The handler for it has not run, or has been the last to run.
NotRun(c, m) == \A i \in DOMAIN ran[c] : ran[c][i].id < m.id
RunLast(c, id, a) ==
    ran[c] # <<>> /\ LastRan(c) = [id |-> id, answer |-> a, request |-> asked[c][id]]

ReplyTo(name, id, a) ==
    IF a = Failure THEN Message("T_EXCEPTION", name, {}, id)
    ELSE Message("T_REPLY", name, Write(Returns(name), [success |-> a]), id)

Busy(c) == IF srv[c] = Nil THEN 0 ELSE 1
OneMessage(c) ==
    /\ Len(req[c]) + Len(rep[c]) + Busy(c) <= 1
    /\ link[c] => Len(req[c]) + Len(rep[c]) + Busy(c) = IF call[c] = Nil THEN 0 ELSE 1

\* Only a call that threw leaves something behind.
Settled(c) ==
    call[c] = Nil /\ out[c] # Failure => req[c] = <<>> /\ rep[c] = <<>> /\ srv[c] = Nil

Called(c) ==
    call[c] # Nil => asked[c] # <<>> /\ call[c] = asked[c][Latest(c)] /\ out[c] = Nil
Requested(c) ==
    \A i \in DOMAIN req[c] : IsRequest(c, req[c][i]) /\ NotRun(c, req[c][i])
Served(c) ==
    srv[c] # Nil =>
        LET m == srv[c].msg IN
        /\ IsRequest(c, m)
        /\ srv[c].ans = Nil => NotRun(c, m)
        /\ srv[c].ans # Nil => /\ srv[c].ans \in AnswersOf(m.name) \cup {Failure}
                               /\ RunLast(c, m.id, srv[c].ans)
Replied(c) ==
    \A i \in DOMAIN rep[c] :
        /\ call[c] # Nil
        /\ \E a \in AnswersOf(call[c].name) \cup {Failure} :
             /\ RunLast(c, Latest(c), a)
             /\ rep[c][i] = ReplyTo(call[c].name, Latest(c), a)
RanOnce(c) ==
    \A i \in 1 .. Len(ran[c]) :
        /\ ran[c][i].id \in 1 .. Latest(c)
        /\ ran[c][i].request = asked[c][ran[c][i].id]
        /\ \A j \in 1 .. i - 1 : ran[c][j].id < ran[c][i].id
Returned(c) ==
    call[c] = Nil /\ out[c] \notin {Nil, Failure} =>
        asked[c] # <<>> /\ RunLast(c, Latest(c), out[c])
Thrown(c) == out[c] = Failure /\ link[c] => asked[c] # <<>> /\ RunLast(c, Latest(c), Failure)

Conn(c) ==
    /\ Len(asked[c]) <= MaxCalls
    /\ OneMessage(c) /\ Settled(c) /\ Called(c) /\ Requested(c) /\ Served(c)
    /\ Replied(c) /\ RanOnce(c) /\ Returned(c) /\ Thrown(c)
CallInv == TypeOK /\ \A c \in Clients : Conn(c)

Same(d) ==
    /\ call'[d] = call[d] /\ out'[d] = out[d] /\ req'[d] = req[d] /\ rep'[d] = rep[d]
    /\ link'[d] = link[d] /\ srv'[d] = srv[d] /\ asked'[d] = asked[d] /\ ran'[d] = ran[d]

\* What holds of a connection holds on while nothing happens on it.
LEMMA ConnStays ==
    ASSUME NEW d \in Clients, Conn(d), Same(d)
    PROVE  Conn(d)'
<1>1. OneMessage(d)' /\ Settled(d)' /\ Called(d)' /\ Returned(d)' /\ Thrown(d)'
  BY DEF Conn, Same, OneMessage, Settled, Busy, Called, Latest, Returned, Thrown, RunLast, LastRan
<1>2. Requested(d)' /\ Served(d)'
  BY DEF Conn, Same, Requested, Served, IsRequest, NotRun, RunLast, Latest, LastRan
<1>3. Replied(d)' /\ RanOnce(d)'
  BY DEF Conn, Same, Replied, RanOnce, RunLast, Latest, LastRan
<1> QED BY <1>1, <1>2, <1>3 DEF Conn, Same

LEMMA EmptySeq == ASSUME NEW S, NEW q \in Seq(S), Len(q) = 0 PROVE q = <<>>
OBVIOUS

\* Between calls a working connection is empty.
LEMMA IdleConnection ==
    ASSUME TypeOK, NEW c \in Clients, OneMessage(c), link[c], call[c] = Nil
    PROVE  req[c] = <<>> /\ rep[c] = <<>> /\ srv[c] = Nil
<1>1. req[c] \in Seq(Messages) /\ rep[c] \in Seq(Messages)
  BY DEF TypeOK
<1>2. Len(req[c]) = 0 /\ Len(rep[c]) = 0 /\ Busy(c) = 0
  <2>1. Len(req[c]) + Len(rep[c]) + Busy(c) = 0
    BY DEF OneMessage
  <2>2. Busy(c) \in Nat /\ Len(req[c]) \in Nat /\ Len(rep[c]) \in Nat
    BY <1>1 DEF Busy
  <2> HIDE DEF Busy
  <2>3. \A i, j, k \in Nat : i + j + k = 0 => i = 0 /\ j = 0 /\ k = 0
    OBVIOUS
  <2> QED BY <2>1, <2>2, <2>3
<1> QED BY <1>1, <1>2, EmptySeq DEF Busy

LEMMA SendStep ==
    ASSUME CallInv, NEW c \in Clients, NEW name \in processMap_, NEW s \in ValuesOf(name),
           send(c, name, Params(name), s)
    PROVE  TypeOK' /\ Conn(c)' /\ \A d \in Clients \ {c} : Same(d)
<1>n. PICK n : n = Len(asked[c]) + 1
  OBVIOUS
<1> DEFINE r == [name |-> name, args |-> s]
           m == Message("T_CALL", name, Write(Params(name), s), n)
<1>1. /\ TypeOK /\ Conn(c) /\ call[c] = Nil /\ Len(asked[c]) < MaxCalls
      /\ asked' = [asked EXCEPT ![c] = Append(asked[c], r)]
      /\ rep' = rep /\ link' = link /\ srv' = srv /\ ran' = ran
  BY DEF CallInv, send
<1>2. r \in Requests /\ r # Nil
  BY RequestTypes, NilAssumption DEF NilAssumption, send
<1>3. asked[c] \in Seq(Requests) /\ n \in 1 .. MaxCalls /\ MaxCalls \in Nat
  BY <1>n, <1>1, CallAssumption DEF TypeOK, CallAssumption
<1>4. m \in Messages
  BY <1>3, ArgumentFields DEF Message, Messages, send
<1>5. /\ asked'[c] = Append(asked[c], r) /\ Len(asked'[c]) = n /\ asked'[c][n] = r
      /\ \A i \in 1 .. n - 1 : asked'[c][i] = asked[c][i]
  BY <1>n, <1>1, <1>2, <1>3 DEF TypeOK
<1> HIDE DEF r, m
<1>6. RanOnce(c)' /\ (\A i \in DOMAIN ran[c] : ran[c][i].id < n)
  <2>1. ran[c] \in Seq(Runs)
    BY <1>1 DEF TypeOK
  <2>r. RanOnce(c) /\ Latest(c) = n - 1 /\ n \in Nat
    BY <1>n, <1>1, <1>3 DEF Conn, Latest
  <2>2. \A i \in 1 .. Len(ran[c]) : ran[c][i].id \in 1 .. n - 1
    BY <2>r DEF RanOnce
  <2>3. RanOnce(c)'
    <3>1. \A i \in 1 .. Len(ran[c]) :
            /\ ran[c][i].request = asked'[c][ran[c][i].id]
            /\ ran[c][i].id \in 1 .. n
            /\ \A j \in 1 .. i - 1 : ran[c][j].id < ran[c][i].id
      <4>1. ASSUME NEW i \in 1 .. Len(ran[c])
            PROVE  ran[c][i].request = asked'[c][ran[c][i].id] /\ ran[c][i].id \in 1 .. n
        <5>1. ran[c][i].id \in 1 .. n - 1 /\ ran[c][i].request = asked[c][ran[c][i].id]
          BY <2>r, <2>2 DEF RanOnce
        <5> QED BY <1>5, <2>r, <5>1
      <4>2. \A i \in 1 .. Len(ran[c]) : \A j \in 1 .. i - 1 : ran[c][j].id < ran[c][i].id
        BY <2>r DEF RanOnce
      <4> QED BY <4>1, <4>2
    <3> QED BY <1>1, <1>5, <3>1 DEF RanOnce, Latest
  <2>4. \A i \in DOMAIN ran[c] : ran[c][i].id < n
    BY <1>3, <2>1, <2>2
  <2> QED BY <2>3, <2>4
<1>7. CASE link[c]
  <2>1. /\ call' = [call EXCEPT ![c] = r] /\ out' = [out EXCEPT ![c] = Nil]
        /\ req' = [req EXCEPT ![c] = Append(req[c], m)]
    BY <1>n, <1>7 DEF send, r, m
  <2>2. req[c] \in Seq(Messages) /\ rep[c] \in Seq(Messages)
    BY <1>1 DEF TypeOK
  <2>3. req[c] = <<>> /\ rep[c] = <<>> /\ srv[c] = Nil
    BY <1>1, <1>7, IdleConnection DEF Conn
  <2>4. TypeOK'
    BY <1>1, <1>2, <1>3, <1>4, <2>1 DEF TypeOK
  <2>5. req'[c] = <<m>> /\ call'[c] = r /\ out'[c] = Nil
    BY <1>1, <1>4, <2>1, <2>3 DEF TypeOK
  <2>6. OneMessage(c)' /\ Called(c)' /\ Served(c)' /\ Replied(c)'
    BY <1>1, <1>2, <1>3, <1>5, <2>3, <2>5 DEF OneMessage, Busy, Called, Latest, Served, Replied
  <2>7. IsRequest(c, m)' /\ NotRun(c, m)'
    BY <1>1, <1>3, <1>5, <1>6 DEF IsRequest, NotRun, Latest, m, Message, r
  <2>8. Requested(c)'
    BY <2>5, <2>7 DEF Requested, IsRequest, NotRun, Latest
  <2>9. Settled(c)' /\ Returned(c)' /\ Thrown(c)'
    BY <1>2, <2>5, CallAssumption DEF CallAssumption, Settled, Returned, Thrown
  <2> QED BY <1>1, <1>3, <1>5, <1>6, <2>1, <2>4, <2>6, <2>8, <2>9 DEF Conn, Same, TypeOK
<1>8. CASE ~link[c]
  <2>1. call' = call /\ req' = req /\ out' = [out EXCEPT ![c] = Failure]
    BY <1>8 DEF send
  <2>2. TypeOK'
    BY <1>1, <1>2, <1>3, <2>1 DEF TypeOK
  <2>3. out'[c] = Failure
    BY <1>1, <2>1 DEF TypeOK
  <2>4. /\ OneMessage(c)' /\ Settled(c)' /\ Called(c)' /\ Replied(c)'
        /\ Returned(c)' /\ Thrown(c)'
    BY <1>1, <1>8, <2>1, <2>3
    DEF Conn, OneMessage, Settled, Busy, Called, Replied, Returned, Thrown
  <2>5. ASSUME NEW x, IsRequest(c, x) PROVE IsRequest(c, x)'
    BY <1>n, <1>1, <1>3, <1>5, <2>1, <2>5 DEF IsRequest, Latest
  <2>6. Requested(c)'
    BY <1>1, <2>1, <2>5 DEF Conn, Requested, NotRun
  <2>7. Served(c)'
    BY <1>n, <1>1, <1>3, <1>5, <2>1, <2>5 DEF Conn, Served, NotRun, RunLast, LastRan, IsRequest, Latest
  <2> QED BY <1>1, <1>3, <1>5, <1>6, <2>1, <2>2, <2>4, <2>6, <2>7 DEF Conn, Same, TypeOK
<1> QED BY <1>7, <1>8

LEMMA Single ==
    ASSUME NEW S, NEW q \in Seq(S), Len(q) = 1
    PROVE  q # <<>> /\ Head(q) = q[1] /\ q[1] \in S /\ Tail(q) = <<>> /\ DOMAIN q = {1}
<1>1. q # <<>> /\ Head(q) = q[1] /\ q[1] \in S /\ DOMAIN q = {1}
  OBVIOUS
<1>2. Tail(q) \in Seq(S) /\ Len(Tail(q)) = 0
  BY <1>1
<1> QED BY <1>1, <1>2, EmptySeq

\* What is on a connection is alone there.
LEMMA Alone ==
    ASSUME TypeOK, NEW c \in Clients, OneMessage(c)
    PROVE  /\ req[c] # <<>> => Len(req[c]) = 1 /\ rep[c] = <<>> /\ srv[c] = Nil
           /\ rep[c] # <<>> => Len(rep[c]) = 1 /\ req[c] = <<>> /\ srv[c] = Nil
           /\ srv[c] # Nil => req[c] = <<>> /\ rep[c] = <<>>
<1>1. req[c] \in Seq(Messages) /\ rep[c] \in Seq(Messages)
  BY DEF TypeOK
<1>2. /\ Len(req[c]) \in Nat /\ Len(rep[c]) \in Nat /\ Busy(c) \in Nat
      /\ Len(req[c]) + Len(rep[c]) + Busy(c) <= 1
  <2>1. Len(req[c]) + Len(rep[c]) + Busy(c) <= 1
    BY DEF OneMessage
  <2>2. Len(req[c]) \in Nat /\ Len(rep[c]) \in Nat /\ Busy(c) \in Nat
    BY <1>1 DEF Busy
  <2> QED BY <2>1, <2>2
<1>3. \A i, j, k \in Nat : i + j + k <= 1 =>
         /\ i # 0 => i = 1 /\ j = 0 /\ k = 0
         /\ j # 0 => j = 1 /\ i = 0 /\ k = 0
         /\ k # 0 => i = 0 /\ j = 0
  OBVIOUS
<1>4. /\ req[c] = <<>> <=> Len(req[c]) = 0
      /\ rep[c] = <<>> <=> Len(rep[c]) = 0
      /\ srv[c] = Nil <=> Busy(c) = 0
  BY <1>1, EmptySeq DEF Busy
<1> HIDE DEF Busy
<1> QED BY <1>2, <1>3, <1>4

LEMMA ReceiveStep ==
    ASSUME CallInv, NEW c \in Clients, NEW name \in processMap_, recv(c, name, Returns(name))
    PROVE  /\ TypeOK' /\ Conn(c)' /\ \A d \in Clients \ {c} : Same(d)
           /\ call[c] # Nil /\ Ends(c, out'[c]) /\ UNCHANGED <<req, srv, asked, ran>>
           /\ out'[c] # Failure => RunLast(c, Latest(c), out'[c])
           /\ out'[c] \in Answers \cup {Failure}
<1>1. /\ TypeOK /\ Conn(c) /\ call[c] # Nil /\ call[c].name = name
      /\ req' = req /\ link' = link /\ srv' = srv /\ asked' = asked /\ ran' = ran
  BY DEF CallInv, recv
<1>2. asked[c] # <<>> /\ req[c] \in Seq(Messages) /\ rep[c] \in Seq(Messages)
  BY <1>1 DEF Conn, Called, TypeOK
<1>3. RanOnce(c)' /\ Len(asked'[c]) <= MaxCalls
  BY <1>1 DEF Conn, RanOnce, Latest
<1>4. CASE rep[c] # <<>>
  <2> DEFINE m == Head(rep[c])
  <2>1. Len(rep[c]) = 1 /\ req[c] = <<>> /\ srv[c] = Nil
    BY <1>1, <1>4, Alone DEF Conn
  <2>2. m = rep[c][1] /\ DOMAIN rep[c] = {1} /\ Tail(rep[c]) = <<>>
    BY <1>2, <2>1, Single
  <2>3. PICK a \in AnswersOf(name) \cup {Failure} :
               RunLast(c, Latest(c), a) /\ m = ReplyTo(name, Latest(c), a)
    BY <1>1, <2>2 DEF Conn, Replied
  <2>4. Ends(c, a) /\ rep' = [rep EXCEPT ![c] = Tail(rep[c])]
    <3>1. /\ rep' = [rep EXCEPT ![c] = Tail(rep[c])]
          /\ IF m.type = "T_EXCEPTION" THEN Ends(c, Failure)
             ELSE IF m.type # "T_REPLY" \/ m.name # name THEN UNCHANGED <<call, out>>
             ELSE Ends(c, Result(Returns(name), m.fields))
      BY <1>4 DEF recv
    <3>2. CASE a = Failure
      <4>1. m.type = "T_EXCEPTION"
        BY <2>3, <3>2 DEF ReplyTo, Message
      <4> QED BY <3>1, <3>2, <4>1
    <3>3. CASE a # Failure
      <4>1. /\ m.type = "T_REPLY" /\ m.name = name
            /\ m.fields = Write(Returns(name), [success |-> a])
        BY <2>3, <3>3 DEF ReplyTo, Message
      <4>2. Result(Returns(name), m.fields) = a
        BY <2>3, <3>3, <4>1, AnswerArrives
      <4> QED BY <3>1, <4>1, <4>2
    <3> QED BY <3>2, <3>3
  <2>5. a \in Answers \cup {Failure} /\ a # Nil
    BY <2>3, AnswerTypes, CallAssumption DEF CallAssumption
  <2>6. call'[c] = Nil /\ out'[c] = a /\ rep'[c] = <<>>
    BY <1>1, <2>2, <2>4 DEF TypeOK, Ends
  <2>7. TypeOK'
    <3>1. Tail(rep[c]) \in Seq(Messages)
      BY <1>2, <1>4
    <3> QED BY <1>1, <2>4, <2>5, <3>1 DEF TypeOK, Ends
  <2>8. /\ OneMessage(c)' /\ Settled(c)' /\ Called(c)' /\ Requested(c)'
        /\ Served(c)' /\ Replied(c)'
    BY <1>1, <2>1, <2>6 DEF OneMessage, Settled, Busy, Called, Requested, Served, Replied
  <2>9. Returned(c)' /\ Thrown(c)'
    BY <1>1, <1>2, <2>3, <2>6 DEF Returned, Thrown, RunLast, LastRan, Latest
  <2>10. \A d \in Clients \ {c} : Same(d)
    BY <1>1, <2>4 DEF Same, Ends, TypeOK
  <2> QED BY <1>1, <1>3, <2>3, <2>4, <2>5, <2>6, <2>7, <2>8, <2>9, <2>10 DEF Conn
<1>5. CASE rep[c] = <<>>
  <2>1. ~link[c] /\ Ends(c, Failure) /\ rep' = rep
    BY <1>5 DEF recv
  <2>2. call'[c] = Nil /\ out'[c] = Failure
    BY <1>1, <2>1 DEF TypeOK, Ends
  <2>3. TypeOK'
    BY <1>1, <2>1 DEF TypeOK, Ends
  <2>4. /\ OneMessage(c)' /\ Settled(c)' /\ Called(c)' /\ Replied(c)'
        /\ Returned(c)' /\ Thrown(c)'
    <3>1. OneMessage(c)'
      BY <1>1, <2>1 DEF Conn, OneMessage, Busy
    <3> QED BY <1>1, <1>5, <2>1, <2>2, <3>1, CallAssumption
            DEF CallAssumption, Settled, Called, Replied, Returned, Thrown
  <2>5. Requested(c)' /\ Served(c)'
    BY <1>1, <2>1, <2>2
    DEF Conn, Requested, Served, IsRequest, NotRun, RunLast, LastRan, Latest
  <2>6. \A d \in Clients \ {c} : Same(d)
    BY <1>1, <2>1 DEF Same, Ends, TypeOK
  <2> QED BY <1>1, <1>3, <2>1, <2>2, <2>3, <2>4, <2>5, <2>6 DEF Conn
<1> QED BY <1>4, <1>5

LEMMA DispatchStep ==
    ASSUME CallInv, NEW c \in Clients, dispatchCall(c)
    PROVE  /\ TypeOK' /\ Conn(c)' /\ \A d \in Clients \ {c} : Same(d)
           /\ UNCHANGED <<call, out, asked, ran>>
           /\ Len(req[c]) = 1 /\ req'[c] = <<>>
           /\ srv'[c] = [msg |-> req[c][1], ans |-> Nil] /\ srv'[c] # Nil
<1>m. PICK m : m = req[c][1]
  OBVIOUS
<1>1. /\ TypeOK /\ Conn(c) /\ srv[c] = Nil /\ req[c] # <<>>
      /\ req' = [req EXCEPT ![c] = Tail(req[c])]
      /\ call' = call /\ out' = out /\ asked' = asked /\ link' = link /\ ran' = ran
  BY DEF CallInv, dispatchCall, clientVars
<1>2. Len(req[c]) = 1 /\ rep[c] = <<>> /\ req[c] \in Seq(Messages)
  BY <1>1, Alone DEF Conn, TypeOK
<1>3. /\ Head(req[c]) = m /\ m \in Messages /\ Tail(req[c]) = <<>>
      /\ IsRequest(c, m) /\ NotRun(c, m)
  BY <1>m, <1>1, <1>2, Single DEF Conn, Requested
<1>4. m.name \in processMap_
  <2>1. m.id \in DOMAIN asked[c] /\ asked[c] \in Seq(Requests)
    BY <1>1, <1>3 DEF IsRequest, Latest, TypeOK
  <2> QED BY <1>3, <2>1, RequestTypes DEF IsRequest
<1>5. srv' = [srv EXCEPT ![c] = [msg |-> m, ans |-> Nil]] /\ rep' = rep
  BY <1>3, <1>4 DEF dispatchCall
<1>6. [msg |-> m, ans |-> Nil] \in Working /\ [msg |-> m, ans |-> Nil] # Nil
  BY <1>3, NilAssumption DEF NilAssumption, Working
<1>7. TypeOK' /\ req'[c] = <<>> /\ srv'[c] = [msg |-> m, ans |-> Nil]
  BY <1>1, <1>3, <1>5, <1>6 DEF TypeOK
<1>8. OneMessage(c)'
  <2>1. Len(req'[c]) = 0 /\ Len(rep'[c]) = 0 /\ Busy(c)' = 1 /\ Busy(c) = 0
    BY <1>1, <1>2, <1>5, <1>6, <1>7 DEF Busy
  <2>2. link[c] => call[c] # Nil
    BY <1>1, IdleConnection DEF Conn
  <2>3. /\ Len(req'[c]) + Len(rep'[c]) + Busy(c)' = 1
        /\ Len(req'[c]) + Len(rep'[c]) + Busy(c)' <= 1
    BY <2>1
  <2>4. link'[c] => call'[c] # Nil
    BY <1>1, <2>2
  <2> QED BY <2>3, <2>4 DEF OneMessage
<1>9. /\ Settled(c)' /\ Called(c)' /\ Requested(c)' /\ Replied(c)'
      /\ Returned(c)' /\ Thrown(c)' /\ RanOnce(c)'
  BY <1>1, <1>2, <1>5, <1>7
  DEF Conn, Settled, Called, Requested, Replied, Returned, Thrown, RanOnce, RunLast, LastRan, Latest
<1>10. IsRequest(c, m)' /\ NotRun(c, m)'
  BY <1>1, <1>3 DEF IsRequest, NotRun, Latest
<1>11. Served(c)'
  BY <1>7, <1>10 DEF Served, IsRequest, NotRun, Latest
<1> QED BY <1>m, <1>1, <1>2, <1>5, <1>6, <1>7, <1>8, <1>9, <1>11 DEF Conn, Same, TypeOK

\* The handler for the message runs on the arguments of the call.
LEMMA RunStep ==
    ASSUME CallInv, NEW c \in Clients, NEW name \in processMap_, srv[c] # Nil,
           srv[c].msg.name = name, RunHandler(c, Params(name), AnswersOf(name))
    PROVE  /\ TypeOK' /\ Conn(c)' /\ \A d \in Clients \ {c} : Same(d)
           /\ UNCHANGED <<call, out, asked, req>> /\ req[c] = <<>>
           /\ srv[c].ans = Nil /\ srv'[c] # Nil /\ srv'[c].ans # Nil
           /\ \E a \in Answers \cup {Failure} :
                ran' = [ran EXCEPT ![c] = Append(@,
                    [id |-> srv[c].msg.id, answer |-> a,
                     request |-> asked[c][srv[c].msg.id]])]
<1>m. PICK m : m = srv[c].msg
  OBVIOUS
<1>1. /\ TypeOK /\ Conn(c) /\ srv[c].ans = Nil
      /\ call' = call /\ out' = out /\ asked' = asked /\ req' = req /\ rep' = rep
  BY DEF CallInv, RunHandler, clientVars
<1>2. /\ m \in Messages /\ m.name = name /\ IsRequest(c, m) /\ NotRun(c, m)
      /\ req[c] = <<>> /\ rep[c] = <<>>
  BY <1>m, <1>1, Alone DEF Conn, Served, TypeOK, Working
<1>3. PICK r \in Requests : r = asked[c][m.id]
  BY <1>1, <1>2 DEF IsRequest, Latest, TypeOK
<1>4. /\ r.name = name /\ r.args \in ValuesOf(name)
      /\ r = [name |-> name, args |-> r.args]
  BY <1>2, <1>3, RequestTypes DEF IsRequest
<1>5. Complete(Params(name), m.fields) /\ Read(Params(name), m.fields) = r.args
  BY <1>2, <1>3, <1>4, ArgumentsArrive DEF IsRequest
<1>6. PICK a \in AnswersOf(name) \cup {Failure} :
        /\ srv' = [srv EXCEPT ![c].ans = a]
        /\ ran' = [ran EXCEPT ![c] = Append(ran[c],
                       [id |-> m.id, answer |-> a, request |-> r])]
        /\ link' = link
  BY <1>m, <1>2, <1>4, <1>5 DEF RunHandler
<1> DEFINE n == Len(ran[c]) + 1
           run == [id |-> m.id, answer |-> a, request |-> r]
<1>7. a \in Answers \cup {Failure} /\ a # Nil
  BY <1>6, AnswerTypes, CallAssumption DEF CallAssumption
<1>8. run \in Runs /\ ran[c] \in Seq(Runs)
  BY <1>1, <1>2, <1>7 DEF Messages, Runs, TypeOK
<1>9. /\ ran'[c] = Append(ran[c], run) /\ Len(ran'[c]) = n /\ ran'[c][n] = run
      /\ \A i \in 1 .. n - 1 : ran'[c][i] = ran[c][i]
  BY <1>1, <1>6, <1>8 DEF TypeOK
<1>10. srv'[c] = [msg |-> m, ans |-> a] /\ srv'[c] # Nil /\ srv'[c] \in Working
  <2>1. srv[c] \in Working /\ srv[c] = [msg |-> m, ans |-> Nil]
    BY <1>m, <1>1 DEF TypeOK, Working
  <2>2. srv'[c] = [msg |-> m, ans |-> a]
    BY <1>1, <1>6, <2>1 DEF TypeOK
  <2>3. [msg |-> m, ans |-> a] \in Working
    BY <1>2, <1>7 DEF Working
  <2> QED BY <2>2, <2>3, NilAssumption DEF NilAssumption
<1>11. TypeOK'
  <2>1. srv' \in [Clients -> Working \cup {Nil}]
    BY <1>1, <1>6, <1>10 DEF TypeOK
  <2>2. ran' \in [Clients -> Seq(Runs)]
    BY <1>1, <1>6, <1>8 DEF TypeOK
  <2> QED BY <1>1, <1>6, <2>1, <2>2 DEF TypeOK
<1> HIDE DEF run
<1>12. RunLast(c, m.id, a)'
  <2>1. ran'[c] # <<>> /\ LastRan(c)' = run
    <3>1. n \in Nat /\ n # 0 /\ Len(ran'[c]) = n
      BY <1>8, <1>9
    <3>2. ran'[c] # <<>>
      BY <3>1
    <3> QED BY <1>9, <3>2 DEF LastRan
  <2> QED BY <1>1, <1>3, <2>1 DEF RunLast, run
<1>13. RanOnce(c)'
  <2>1. \A i \in 1 .. n - 1 : ran[c][i].id < m.id
    BY <1>2, <1>8 DEF NotRun
  <2>2. /\ m.id \in 1 .. Latest(c) /\ run.id = m.id
        /\ run.request = asked[c][m.id]
    BY <1>2, <1>3 DEF IsRequest, run
  <2>3. ASSUME NEW i \in 1 .. n
        PROVE  /\ ran'[c][i].id \in 1 .. Latest(c)
               /\ ran'[c][i].request = asked[c][ran'[c][i].id]
               /\ \A j \in 1 .. i - 1 : ran'[c][j].id < ran'[c][i].id
    <3>1. CASE i = n
      BY <1>8, <1>9, <2>1, <2>2, <3>1
    <3>2. CASE i # n
      <4>1. i \in 1 .. Len(ran[c]) /\ i \in 1 .. n - 1 /\ \A j \in 1 .. i - 1 : j \in 1 .. n - 1
        BY <1>8, <3>2
      <4> QED BY <1>1, <1>9, <4>1 DEF Conn, RanOnce
    <3> QED BY <3>1, <3>2
  <2> QED BY <1>1, <1>9, <2>3 DEF RanOnce, Latest
<1> HIDE DEF n
<1>14. IsRequest(c, m)'
  BY <1>1, <1>2 DEF IsRequest, Latest
<1>15. Served(c)'
  BY <1>2, <1>6, <1>7, <1>10, <1>12, <1>14 DEF Served, IsRequest, RunLast, LastRan, Latest
<1>16. OneMessage(c)'
  BY <1>1, <1>6, <1>10 DEF Conn, OneMessage, Busy
<1>17. Called(c)' /\ Requested(c)' /\ Replied(c)'
  BY <1>1, <1>2 DEF Conn, Called, Requested, Replied, Latest
<1>18. Settled(c)' /\ Returned(c)' /\ Thrown(c)'
  <2>1. link[c] => call[c] # Nil
    BY <1>1, IdleConnection DEF Conn
  <2>2. call[c] # Nil => out[c] = Nil
    BY <1>1 DEF Conn, Called
  <2>3. call[c] # Nil \/ out[c] = Failure
    BY <1>1 DEF Conn, Settled
  <2> QED BY <1>1, <1>6, <2>1, <2>2, <2>3, CallAssumption
          DEF CallAssumption, Settled, Returned, Thrown
<1>19. Conn(c)'
  BY <1>1, <1>13, <1>15, <1>16, <1>17, <1>18 DEF Conn
<1>20. \A d \in Clients \ {c} : Same(d)
  BY <1>1, <1>6 DEF Same, TypeOK
<1>21. srv'[c] # Nil /\ srv'[c].ans # Nil
  BY <1>7, <1>10
<1>22. ran' = [ran EXCEPT ![c] = Append(@, [id |-> srv[c].msg.id, answer |-> a,
                                           request |-> asked[c][srv[c].msg.id]])]
  BY <1>m, <1>3, <1>6
<1> QED BY <1>1, <1>2, <1>7, <1>11, <1>19, <1>20, <1>21, <1>22

\* The reply is the one to the call the client waits for, if anybody reads it.
LEMMA WriteReplyStep ==
    ASSUME CallInv, NEW c \in Clients, NEW name \in processMap_, srv[c] # Nil,
           srv[c].msg.name = name, WriteReply(c, Returns(name))
    PROVE  /\ TypeOK' /\ Conn(c)' /\ \A d \in Clients \ {c} : Same(d)
           /\ UNCHANGED <<call, out, asked, req, ran>>
           /\ srv[c].ans # Nil /\ srv'[c] = Nil
<1>m. PICK m, a : m = srv[c].msg /\ a = srv[c].ans
  OBVIOUS
<1>1. /\ TypeOK /\ Conn(c) /\ a # Nil /\ srv' = [srv EXCEPT ![c] = Nil]
      /\ call' = call /\ out' = out /\ asked' = asked /\ req' = req /\ link' = link /\ ran' = ran
  BY <1>m DEF CallInv, WriteReply, clientVars
<1>2. /\ m \in Messages /\ m.name = name /\ IsRequest(c, m) /\ RunLast(c, m.id, a)
      /\ a \in AnswersOf(name) \cup {Failure} /\ req[c] = <<>> /\ rep[c] = <<>>
  BY <1>m, <1>1, Alone DEF Conn, Served, TypeOK, Working
<1> DEFINE reply == ReplyTo(name, m.id, a)
<1>3. reply \in Messages
  <2>1. name \in Methods /\ m.id \in 1 .. MaxCalls
    BY <1>2 DEF Messages
  <2> QED BY <1>2, <2>1, AnswerFields DEF ReplyTo, Message, Messages
<1>4. rep' = [rep EXCEPT ![c] = IF link[c] THEN Append(rep[c], reply) ELSE rep[c]]
  BY <1>m, <1>2 DEF WriteReply, Reply, ReplyTo
<1> HIDE DEF reply
<1>5. srv'[c] = Nil /\ rep'[c] = IF link[c] THEN <<reply>> ELSE <<>>
  BY <1>1, <1>2, <1>4 DEF TypeOK
<1>6. TypeOK'
  <2>1. rep[c] \in Seq(Messages) /\ Append(rep[c], reply) \in Seq(Messages)
    BY <1>1, <1>3 DEF TypeOK
  <2>2. rep' \in [Clients -> Seq(Messages)]
    BY <1>1, <1>4, <2>1 DEF TypeOK
  <2> QED BY <1>1, <2>2 DEF TypeOK
<1>7. link[c] => call[c] # Nil
  BY <1>1, IdleConnection DEF Conn
<1>8. OneMessage(c)'
  <2>1. req'[c] = <<>> /\ Busy(c)' = 0 /\ Len(rep'[c]) = IF link[c] THEN 1 ELSE 0
    BY <1>1, <1>2, <1>5 DEF Busy
  <2>2. /\ Len(req'[c]) + Len(rep'[c]) + Busy(c)' <= 1
        /\ link[c] => Len(req'[c]) + Len(rep'[c]) + Busy(c)' = 1
    BY <2>1
  <2> QED BY <1>1, <1>7, <2>2 DEF OneMessage
<1>9. Replied(c)'
  <2>1. CASE link[c]
    <3>1. /\ rep'[c] = <<reply>> /\ call'[c] # Nil /\ m.id = Latest(c)
          /\ call[c] = asked[c][Latest(c)]
      BY <1>1, <1>2, <1>5, <1>7, <2>1 DEF IsRequest, Conn, Called
    <3>2. call[c].name = name
      BY <1>2, <3>1 DEF IsRequest
    <3>3. RunLast(c, Latest(c), a)'
      BY <1>1, <1>2, <3>1 DEF RunLast, LastRan, Latest
    <3>4. /\ rep'[c] = <<ReplyTo(call'[c].name, Latest(c)', a)>>
          /\ a \in AnswersOf(call'[c].name) \cup {Failure}
      BY <1>1, <1>2, <3>1, <3>2 DEF reply, Latest
    <3> QED BY <3>1, <3>3, <3>4 DEF Replied
  <2>2. CASE ~link[c]
    BY <1>5, <2>2 DEF Replied
  <2> QED BY <2>1, <2>2
<1>10. Called(c)' /\ Requested(c)' /\ Served(c)' /\ RanOnce(c)'
  <2>1. Called(c) /\ RanOnce(c)
    BY <1>1 DEF Conn
  <2> QED BY <1>1, <1>2, <1>5, <2>1 DEF Called, Requested, Served, RanOnce, Latest
<1>11. Settled(c)' /\ Returned(c)' /\ Thrown(c)'
  <2>1. call[c] # Nil => out[c] = Nil
    BY <1>1 DEF Conn, Called
  <2>2. call[c] # Nil \/ out[c] = Failure
    BY <1>m, <1>1 DEF Conn, Settled
  <2> QED BY <1>1, <1>7, <2>1, <2>2, CallAssumption
          DEF CallAssumption, Settled, Returned, Thrown
<1>12. Conn(c)'
  <2>1. Len(asked'[c]) <= MaxCalls
    BY <1>1 DEF Conn
  <2> QED BY <1>8, <1>9, <1>10, <1>11, <2>1 DEF Conn
<1>13. \A d \in Clients \ {c} : Same(d)
  BY <1>1, <1>4 DEF Same, TypeOK
<1> QED BY <1>m, <1>1, <1>5, <1>6, <1>12, <1>13

\* What a failure leaves of a connection.
Left(c) ==
    /\ link'[c] = FALSE
    /\ req'[c] \in {req[c], <<>>} /\ rep'[c] \in {rep[c], <<>>} /\ srv'[c] \in {srv[c], Nil}
    /\ call'[c] = call[c] /\ out'[c] = out[c] /\ asked'[c] = asked[c] /\ ran'[c] = ran[c]

LEMMA LeftConn ==
    ASSUME TypeOK, NEW c \in Clients, Conn(c), Left(c)
    PROVE  Conn(c)'
<1>1. OneMessage(c)'
  <2>1. /\ Len(req[c]) \in Nat /\ Len(rep[c]) \in Nat /\ Busy(c) \in Nat
        /\ Len(req'[c]) \in {Len(req[c]), 0} /\ Len(rep'[c]) \in {Len(rep[c]), 0}
        /\ Busy(c)' \in {Busy(c), 0}
    BY DEF TypeOK, Left, Busy
  <2>2. Len(req[c]) + Len(rep[c]) + Busy(c) <= 1
    BY DEF Conn, OneMessage
  <2>3. \A i, j, k \in Nat : i + j + k <= 1 =>
            \A x \in {i, 0}, y \in {j, 0}, z \in {k, 0} : x + y + z <= 1
    OBVIOUS
  <2>4. Len(req'[c]) + Len(rep'[c]) + Busy(c)' <= 1
    BY <2>1, <2>2, <2>3
  <2> QED BY <2>4 DEF Left, OneMessage
<1>2. Settled(c)' /\ Called(c)' /\ Returned(c)' /\ Thrown(c)'
  BY DEF Conn, Left, Settled, Called, Latest, Returned, Thrown, RunLast, LastRan
<1>3. Requested(c)'
  BY DEF Conn, Left, Requested, IsRequest, NotRun, Latest
<1>4. Served(c)'
  BY DEF Conn, Left, Served, IsRequest, NotRun, RunLast, Latest, LastRan
<1>5. Replied(c)'
  <2>1. Replied(c) /\ rep'[c] \in {rep[c], <<>>}
    BY DEF Conn, Left
  <2>2. CASE rep'[c] = rep[c]
    BY <2>1, <2>2 DEF Left, Replied, RunLast, LastRan, Latest
  <2>3. CASE rep'[c] = <<>>
    BY <2>3 DEF Replied
  <2> QED BY <2>1, <2>2, <2>3
<1>6. RanOnce(c)'
  BY DEF Conn, Left, RanOnce, Latest
<1> QED BY <1>1, <1>2, <1>3, <1>4, <1>5, <1>6 DEF Conn, Left

LEMMA BreakStep ==
    ASSUME CallInv, NEW c \in Clients, Break(c)
    PROVE  TypeOK' /\ Conn(c)' /\ \A d \in Clients \ {c} : Same(d)
<1>1. /\ TypeOK /\ Conn(c) /\ link' = [link EXCEPT ![c] = FALSE] /\ srv' = srv /\ ran' = ran
      /\ req' \in {req, [req EXCEPT ![c] = <<>>]} /\ rep' \in {rep, [rep EXCEPT ![c] = <<>>]}
      /\ call' = call /\ out' = out /\ asked' = asked
  BY DEF CallInv, Break, clientVars
<1>2. TypeOK' /\ Left(c) /\ \A d \in Clients \ {c} : Same(d)
  <2>1. <<>> \in Seq(Messages)
    OBVIOUS
  <2>2. TypeOK'
    BY <1>1, <2>1 DEF TypeOK
  <2>3. Left(c)
    BY <1>1 DEF Left, TypeOK
  <2>4. \A d \in Clients \ {c} : Same(d)
    BY <1>1 DEF Same, TypeOK
  <2> QED BY <2>2, <2>3, <2>4
<1> QED BY <1>1, <1>2, LeftConn

LEMMA CrashStep ==
    ASSUME CallInv, Crash
    PROVE  CallInv'
<1>1. /\ TypeOK /\ call' = call /\ out' = out /\ asked' = asked /\ ran' = ran
      /\ link' = [c \in Clients |-> FALSE] /\ req' = [c \in Clients |-> <<>>]
      /\ srv' = [c \in Clients |-> Nil]
  BY DEF CallInv, Crash, clientVars
<1>2. PICK lost : rep' = [c \in Clients |-> IF c \in lost THEN <<>> ELSE rep[c]]
  BY DEF Crash
<1>3. TypeOK'
  <2>1. <<>> \in Seq(Messages)
    OBVIOUS
  <2> QED BY <1>1, <1>2, <2>1 DEF TypeOK
<1>4. \A c \in Clients : Left(c)
  BY <1>1, <1>2 DEF Left
<1> QED BY <1>1, <1>3, <1>4, LeftConn DEF CallInv

-----------------------------------------------------------------------------
(***************************************************************************)
(* The safety properties.                                                  *)
(***************************************************************************)
LEMMA InitCallInv == Init => CallInv
<1> SUFFICES ASSUME Init PROVE CallInv
  OBVIOUS
<1>1. TypeOK
  <2>1. \A S : <<>> \in Seq(S)
    OBVIOUS
  <2> QED BY <2>1 DEF Init, TypeOK
<1>2. ASSUME NEW c \in Clients PROVE Conn(c)
  <2>1. /\ call[c] = Nil /\ out[c] = Nil /\ req[c] = <<>> /\ rep[c] = <<>> /\ srv[c] = Nil
        /\ asked[c] = <<>> /\ ran[c] = <<>>
    BY DEF Init
  <2>2. Len(asked[c]) = 0 /\ Len(req[c]) = 0 /\ Len(rep[c]) = 0 /\ Len(ran[c]) = 0 /\ Busy(c) = 0
    BY <2>1 DEF Busy
  <2> HIDE DEF Busy
  <2>3. Len(asked[c]) <= MaxCalls /\ OneMessage(c)
    BY <2>1, <2>2, CallAssumption DEF CallAssumption, OneMessage
  <2>4. /\ Settled(c) /\ Called(c) /\ Requested(c) /\ Served(c)
        /\ Replied(c) /\ RanOnce(c) /\ Returned(c) /\ Thrown(c)
    BY <2>1, <2>2, CallAssumption
    DEF CallAssumption, Settled, Called, Requested, Served, Replied, RanOnce, Returned, Thrown
  <2> QED BY <2>3, <2>4 DEF Conn
<1> QED BY <1>1, <1>2 DEF CallInv

LEMMA NextCallInv == CallInv /\ [Next]_vars => CallInv'
<1> SUFFICES ASSUME CallInv, [Next]_vars PROVE CallInv'
  OBVIOUS
<1>1. ASSUME NEW c \in Clients, TypeOK', Conn(c)', \A d \in Clients \ {c} : Same(d)
      PROVE  CallInv'
  BY <1>1, ConnStays DEF CallInv
<1>2. ASSUME NEW c \in Clients, Send(c) PROVE CallInv'
  BY <1>1, <1>2, SendOf, SendStep
<1>3. ASSUME NEW c \in Clients, Receive(c) PROVE CallInv'
  BY <1>1, <1>3, ReceiveOf, ReceiveStep
<1>4. ASSUME NEW c \in Clients, dispatchCall(c) PROVE CallInv'
  BY <1>1, <1>4, DispatchStep
<1>5. ASSUME NEW c \in Clients, Process(c) PROVE CallInv'
  <2>1. PICK name \in processMap_ :
               process(c, name, Params(name), Returns(name), AnswersOf(name))
    BY <1>5, ProcessOf
  <2>2. CASE RunHandler(c, Params(name), AnswersOf(name))
    BY <1>1, <2>1, <2>2, RunStep DEF process
  <2>3. CASE WriteReply(c, Returns(name))
    BY <1>1, <2>1, <2>3, WriteReplyStep DEF process
  <2> QED BY <2>1, <2>2, <2>3 DEF process
<1>6. ASSUME NEW c \in Clients, Break(c) PROVE CallInv'
  BY <1>1, <1>6, BreakStep
<1>7. ASSUME Crash PROVE CallInv'
  BY <1>7, CrashStep
<1>8. ASSUME UNCHANGED vars PROVE CallInv'
  <2>1. TypeOK' /\ \A d \in Clients : Same(d)
    BY <1>8 DEF vars, CallInv, TypeOK, Same
  <2> QED BY <2>1, ConnStays DEF CallInv
<1> QED BY <1>2, <1>3, <1>4, <1>5, <1>6, <1>7, <1>8 DEF Next

THEOREM CallInvariant == Spec => []CallInv
BY InitCallInv, NextCallInv, PTL DEF Spec

\* Requests, replies and outcomes are always what the stubs of the ten
\* methods write and read.
THEOREM TypeCorrect == Spec => []TypeOK
<1>1. CallInv => TypeOK
  BY DEF CallInv
<1> QED BY <1>1, CallInvariant, PTL

\* A working connection carries one message during a call and none between
\* calls, after any number of calls that threw.
THEOREM AlwaysInStep == Spec => []InStep
<1>1. CallInv => InStep
  BY DEF CallInv, Conn, OneMessage, Busy, InStep
<1> QED BY <1>1, CallInvariant, PTL

\* A call that returns, returns the answer of its own handler, run on the
\* arguments of the call.
THEOREM OwnAnswerReturned == Spec => []ReturnsOwnAnswer
<1>1. CallInv => ReturnsOwnAnswer
  BY DEF CallInv, Conn, Returned, RunLast, Latest, ReturnsOwnAnswer
<1> QED BY <1>1, CallInvariant, PTL

\* No handler runs twice for a call, or for a call that was not made.
THEOREM AtMostOnce == Spec => []RunsAtMostOnce
<1>1. CallInv => RunsAtMostOnce
  BY DEF CallInv, Conn, RanOnce, Latest, RunsAtMostOnce
<1> QED BY <1>1, CallInvariant, PTL

\* A call on a working connection throws only if its handler threw.
THEOREM ThrowsOnlyForAReason == Spec => []ThrowsForAReason
<1>1. CallInv => ThrowsForAReason
  <2> SUFFICES ASSUME CallInv, NEW c \in Clients, out[c] = Failure, link[c]
               PROVE  ran[c] # <<>> /\ LastRan(c).id = Len(asked[c]) /\ LastRan(c).answer = Failure
    BY DEF ThrowsForAReason
  <2>1. RunLast(c, Latest(c), Failure)
    BY DEF CallInv, Conn, Thrown
  <2> QED BY <2>1 DEF RunLast, Latest
<1> QED BY <1>1, CallInvariant, PTL

-----------------------------------------------------------------------------
(***************************************************************************)
(* The stubs implement RemoteCall.  The names are those of the mapping in  *)
(* ThriftCall: what has still to run, the answer to the current call, and  *)
(* what has run, for each connection.                                      *)
(***************************************************************************)
Held(d) == Todo(d)' = Todo(d) /\ Answered(d)' = Answered(d) /\ Done(d)' = Done(d)

LEMMA SameHeld == ASSUME NEW d, Same(d) PROVE Held(d)
BY DEF Same, Held, Todo, Answered, Done, Pending, LastRan

LEMMA PendingOne ==
    ASSUME NEW x PROVE <<x>> \o <<>> # <<>> /\ Head(<<x>> \o <<>>) = x
<1>1. <<x>> \in Seq({x}) /\ <<>> \in Seq({x})
  OBVIOUS
<1> QED BY <1>1

\* Nothing happens in RemoteCall.
LEMMA HeldStep ==
    ASSUME call' = call, out' = out, \A d \in Clients : Held(d)
    PROVE  UNCHANGED Remote!vars
BY DEF Held, Remote!vars

LEMMA BeginStep ==
    ASSUME CallInv, CallInv', NEW c \in Clients, NEW name \in processMap_,
           NEW s \in ValuesOf(name), send(c, name, Params(name), s), link[c],
           \A d \in Clients \ {c} : Same(d)
    PROVE  \E r \in Requests : Remote!Begin(c, r)
<1>1. PICK r \in Requests : /\ call' = [call EXCEPT ![c] = r] /\ r # Nil
                            /\ out' = [out EXCEPT ![c] = Nil]
                            /\ asked' = [asked EXCEPT ![c] = Append(asked[c], r)]
                            /\ call[c] = Nil /\ ran' = ran /\ srv' = srv
  <2> DEFINE r == [name |-> name, args |-> s]
  <2>1. r \in Requests /\ r # Nil
    BY RequestTypes, NilAssumption DEF NilAssumption, send
  <2>2. /\ call' = [call EXCEPT ![c] = r] /\ out' = [out EXCEPT ![c] = Nil]
        /\ asked' = [asked EXCEPT ![c] = Append(asked[c], r)]
        /\ call[c] = Nil /\ ran' = ran /\ srv' = srv
    BY DEF send
  <2> HIDE DEF r
  <2> QED BY <2>1, <2>2
<1>2. req[c] = <<>> /\ srv[c] = Nil /\ call'[c] = r
  BY <1>1, IdleConnection DEF CallInv, Conn, TypeOK
<1>3. Todo(c) = Nil
  BY <1>2 DEF Todo, Pending
<1>4. Todo(c)' = r
  <2>1. req'[c] = Append(<<>>, Message("T_CALL", name, Write(Params(name), s), Len(asked[c]) + 1))
    BY <1>2 DEF send, CallInv, TypeOK
  <2>2. req'[c] # <<>> /\ Head(req'[c]) = req'[c][1] /\ req'[c][1].id = Len(asked[c]) + 1
    BY <2>1 DEF Message
  <2>3. asked'[c][Len(asked[c]) + 1] = r
    BY <1>1 DEF CallInv, TypeOK
  <2> QED BY <1>1, <1>2, <2>2, <2>3 DEF Todo, Pending
<1>5. Answered(c) = Nil /\ Answered(c)' = Nil
  <2>1. Len(asked'[c]) = Len(asked[c]) + 1 /\ Len(asked[c]) \in Nat
    BY <1>1 DEF CallInv, TypeOK
  <2>2. ran[c] # <<>> => LastRan(c).id \in 1 .. Len(asked[c])
    BY DEF CallInv, Conn, RanOnce, LastRan, Latest, TypeOK
  <2> QED BY <1>1, <2>1, <2>2 DEF Answered, LastRan
<1>6. Done(c)' = Done(c)
  BY <1>1 DEF Done
<1>7. \A d \in Clients \ {c} : Held(d)
  BY SameHeld
<1>8. Remote!Begin(c, r)
  BY <1>1, <1>3, <1>4, <1>5, <1>6, <1>7 DEF Remote!Begin, Held
<1> QED BY <1>8

LEMMA RefuseStep ==
    ASSUME CallInv, NEW c \in Clients, NEW name \in processMap_,
           NEW s \in ValuesOf(name), send(c, name, Params(name), s), ~link[c],
           \A d \in Clients \ {c} : Same(d)
    PROVE  Remote!Refuse(c)
<1>1. /\ call[c] = Nil /\ call' = call /\ out' = [out EXCEPT ![c] = Failure]
      /\ req' = req /\ srv' = srv /\ ran' = ran
      /\ \E r \in Requests : asked' = [asked EXCEPT ![c] = Append(asked[c], r)]
  BY RequestTypes DEF send
<1>2. \A i \in 1 .. Latest(c) : asked'[c][i] = asked[c][i]
  BY <1>1 DEF CallInv, TypeOK, Latest
<1>3. Pending(c)' = Pending(c)
  BY <1>1 DEF Pending
<1>4. Pending(c) # <<>> => Head(Pending(c)).id \in 1 .. Latest(c)
  <2>1. CASE srv[c] # Nil /\ srv[c].ans = Nil
    <3>1. req[c] = <<>> /\ srv[c].msg.id \in 1 .. Latest(c)
      BY <2>1, Alone DEF CallInv, Conn, Served, IsRequest
    <3> QED BY <2>1, <3>1, PendingOne DEF Pending
  <2>2. CASE ~(srv[c] # Nil /\ srv[c].ans = Nil)
    <3>1. Pending(c) = req[c]
      BY <2>2 DEF Pending
    <3>2. ASSUME req[c] # <<>> PROVE Head(req[c]).id \in 1 .. Latest(c)
      <4>1. Len(req[c]) = 1 /\ req[c] \in Seq(Messages)
        BY <3>2, Alone DEF CallInv, Conn, TypeOK
      <4>2. Head(req[c]) = req[c][1] /\ DOMAIN req[c] = {1}
        BY <4>1, Single
      <4> QED BY <4>2 DEF CallInv, Conn, Requested, IsRequest
    <3> QED BY <3>1, <3>2
  <2> QED BY <2>1, <2>2
<1>5. Todo(c)' = Todo(c) /\ Done(c)' = Done(c) /\ Answered(c)' = Answered(c)
  BY <1>1, <1>2, <1>3, <1>4 DEF Todo, Done, Answered
<1>6. \A d \in Clients : Held(d)
  BY <1>5, SameHeld DEF Held
<1> QED BY <1>1, <1>6 DEF Remote!Refuse, Held

LEMMA EndStep ==
    ASSUME CallInv, NEW c \in Clients, NEW name \in processMap_, recv(c, name, Returns(name))
    PROVE  Remote!Return(c) \/ Remote!Throw(c)
<1>1. /\ \A d \in Clients \ {c} : Same(d)
      /\ call[c] # Nil /\ Ends(c, out'[c]) /\ UNCHANGED <<req, srv, asked, ran>>
      /\ out'[c] # Failure => RunLast(c, Latest(c), out'[c])
      /\ out'[c] \in Answers \cup {Failure}
  BY ReceiveStep
<1>2. call'[c] = Nil
  BY <1>1 DEF CallInv, TypeOK, Ends
<1>3. Todo(c)' = Todo(c) /\ Done(c)' = Done(c) /\ Answered(c)' = Nil
  BY <1>1, <1>2 DEF Todo, Pending, Done, Answered
<1>4. \A d \in Clients \ {c} : Held(d)
  BY <1>1, SameHeld
<1>5. CASE out'[c] = Failure
  <2>1. call' = [call EXCEPT ![c] = Nil] /\ out' = [out EXCEPT ![c] = Failure]
    BY <1>1, <1>5 DEF Ends
  <2> QED BY <1>1, <1>3, <1>4, <2>1 DEF Remote!Throw, Held
<1>6. CASE out'[c] # Failure
  <2>1. Answered(c) = out'[c]
    BY <1>1, <1>6 DEF Answered, RunLast, Latest
  <2>2. Answered(c) \notin {Nil, Failure}
    BY <1>1, <1>6, <2>1, CallAssumption DEF CallAssumption, Answers
  <2>3. call' = [call EXCEPT ![c] = Nil] /\ out' = [out EXCEPT ![c] = Answered(c)]
    BY <1>1, <2>1 DEF Ends
  <2> QED BY <1>1, <1>3, <1>4, <2>2, <2>3 DEF Remote!Return, Held
<1> QED BY <1>5, <1>6

LEMMA DispatchHeld ==
    ASSUME CallInv, NEW c \in Clients, dispatchCall(c)
    PROVE  UNCHANGED Remote!vars
<1>1. /\ \A d \in Clients \ {c} : Same(d)
      /\ call' = call /\ out' = out /\ asked' = asked /\ ran' = ran
      /\ Len(req[c]) = 1 /\ req'[c] = <<>>
      /\ srv'[c] = [msg |-> req[c][1], ans |-> Nil] /\ srv'[c] # Nil
  BY DispatchStep
<1>2. srv[c] = Nil /\ req[c] # <<>> /\ Head(req[c]) = req[c][1]
  BY <1>1, Single DEF dispatchCall, CallInv, TypeOK
<1>3. Todo(c) = asked[c][req[c][1].id]
  BY <1>2 DEF Todo, Pending
<1>4. Todo(c)' = asked'[c][req[c][1].id]
  <2>1. Pending(c)' = <<req[c][1]>> \o <<>>
    BY <1>1 DEF Pending
  <2>2. Pending(c)' # <<>> /\ Head(Pending(c)') = req[c][1]
    BY <2>1, PendingOne
  <2> QED BY <2>2 DEF Todo
<1>5. Done(c)' = Done(c) /\ Answered(c)' = Answered(c)
  BY <1>1 DEF Done, Answered, LastRan
<1>6. \A d \in Clients : Held(d)
  BY <1>1, <1>3, <1>4, <1>5, SameHeld DEF Held
<1> QED BY <1>1, <1>6, HeldStep

LEMMA HandlerStep ==
    ASSUME CallInv, NEW c \in Clients, NEW name \in processMap_, srv[c] # Nil,
           srv[c].msg.name = name, RunHandler(c, Params(name), AnswersOf(name))
    PROVE  \E a \in Answers \cup {Failure} : Remote!Run(c, a)
<1>m. PICK m : m = srv[c].msg
  OBVIOUS
<1>1. /\ \A d \in Clients \ {c} : Same(d)
      /\ call' = call /\ out' = out /\ asked' = asked /\ req' = req /\ req[c] = <<>>
      /\ srv[c].ans = Nil /\ srv'[c] # Nil /\ srv'[c].ans # Nil
  BY RunStep
<1>2. PICK a \in Answers \cup {Failure} :
        ran' = [ran EXCEPT ![c] = Append(@,
            [id |-> srv[c].msg.id, answer |-> a, request |-> asked[c][srv[c].msg.id]])]
  BY RunStep
<1>3. PICK r : r = asked[c][m.id]
  OBVIOUS
<1>4. r \in Requests /\ r # Nil /\ (call[c] # Nil => m.id = Latest(c)) /\ m.id \in 1 .. Latest(c)
  <2>1. IsRequest(c, m)
    BY <1>m DEF CallInv, Conn, Served
  <2> QED BY <1>3, <2>1, NilAssumption DEF NilAssumption, IsRequest, Latest, CallInv, TypeOK
<1>5. Todo(c) = r /\ Todo(c)' = Nil
  <2>1. Pending(c) = <<m>> \o <<>> /\ Pending(c)' = <<>>
    BY <1>m, <1>1 DEF Pending
  <2>2. Pending(c) # <<>> /\ Head(Pending(c)) = m
    BY <2>1, PendingOne
  <2> QED BY <1>3, <2>1, <2>2 DEF Todo
<1> DEFINE n == Len(ran[c]) + 1
           run == [id |-> m.id, answer |-> a, request |-> r]
<1>6. /\ ran[c] \in Seq(Runs) /\ n \in Nat
      /\ ran'[c] = Append(ran[c], run) /\ Len(ran'[c]) = n /\ ran'[c][n] = run
      /\ DOMAIN ran[c] = 1 .. n - 1 /\ DOMAIN ran'[c] = 1 .. n
      /\ \A i \in 1 .. n - 1 : ran'[c][i] = ran[c][i]
  <2>1. ran[c] \in Seq(Runs)
    BY DEF CallInv, TypeOK
  <2>2. ran'[c] = Append(ran[c], run)
    BY <1>m, <1>2, <1>3 DEF CallInv, TypeOK
  <2> HIDE DEF run
  <2> QED BY <2>1, <2>2
<1>7. Answered(c)' = IF call[c] = Nil THEN Nil ELSE a
  <2>1. ran'[c] # <<>> /\ LastRan(c)' = run
    BY <1>6 DEF LastRan
  <2> QED BY <1>1, <1>4, <2>1 DEF Answered, Latest
<1>8. Done(c)' = Append(Done(c), [request |-> r, answer |-> a])
  <2> DEFINE of(x) == [request |-> x.request, answer |-> x.answer]
  <2>1. Done(c) = [i \in 1 .. n - 1 |-> of(ran[c][i])]
    BY <1>6 DEF Done
  <2>2. Done(c)' = [i \in 1 .. n |-> of(ran'[c][i])]
    BY <1>6 DEF Done
  <2>3. of(ran'[c][n]) = of(run)
    BY <1>6
  <2> QED BY <1>6, <2>1, <2>2, <2>3
<1>9. \A d \in Clients \ {c} : Held(d)
  BY <1>1, SameHeld
<1>10. Remote!Run(c, a)
  BY <1>1, <1>4, <1>5, <1>7, <1>8, <1>9 DEF Remote!Run, Held
<1> QED BY <1>10

LEMMA WriteReplyHeld ==
    ASSUME CallInv, NEW c \in Clients, NEW name \in processMap_, srv[c] # Nil,
           srv[c].msg.name = name, WriteReply(c, Returns(name))
    PROVE  UNCHANGED Remote!vars
<1>1. /\ \A d \in Clients \ {c} : Same(d)
      /\ call' = call /\ out' = out /\ asked' = asked /\ req' = req /\ ran' = ran
      /\ srv[c].ans # Nil /\ srv'[c] = Nil
  BY WriteReplyStep
<1>2. Held(c)
  BY <1>1 DEF Held, Todo, Pending, Done, Answered, LastRan
<1> QED BY <1>1, <1>2, SameHeld, HeldStep

\* A failure takes what has still to run, or leaves it.
LEMMA LeftTodo ==
    ASSUME TypeOK, NEW c \in Clients, Conn(c), Left(c)
    PROVE  Todo(c)' \in {Todo(c), Nil} /\ Done(c)' = Done(c) /\ Answered(c)' = Answered(c)
<1>1. Done(c)' = Done(c) /\ Answered(c)' = Answered(c)
  BY DEF Left, Done, Answered, LastRan
<1>2. Pending(c)' \in {Pending(c), <<>>}
  <2>1. CASE srv[c] # Nil /\ srv[c].ans = Nil
    BY <2>1, Alone DEF Conn, Left, Pending
  <2>2. CASE ~(srv[c] # Nil /\ srv[c].ans = Nil)
    BY <2>2 DEF Left, Pending
  <2> QED BY <2>1, <2>2
<1> QED BY <1>1, <1>2 DEF Todo, Left

LEMMA LoseStep ==
    ASSUME call' = call, out' = out,
           \A d \in Clients : /\ Todo(d)' \in {Todo(d), Nil}
                              /\ Done(d)' = Done(d) /\ Answered(d)' = Answered(d)
    PROVE  \E cs \in SUBSET Clients : Remote!Lose(cs)
<1> DEFINE cs == {d \in Clients : Todo(d)' # Todo(d)}
<1>1. cs \in SUBSET Clients /\ \A d \in Clients : Todo(d)' = IF d \in cs THEN Nil ELSE Todo(d)
  OBVIOUS
<1> HIDE DEF cs
<1>2. Remote!Lose(cs)
  BY <1>1 DEF Remote!Lose
<1> QED BY <1>1, <1>2

LEMMA InitRemote == Init => Remote!Init
<1> SUFFICES ASSUME Init PROVE Remote!Init
  OBVIOUS
<1>1. ASSUME NEW c \in Clients PROVE Todo(c) = Nil /\ Answered(c) = Nil /\ Done(c) = <<>>
  <2>1. srv[c] = Nil /\ req[c] = <<>> /\ call[c] = Nil /\ ran[c] = <<>>
    BY DEF Init
  <2> QED BY <2>1 DEF Todo, Answered, Done, Pending
<1> QED BY <1>1 DEF Init, Remote!Init

LEMMA NextRemote == CallInv /\ CallInv' /\ [Next]_vars => [Remote!Next]_(Remote!vars)
<1> SUFFICES ASSUME CallInv, CallInv', [Next]_vars PROVE [Remote!Next]_(Remote!vars)
  OBVIOUS
<1>1. ASSUME NEW c \in Clients, Send(c) PROVE Remote!Next
  <2>n. PICK name \in processMap_ : \E s \in ValuesOf(name) : send(c, name, Params(name), s)
    BY <1>1, SendOf
  <2>1. PICK s \in ValuesOf(name) : send(c, name, Params(name), s)
    BY <2>n
  <2>2. \A d \in Clients \ {c} : Same(d)
    BY <2>1, SendStep
  <2>3. CASE link[c]
    BY <2>1, <2>2, <2>3, BeginStep DEF Remote!Next
  <2>4. CASE ~link[c]
    BY <2>1, <2>2, <2>4, RefuseStep DEF Remote!Next
  <2> QED BY <2>3, <2>4
<1>2. ASSUME NEW c \in Clients, Receive(c) PROVE Remote!Next
  BY <1>2, ReceiveOf, EndStep DEF Remote!Next
<1>3. ASSUME NEW c \in Clients, dispatchCall(c) PROVE UNCHANGED Remote!vars
  BY <1>3, DispatchHeld
<1>4. ASSUME NEW c \in Clients, Process(c) PROVE [Remote!Next]_(Remote!vars)
  <2>1. PICK name \in processMap_ :
               process(c, name, Params(name), Returns(name), AnswersOf(name))
    BY <1>4, ProcessOf
  <2>2. CASE RunHandler(c, Params(name), AnswersOf(name))
    BY <2>1, <2>2, HandlerStep DEF process, Remote!Next
  <2>3. CASE WriteReply(c, Returns(name))
    BY <2>1, <2>3, WriteReplyHeld DEF process
  <2> QED BY <2>1, <2>2, <2>3 DEF process
<1>5. ASSUME NEW c \in Clients, Break(c) PROVE Remote!Next
  <2>1. Left(c) /\ (\A d \in Clients \ {c} : Same(d)) /\ call' = call /\ out' = out
    BY <1>5, BreakStep DEF Break, clientVars, Left, CallInv, TypeOK
  <2>2. \A d \in Clients : /\ Todo(d)' \in {Todo(d), Nil}
                           /\ Done(d)' = Done(d) /\ Answered(d)' = Answered(d)
    BY <2>1, LeftTodo, SameHeld DEF CallInv, Held
  <2> QED BY <2>1, <2>2, LoseStep DEF Remote!Next
<1>6. ASSUME Crash PROVE Remote!Next
  <2>1. call' = call /\ out' = out /\ \A d \in Clients : Left(d)
    BY <1>6 DEF Crash, clientVars, Left
  <2>2. \A d \in Clients : /\ Todo(d)' \in {Todo(d), Nil}
                           /\ Done(d)' = Done(d) /\ Answered(d)' = Answered(d)
    BY <2>1, LeftTodo DEF CallInv
  <2> QED BY <2>1, <2>2, LoseStep DEF Remote!Next
<1>7. ASSUME UNCHANGED vars PROVE UNCHANGED Remote!vars
  <2>1. call' = call /\ out' = out /\ \A d \in Clients : Held(d)
    BY <1>7 DEF vars, Held, Todo, Pending, Done, Answered, LastRan
  <2> QED BY <2>1, HeldStep
<1> QED BY <1>1, <1>2, <1>3, <1>4, <1>5, <1>6, <1>7 DEF Next

\* The stubs, the proxy's threads and the connections together give the code
\* above them the calls of RemoteCall: each step is one of its steps or none.
THEOREM RemoteCallImplemented == Spec => ImplementsRemoteCall
<1>1. Init => Remote!Init
  BY InitRemote
<1>2. CallInv /\ CallInv' /\ [Next]_vars => [Remote!Next]_(Remote!vars)
  BY NextRemote
<1> QED BY <1>1, <1>2, CallInvariant, PTL DEF Spec, ImplementsRemoteCall, Remote!Spec
=============================================================================
