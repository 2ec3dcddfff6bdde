----------------------------- MODULE ThriftCall -----------------------------
(***************************************************************************)
(* The calls of the client library to a proxy through the generated Thrift *)
(* stubs: TProxyServiceClient on one side, TProxyServiceProcessor behind a *)
(* TThreadedServer on the other, and a TCP connection between them.        *)
(*                                                                         *)
(* The sequence number on the wire is always 0 and is never compared, so   *)
(* that a reply answers the call that reads it rests on the order of the   *)
(* messages alone.  The number "id" in a message is a history value that   *)
(* no code reads.  A connection that breaks is never opened again, but its *)
(* client object can still be called.                                      *)
(*                                                                         *)
(* Abstracted: the bytes of a message arrive together; handlers are what   *)
(* EncKV and PlainKV model, here they answer anything or throw.            *)
(***************************************************************************)
EXTENDS ThriftStructs

CONSTANTS
    Clients,    \* connections, each with one client thread
    Methods,    \* the methods that are called
    Failure,    \* a std::exception
    Void,       \* what ProxyPut returns
    Nil,
    MaxCalls    \* bound on the calls of a client

Answers == Blobs \cup Lists \cup {Void}

Calls(names, structs) == [name : names \cap Methods, args : structs]
Requests ==
    Calls({"ProxyGet"}, ProxyGet_values) \cup Calls({"ProxyPut"}, ProxyPut_values)
    \cup Calls({"ProxyGetColumn"}, ProxyGetColumn_values)
    \cup Calls({"EqualSearch1", "EqualSearch2", "EqualSearch1PlainText",
                "EqualSearch2PlainText"}, EqualSearch1_values)
    \cup Calls({"OrderSearch", "OrderSearchPlainText"}, OrderSearch_values)
    \cup Calls({"RunCommand"}, RunCommand_values)

Fields == [id : 0 .. 4, type : {"T_STRING", "T_I32", "T_LIST"},
           val : Blobs \cup Nums \cup Lists]
Messages == [type : {"T_CALL", "T_REPLY", "T_EXCEPTION"}, name : Methods,
             fields : SUBSET Fields, id : 1 .. MaxCalls]
\* What the proxy is working on, and the handlers that have run.
Working == [msg : Messages, ans : Answers \cup {Nil, Failure}]
Runs == [id : 1 .. MaxCalls, answer : Answers \cup {Failure}, request : Requests]

ASSUME CallAssumption ==
    /\ MaxCalls \in Nat
    /\ Failure # Nil
    /\ Failure \notin Blobs /\ Failure \notin Lists /\ Failure # Void
    /\ Nil \notin Blobs /\ Nil \notin Lists /\ Nil # Void
ASSUME NilAssumption == Nil \notin Requests \cup Working

VARIABLES
    call,   \* client: the call it waits for, or Nil
    out,    \* client: how its last call ended: Nil, Failure or an answer
    req,    \* bytes on their way to the proxy
    rep,    \* bytes on their way to the client
    link,   \* is the connection up
    srv,    \* proxy: the call the thread of the connection works on, or Nil
    asked,  \* history: the calls made on each connection
    ran     \* history: the handlers that have run, in order

clientVars == <<call, out, asked>>
vars == <<call, out, req, rep, link, srv, asked, ran>>

Init ==
    /\ call = [c \in Clients |-> Nil]
    /\ out = [c \in Clients |-> Nil]
    /\ req = [c \in Clients |-> <<>>]
    /\ rep = [c \in Clients |-> <<>>]
    /\ link = [c \in Clients |-> TRUE]
    /\ srv = [c \in Clients |-> Nil]
    /\ asked = [c \in Clients |-> <<>>]
    /\ ran = [c \in Clients |-> <<>>]

-----------------------------------------------------------------------------
(***************************************************************************)
(* The client.                                                             *)
(***************************************************************************)
Message(type, name, fields, id) ==
    [type |-> type, name |-> name, fields |-> fields, id |-> id]

\* write and flush; on a broken connection they throw.
send(c, name, pargs, struct) ==
    /\ name \in Methods /\ call[c] = Nil /\ Len(asked[c]) < MaxCalls
    /\ asked' = [asked EXCEPT ![c] = Append(@, [name |-> name, args |-> struct])]
    /\ IF link[c]
       THEN /\ call' = [call EXCEPT ![c] = [name |-> name, args |-> struct]]
            /\ out' = [out EXCEPT ![c] = Nil]
            /\ req' = [req EXCEPT ![c] = Append(@,
                 Message("T_CALL", name, Write(pargs, struct), Len(asked[c]) + 1))]
       ELSE /\ out' = [out EXCEPT ![c] = Failure]
            /\ UNCHANGED <<call, req>>
    /\ UNCHANGED <<rep, link, srv, ran>>

Ends(c, outcome) ==
    /\ call' = [call EXCEPT ![c] = Nil]
    /\ out' = [out EXCEPT ![c] = outcome]

\* A result without its success field is MISSING_RESULT; ProxyPut has none.
Result(presult, fields) ==
    IF presult = {} THEN Void
    ELSE IF Complete(presult, fields) THEN Read(presult, fields).success
    ELSE Failure

\* Mutant: an exception is thrown before it is read from the buffer.
recvUnread(c, name, presult) ==
    /\ call[c] # Nil /\ call[c].name = name
    /\ \/ /\ rep[c] # <<>>
          /\ LET m == Head(rep[c]) IN
             IF m.type = "T_EXCEPTION" THEN Ends(c, Failure) /\ UNCHANGED rep
             ELSE /\ Ends(c, Result(presult, m.fields))
                  /\ rep' = [rep EXCEPT ![c] = Tail(@)]
       \/ rep[c] = <<>> /\ ~link[c] /\ Ends(c, Failure) /\ UNCHANGED rep
    /\ UNCHANGED <<req, link, srv, asked, ran>>
\* A message of another type or method is skipped, and reading goes on with
\* what follows it; the bytes have ended with the connection.
recv(c, name, presult) ==
    /\ call[c] # Nil /\ call[c].name = name
    /\ \/ /\ rep[c] # <<>>
          /\ rep' = [rep EXCEPT ![c] = Tail(@)]
          /\ LET m == Head(rep[c]) IN
             IF m.type = "T_EXCEPTION" THEN Ends(c, Failure)
             ELSE IF m.type # "T_REPLY" \/ m.name # name THEN UNCHANGED <<call, out>>
             ELSE Ends(c, Result(presult, m.fields))
       \/ /\ rep[c] = <<>> /\ ~link[c]
          /\ Ends(c, Failure)
          /\ UNCHANGED rep
    /\ UNCHANGED <<req, link, srv, asked, ran>>

-----------------------------------------------------------------------------
(***************************************************************************)
(* The proxy: one thread per connection.                                   *)
(***************************************************************************)
processMap_ ==
    {"ProxyGet", "ProxyPut", "ProxyGetColumn",
     "EqualSearch1", "EqualSearch2", "OrderSearch",
     "RunCommand", "EqualSearch1PlainText", "EqualSearch2PlainText",
     "OrderSearchPlainText"}

\* What the proxy writes on a broken connection is lost.
Reply(c, m) == rep' = [rep EXCEPT ![c] = IF link[c] THEN Append(@, m) ELSE @]

\* Mutant: the message stays in the input buffer.
dispatchAgain(c) ==
    /\ srv[c] = Nil /\ req[c] # <<>>
    /\ srv' = [srv EXCEPT ![c] = [msg |-> Head(req[c]), ans |-> Nil]]
    /\ UNCHANGED <<clientVars, req, rep, link, ran>>
dispatchCall(c) ==
    /\ srv[c] = Nil /\ req[c] # <<>>
    /\ req' = [req EXCEPT ![c] = Tail(@)]
    /\ LET m == Head(req[c]) IN
       IF m.name \in processMap_
       THEN /\ srv' = [srv EXCEPT ![c] = [msg |-> m, ans |-> Nil]]
            /\ UNCHANGED rep
       ELSE /\ Reply(c, Message("T_EXCEPTION", m.name, {}, m.id))
            /\ UNCHANGED srv
    /\ UNCHANGED <<clientVars, link, ran>>

\* A missing argument is INVALID_DATA, which ends the thread and closes the
\* connection; else the handler runs and answers or throws.
RunHandler(c, args, answers) ==
    /\ srv[c].ans = Nil
    /\ IF Complete(args, srv[c].msg.fields)
       THEN \E a \in answers \cup {Failure} :
            /\ srv' = [srv EXCEPT ![c].ans = a]
            /\ ran' = [ran EXCEPT ![c] = Append(@,
                 [id |-> srv[c].msg.id, answer |-> a,
                  request |-> [name |-> srv[c].msg.name,
                               args |-> Read(args, srv[c].msg.fields)]])]
            /\ UNCHANGED link
       ELSE /\ srv' = [srv EXCEPT ![c] = Nil]
            /\ link' = [link EXCEPT ![c] = FALSE]
            /\ UNCHANGED ran
    /\ UNCHANGED <<clientVars, req, rep>>

\* Mutant: an exception of the handler is not reported.
SilentReply(c, result) ==
    /\ srv[c].ans # Nil
    /\ LET m == srv[c].msg IN
       IF srv[c].ans = Failure THEN UNCHANGED rep
       ELSE Reply(c, Message("T_REPLY", m.name,
                             Write(result, [success |-> srv[c].ans]), m.id))
    /\ srv' = [srv EXCEPT ![c] = Nil]
    /\ UNCHANGED <<clientVars, req, link, ran>>
WriteReply(c, result) ==
    /\ srv[c].ans # Nil
    /\ LET m == srv[c].msg IN
       IF srv[c].ans = Failure THEN Reply(c, Message("T_EXCEPTION", m.name, {}, m.id))
       ELSE Reply(c, Message("T_REPLY", m.name,
                             Write(result, [success |-> srv[c].ans]), m.id))
    /\ srv' = [srv EXCEPT ![c] = Nil]
    /\ UNCHANGED <<clientVars, req, link, ran>>

process(c, name, args, result, answers) ==
    /\ srv[c] # Nil /\ srv[c].msg.name = name
    /\ RunHandler(c, args, answers) \/ WriteReply(c, result)

-----------------------------------------------------------------------------
(***************************************************************************)
(* The connection.                                                         *)
(***************************************************************************)
\* It breaks, with or without what is on its way.
Break(c) ==
    /\ link[c]
    /\ link' = [link EXCEPT ![c] = FALSE]
    /\ req' \in {req, [req EXCEPT ![c] = <<>>]}
    /\ rep' \in {rep, [rep EXCEPT ![c] = <<>>]}
    /\ UNCHANGED <<clientVars, srv, ran>>

\* The proxy process ends, at an assertion for example, with all its threads.
Crash ==
    /\ \E c \in Clients : link[c]
    /\ link' = [c \in Clients |-> FALSE]
    /\ req' = [c \in Clients |-> <<>>]
    /\ srv' = [c \in Clients |-> Nil]
    /\ \E lost \in SUBSET Clients :
         rep' = [c \in Clients |-> IF c \in lost THEN <<>> ELSE rep[c]]
    /\ UNCHANGED <<clientVars, ran>>

-----------------------------------------------------------------------------
(***************************************************************************)
(* The ten methods.                                                        *)
(***************************************************************************)
send_ProxyGet(c) ==
    \E s \in ProxyGet_values : send(c, "ProxyGet", ProxyGet_pargs, s)
recv_ProxyGet(c) == recv(c, "ProxyGet", ProxyGet_presult)
process_ProxyGet(c) ==
    process(c, "ProxyGet", ProxyGet_args, ProxyGet_result, Blobs)

send_ProxyPut(c) ==
    \E s \in ProxyPut_values : send(c, "ProxyPut", ProxyPut_pargs, s)
recv_ProxyPut(c) == recv(c, "ProxyPut", ProxyPut_presult)
process_ProxyPut(c) ==
    process(c, "ProxyPut", ProxyPut_args, ProxyPut_result, {Void})

send_ProxyGetColumn(c) ==
    \E s \in ProxyGetColumn_values : send(c, "ProxyGetColumn",
        ProxyGetColumn_pargs, s)
recv_ProxyGetColumn(c) == recv(c, "ProxyGetColumn", ProxyGetColumn_presult)
process_ProxyGetColumn(c) ==
    process(c, "ProxyGetColumn", ProxyGetColumn_args,
        ProxyGetColumn_result, Lists)

send_EqualSearch1(c) ==
    \E s \in EqualSearch1_values : send(c, "EqualSearch1",
        EqualSearch1_pargs, s)
recv_EqualSearch1(c) == recv(c, "EqualSearch1", EqualSearch1_presult)
process_EqualSearch1(c) ==
    process(c, "EqualSearch1", EqualSearch1_args, EqualSearch1_result, Lists)

send_EqualSearch2(c) ==
    \E s \in EqualSearch2_values : send(c, "EqualSearch2",
        EqualSearch2_pargs, s)
recv_EqualSearch2(c) == recv(c, "EqualSearch2", EqualSearch2_presult)
process_EqualSearch2(c) ==
    process(c, "EqualSearch2", EqualSearch2_args, EqualSearch2_result, Lists)

send_OrderSearch(c) ==
    \E s \in OrderSearch_values : send(c, "OrderSearch", OrderSearch_pargs, s)
recv_OrderSearch(c) == recv(c, "OrderSearch", OrderSearch_presult)
process_OrderSearch(c) ==
    process(c, "OrderSearch", OrderSearch_args, OrderSearch_result, Lists)

send_RunCommand(c) ==
    \E s \in RunCommand_values : send(c, "RunCommand", RunCommand_pargs, s)
recv_RunCommand(c) == recv(c, "RunCommand", RunCommand_presult)
process_RunCommand(c) ==
    process(c, "RunCommand", RunCommand_args, RunCommand_result, Lists)

send_EqualSearch1PlainText(c) ==
    \E s \in EqualSearch1PlainText_values : send(c,
        "EqualSearch1PlainText", EqualSearch1PlainText_pargs, s)
recv_EqualSearch1PlainText(c) ==
    recv(c, "EqualSearch1PlainText", EqualSearch1PlainText_presult)
process_EqualSearch1PlainText(c) ==
    process(c, "EqualSearch1PlainText", EqualSearch1PlainText_args,
        EqualSearch1PlainText_result, Lists)

send_EqualSearch2PlainText(c) ==
    \E s \in EqualSearch2PlainText_values : send(c,
        "EqualSearch2PlainText", EqualSearch2PlainText_pargs, s)
recv_EqualSearch2PlainText(c) ==
    recv(c, "EqualSearch2PlainText", EqualSearch2PlainText_presult)
process_EqualSearch2PlainText(c) ==
    process(c, "EqualSearch2PlainText", EqualSearch2PlainText_args,
        EqualSearch2PlainText_result, Lists)

send_OrderSearchPlainText(c) ==
    \E s \in OrderSearchPlainText_values : send(c, "OrderSearchPlainText",
        OrderSearchPlainText_pargs, s)
recv_OrderSearchPlainText(c) ==
    recv(c, "OrderSearchPlainText", OrderSearchPlainText_presult)
process_OrderSearchPlainText(c) ==
    process(c, "OrderSearchPlainText", OrderSearchPlainText_args,
        OrderSearchPlainText_result, Lists)

Send(c) ==
    \/ send_ProxyGet(c) \/ send_ProxyPut(c)
    \/ send_ProxyGetColumn(c) \/ send_EqualSearch1(c)
    \/ send_EqualSearch2(c) \/ send_OrderSearch(c)
    \/ send_RunCommand(c) \/ send_EqualSearch1PlainText(c)
    \/ send_EqualSearch2PlainText(c) \/ send_OrderSearchPlainText(c)

Receive(c) ==
    \/ recv_ProxyGet(c) \/ recv_ProxyPut(c)
    \/ recv_ProxyGetColumn(c) \/ recv_EqualSearch1(c)
    \/ recv_EqualSearch2(c) \/ recv_OrderSearch(c)
    \/ recv_RunCommand(c) \/ recv_EqualSearch1PlainText(c)
    \/ recv_EqualSearch2PlainText(c) \/ recv_OrderSearchPlainText(c)

Process(c) ==
    \/ process_ProxyGet(c) \/ process_ProxyPut(c)
    \/ process_ProxyGetColumn(c) \/ process_EqualSearch1(c)
    \/ process_EqualSearch2(c) \/ process_OrderSearch(c)
    \/ process_RunCommand(c) \/ process_EqualSearch1PlainText(c)
    \/ process_EqualSearch2PlainText(c) \/ process_OrderSearchPlainText(c)

Next ==
    \/ \E c \in Clients :
        Send(c) \/ Receive(c) \/ dispatchCall(c) \/ Process(c) \/ Break(c)
    \/ Crash

Spec == Init /\ [][Next]_vars

\* The threads of client and proxy run; handlers come to their end (which is
\* EncKV!QueryTerminates); a broken connection is noticed.
Fairness ==
    \A c \in Clients :
        WF_vars(Receive(c)) /\ WF_vars(dispatchCall(c)) /\ WF_vars(Process(c))
FairSpec == Spec /\ Fairness

-----------------------------------------------------------------------------
(***************************************************************************)
(* Properties.                                                             *)
(***************************************************************************)
\* The message of a call a handler has still to run for.
Pending(c) ==
    IF srv[c] # Nil /\ srv[c].ans = Nil THEN <<srv[c].msg>> \o req[c] ELSE req[c]
LastRan(c) == ran[c][Len(ran[c])]

\* The type invariant: requests, replies and outcomes are what the stubs of
\* the ten methods read and write.
TypeOK ==
    /\ call \in [Clients -> Requests \cup {Nil}]
    /\ out \in [Clients -> Answers \cup {Nil, Failure}]
    /\ req \in [Clients -> Seq(Messages)]
    /\ rep \in [Clients -> Seq(Messages)]
    /\ link \in [Clients -> BOOLEAN]
    /\ srv \in [Clients -> Working \cup {Nil}]
    /\ asked \in [Clients -> Seq(Requests)]
    /\ ran \in [Clients -> Seq(Runs)]

\* A working connection carries nothing of an earlier call: during a call
\* there is one of its request, its handler and its reply, and between calls
\* there is nothing, also after calls that threw (send_ProxyGet,
\* recv_ProxyGet, dispatchCall).
InStep ==
    \A c \in Clients : link[c] =>
        Len(req[c]) + Len(rep[c]) + (IF srv[c] = Nil THEN 0 ELSE 1) =
            IF call[c] = Nil THEN 0 ELSE 1

\* A call that returns, returns what its own handler answered when it ran on
\* the caller's arguments, although neither side compares sequence numbers,
\* after any number of calls that threw (recv_ProxyGet, process_ProxyGet).
ReturnsOwnAnswer ==
    \A c \in Clients : call[c] = Nil /\ out[c] \notin {Nil, Failure} =>
        /\ ran[c] # <<>>
        /\ LastRan(c) = [id |-> Len(asked[c]), answer |-> out[c],
                         request |-> asked[c][Len(asked[c])]]

\* No handler runs twice for one call, nor for one that was not made, nor on
\* other arguments, whatever its caller has been told.
RunsAtMostOnce ==
    \A c \in Clients : \A i \in 1 .. Len(ran[c]) :
        /\ ran[c][i].id \in 1 .. Len(asked[c])
        /\ ran[c][i].request = asked[c][ran[c][i].id]
        /\ \A j \in 1 .. i - 1 : ran[c][j].id < ran[c][i].id

\* A call throws only if its own handler threw or the connection is gone: no
\* field, method or message of one side is unknown to the other.
ThrowsForAReason ==
    \A c \in Clients : out[c] = Failure /\ link[c] =>
        /\ ran[c] # <<>>
        /\ LastRan(c).id = Len(asked[c]) /\ LastRan(c).answer = Failure

\* The request whose handler has still to run, the answer of the handler of
\* the call that goes on, and what has run.
Todo(c) == IF Pending(c) = <<>> THEN Nil ELSE asked[c][Head(Pending(c)).id]
Answered(c) ==
    IF call[c] # Nil /\ ran[c] # <<>> /\ LastRan(c).id = Len(asked[c])
    THEN LastRan(c).answer ELSE Nil
Done(c) ==
    [i \in DOMAIN ran[c] |-> [request |-> ran[c][i].request, answer |-> ran[c][i].answer]]

\* The stubs implement the remote calls the code above them relies on.
Remote == INSTANCE RemoteCall WITH
    todo <- [c \in Clients |-> Todo(c)],
    ans <- [c \in Clients |-> Answered(c)],
    ran <- [c \in Clients |-> Done(c)]
ImplementsRemoteCall == Remote!Spec

\* Every call ends: it returns or throws.
CallsEnd == \A c \in Clients : call[c] # Nil ~> call[c] = Nil
=============================================================================
