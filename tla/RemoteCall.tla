----------------------------- MODULE RemoteCall -----------------------------
(***************************************************************************)
(* What the code above the Thrift stubs may assume of a call to a proxy,   *)
(* and what the calls of ClientCpp in EncKV and PlainKV are built on.      *)
(*                                                                         *)
(* A call runs its handler at most once, on the arguments it was given; if *)
(* it returns, the handler has run to its end during the call and the value*)
(* is the handler's answer; if it throws, the handler may have run, may run*)
(* later, or may never run.  Calls of one client are one after the other.  *)
(***************************************************************************)
EXTENDS Naturals, Sequences

CONSTANTS
    Clients,    \* connections of clients to a proxy
    Requests,   \* what may be asked: method and arguments
    Answers,    \* what a handler may answer; Failure is an exception
    Failure, Nil

VARIABLES
    call,   \* the request of the call each client is in, or Nil
    todo,   \* a request of the client whose handler has still to run, or Nil
    ans,    \* the answer of the handler of that call once it has run, or Nil
    ran,    \* every handler that has run for each client, and its answer
    out     \* how each client's last call ended: Nil, Failure or an answer

vars == <<call, todo, ans, ran, out>>

Init ==
    /\ call = [c \in Clients |-> Nil]
    /\ todo = [c \in Clients |-> Nil]
    /\ ans = [c \in Clients |-> Nil]
    /\ ran = [c \in Clients |-> <<>>]
    /\ out = [c \in Clients |-> Nil]

\* A call starts, and its handler has to run.
Begin(c, r) ==
    /\ call[c] = Nil /\ todo[c] = Nil
    /\ call' = [call EXCEPT ![c] = r]
    /\ todo' = [todo EXCEPT ![c] = r]
    /\ out' = [out EXCEPT ![c] = Nil]
    /\ UNCHANGED <<ans, ran>>

\* The handler runs to its end, perhaps after its caller has given up.
Run(c, a) ==
    /\ todo[c] # Nil
    /\ ran' = [ran EXCEPT ![c] = Append(@, [request |-> todo[c], answer |-> a])]
    /\ ans' = [ans EXCEPT ![c] = IF call[c] = Nil THEN Nil ELSE a]
    /\ todo' = [todo EXCEPT ![c] = Nil]
    /\ UNCHANGED <<call, out>>

\* Requests are lost, with a connection or with the proxy.
Lose(cs) ==
    /\ todo' = [c \in Clients |-> IF c \in cs THEN Nil ELSE todo[c]]
    /\ UNCHANGED <<call, ans, ran, out>>

Return(c) ==
    /\ call[c] # Nil /\ ans[c] \notin {Nil, Failure}
    /\ out' = [out EXCEPT ![c] = ans[c]]
    /\ call' = [call EXCEPT ![c] = Nil]
    /\ ans' = [ans EXCEPT ![c] = Nil]
    /\ UNCHANGED <<todo, ran>>

Throw(c) ==
    /\ call[c] # Nil
    /\ out' = [out EXCEPT ![c] = Failure]
    /\ call' = [call EXCEPT ![c] = Nil]
    /\ ans' = [ans EXCEPT ![c] = Nil]
    /\ UNCHANGED <<todo, ran>>

\* A call on a connection known to be broken: nothing of it will run.
Refuse(c) ==
    /\ call[c] = Nil
    /\ out' = [out EXCEPT ![c] = Failure]
    /\ UNCHANGED <<call, todo, ans, ran>>

Next ==
    \/ \E cs \in SUBSET Clients : Lose(cs)
    \/ \E c \in Clients :
        \/ \E r \in Requests : Begin(c, r)
        \/ \E a \in Answers \cup {Failure} : Run(c, a)
        \/ Return(c) \/ Throw(c) \/ Refuse(c)

Spec == Init /\ [][Next]_vars
=============================================================================
