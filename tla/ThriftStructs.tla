---------------------------- MODULE ThriftStructs ----------------------------
(***************************************************************************)
(* The structs that the generated Thrift stubs put on the wire.            *)
(*                                                                         *)
(* Client and proxy are built from separate copies of the generated code:  *)
(* pargs and presult are what the client writes and reads                  *)
(* (src/Client/TProxyService.cpp), args and result what the proxy reads and*)
(* writes (src/Proxy/TProxyService.cpp).  Nothing but the agreement of the *)
(* field numbers and types below makes a handler see its caller's values.  *)
(*                                                                         *)
(* Abstracted: a struct on the wire is the set of its fields.              *)
(***************************************************************************)
EXTENDS Naturals, Sequences

CONSTANTS
    Blobs,      \* binary values
    Nums,       \* values of GetNum
    Lists       \* lists of binary values

\* A schema says which field number and type carries which member.
Field(id, name, type) == [id |-> id, name |-> name, type |-> type]
Members(schema) == {f.name : f \in schema}

\* Binary members, numbered from 1, and a result.
Binaries(names) == {Field(i, names[i], "T_STRING") : i \in DOMAIN names}
Success(type) == {Field(0, "success", type)}

\* writeFieldBegin and the value, for every member.
Write(schema, struct) ==
    {[id |-> f.id, type |-> f.type, val |-> struct[f.name]] : f \in schema}

\* Fields of an unknown number or of another type are skipped.
Carries(x, f) == x.id = f.id /\ x.type = f.type
Complete(schema, fields) == \A f \in schema : \E x \in fields : Carries(x, f)
Read(schema, fields) ==
    [n \in Members(schema) |->
        (CHOOSE x \in fields : \E f \in schema : f.name = n /\ Carries(x, f)).val]

-----------------------------------------------------------------------------
(***************************************************************************)
(* For each method: the values its parameters take (TProxyService.h), then *)
(* the four schemas.                                                       *)
(***************************************************************************)
ProxyGet_values == [Trapdoor : Blobs]
ProxyGet_args == Binaries(<<"Trapdoor">>)
ProxyGet_result == Success("T_STRING")
ProxyGet_pargs == Binaries(<<"Trapdoor">>)
\* Mutant: the client expects a list, as from the other methods.
ProxyGet_presult_list == Success("T_LIST")
ProxyGet_presult == Success("T_STRING")

ProxyPut_values ==
    [Trapdoor : Blobs, Val : Blobs, IndexTrapdoor : Blobs, IndexVal : Blobs]
\* Mutant: the proxy takes its members in another order.
ProxyPut_args_moved ==
    Binaries(<<"Trapdoor", "IndexTrapdoor", "Val", "IndexVal">>)
ProxyPut_args == Binaries(<<"Trapdoor", "Val", "IndexTrapdoor", "IndexVal">>)
ProxyPut_result == {}
ProxyPut_pargs == Binaries(<<"Trapdoor", "Val", "IndexTrapdoor", "IndexVal">>)
ProxyPut_presult == {}

ProxyGetColumn_values ==
    [IndexTrapdoor : Blobs, IndexMask : Blobs, GetNum : Nums]
\* Mutant: the client sends the number as an i64.
ProxyGetColumn_pargs_i64 ==
    Binaries(<<"IndexTrapdoor", "IndexMask">>) \cup {Field(3, "GetNum", "T_I64")}
ProxyGetColumn_args ==
    Binaries(<<"IndexTrapdoor", "IndexMask">>) \cup {Field(3, "GetNum", "T_I32")}
ProxyGetColumn_result == Success("T_LIST")
ProxyGetColumn_pargs ==
    Binaries(<<"IndexTrapdoor", "IndexMask">>) \cup {Field(3, "GetNum", "T_I32")}
ProxyGetColumn_presult == Success("T_LIST")

EqualSearch1_values == [IndexTrapdoor : Blobs, IndexMask : Blobs]
EqualSearch1_args == Binaries(<<"IndexTrapdoor", "IndexMask">>)
EqualSearch1_result == Success("T_LIST")
EqualSearch1_pargs == Binaries(<<"IndexTrapdoor", "IndexMask">>)
EqualSearch1_presult == Success("T_LIST")

EqualSearch2_values == [IndexTrapdoor : Blobs, IndexMask : Blobs]
EqualSearch2_args == Binaries(<<"IndexTrapdoor", "IndexMask">>)
EqualSearch2_result == Success("T_LIST")
EqualSearch2_pargs == Binaries(<<"IndexTrapdoor", "IndexMask">>)
EqualSearch2_presult == Success("T_LIST")

OrderSearch_values == [IndexTrapdoor : Blobs, OrderLeft : Blobs]
OrderSearch_args == Binaries(<<"IndexTrapdoor", "OrderLeft">>)
OrderSearch_result == Success("T_LIST")
OrderSearch_pargs == Binaries(<<"IndexTrapdoor", "OrderLeft">>)
OrderSearch_presult == Success("T_LIST")

RunCommand_values == [command : Lists]
RunCommand_args == {Field(1, "command", "T_LIST")}
RunCommand_result == Success("T_LIST")
RunCommand_pargs == {Field(1, "command", "T_LIST")}
RunCommand_presult == Success("T_LIST")

EqualSearch1PlainText_values == [IndexTrapdoor : Blobs, IndexMask : Blobs]
EqualSearch1PlainText_args == Binaries(<<"IndexTrapdoor", "IndexMask">>)
EqualSearch1PlainText_result == Success("T_LIST")
EqualSearch1PlainText_pargs == Binaries(<<"IndexTrapdoor", "IndexMask">>)
EqualSearch1PlainText_presult == Success("T_LIST")

EqualSearch2PlainText_values == [IndexTrapdoor : Blobs, IndexMask : Blobs]
EqualSearch2PlainText_args == Binaries(<<"IndexTrapdoor", "IndexMask">>)
EqualSearch2PlainText_result == Success("T_LIST")
EqualSearch2PlainText_pargs == Binaries(<<"IndexTrapdoor", "IndexMask">>)
EqualSearch2PlainText_presult == Success("T_LIST")

OrderSearchPlainText_values == [IndexTrapdoor : Blobs, OrderLeft : Blobs]
OrderSearchPlainText_args == Binaries(<<"IndexTrapdoor", "OrderLeft">>)
OrderSearchPlainText_result == Success("T_LIST")
OrderSearchPlainText_pargs == Binaries(<<"IndexTrapdoor", "OrderLeft">>)
OrderSearchPlainText_presult == Success("T_LIST")
=============================================================================
