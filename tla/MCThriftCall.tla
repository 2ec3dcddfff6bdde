---------------------------- MODULE MCThriftCall ----------------------------
(***************************************************************************)
(* A small instance of ThriftCall.  Two values of each type tell the       *)
(* members of a struct and the answers of two calls apart.  The first call *)
(* of a connection may be any of the ten, with any arguments; those after  *)
(* it are ProxyGets.                                                       *)
(***************************************************************************)
EXTENDS ThriftCall

CONSTANTS b1, b2, n1, n2, l1, l2

MCBlobs == {b1, b2}
MCNums == {n1, n2}
MCLists == {l1, l2}

OneOfEach ==
    \A c \in Clients : LET n == Len(asked'[c]) IN
        n > 1 => asked'[c][n].name = "ProxyGet"

MCSpec == Init /\ [][Next /\ OneOfEach]_vars /\ Fairness
=============================================================================
