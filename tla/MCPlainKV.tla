----------------------------- MODULE MCPlainKV -----------------------------
(***************************************************************************)
(* A small instance of PlainKV: ints of three bits, so that 6 is stored as *)
(* -2; a key of digits whose two columns live on different nodes, a second *)
(* one next to it on node 0, so that a range query has read a number when  *)
(* the next answer is an error, and a third that only begins with a digit. *)
(* The two writers are interchangeable.  So are, to all but ranges, the    *)
(* second key and the third, and to searches the two values: there one of  *)
(* them is enough.  Both values are Put under the first key only.          *)
(***************************************************************************)
EXTENDS PlainKV, TLC

CONSTANTS w1, w2, r1

MCWord == [rec \in Keys \X Cols |-> IF rec = <<"1", "b">> THEN 95 ELSE 10]
WriterSymmetry == Permutations(Writers)
SearchOne == \A p \in Clients : qry'[p] # Nil /\ qry'[p].kind # "ore" => qry'[p].val = Signed(6)
PutOne == \A p \in Clients : put'[p] # Nil /\ put'[p].at[2] # "1" =>
    /\ put'[p].val = Signed(6)
    /\ put'[p].at[2] = "2b" => "ore" \in put'[p].flags
MCFlags == {{"v1", "ore"}, {"v2"}}
=============================================================================
