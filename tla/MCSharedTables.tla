--------------------------- MODULE MCSharedTables ---------------------------
(***************************************************************************)
(* Small instances of the two tables, ConHash or BukHash: a behaviour is   *)
(* one of the one or of the other.                                         *)
(*                                                                         *)
(* ConHash: two words per block; one datum begins with a zero word, so     *)
(* that a block that holds it begins like an empty one, and one is all     *)
(* zeros, which leaves a block empty but counts.  BukHash: widths 11 and   *)
(* 9, or 9 alone; 9 and 108 share both slots, 20 one with them.            *)
(***************************************************************************)
EXTENDS ConHash, BukHash

MCSizes == {<<12, 2>>, <<10, 1>>}
MCData == {<<1, 1>>, <<0, 2>>, <<0, 0>>}

VARIABLE which

MCInit == which \in {"ConHash", "BukHash"} /\ Start /\ BukStart
MCNext ==
    /\ UNCHANGED which
    /\ \/ which = "ConHash" /\ Next /\ UNCHANGED bukVars
       \/ which = "BukHash" /\ BukNext /\ UNCHANGED vars

MCSpec == MCInit /\ [][MCNext]_<<which, vars, bukVars>> /\ Fairness
=============================================================================
