------------------------------- MODULE MCOreBlk -------------------------------
(***************************************************************************)
(* Small instances of the two order-revealing schemes: a behaviour is one  *)
(* of OreBlk or of OreOld.  Two blocks of two bits, the smallest even block*)
(* length (crypto.cpp:258 and :318 refuse odd ones), and round keys that   *)
(* are others for every prefix.                                            *)
(***************************************************************************)
EXTENDS OreBlk, OreOld, TLC

\* Halves are single bits.
MCXor(a, b) == (a + b) % 2
MCWeight == [b \in 0 .. NBlocks |-> NSlots ^ (NBlocks - b)]
MCKeys == {[b \in Idx |-> [p \in 0 .. NSlots ^ b - 1 |-> [r \in 0 .. 2 |->
                [h \in Halves |-> (IF r = 0 THEN p ELSE h + b) % Width]]]]}
\* Sixteen values: all messages fit the mask.  Eight: of every block only the
\* low bit is left.
MCMaskEnds == {8, 16}
MCOldKeys == {[b \in Idx |-> [p \in Prefixes |-> [r \in 0 .. 2 |-> [h \in Halves |->
                (IF r > 0 THEN h + b ELSE IF DOMAIN p = {} THEN 0 ELSE p[0]) % Width]]]]}
MCWideMask == {16}
\* What CompareORE gets from other processes, beside what the helper made itself.
MCQueries == {[msg |-> 6, col |-> c, aim |-> "LARGE"] : c \in Cols}
MCEntries == {[msg |-> 5, col |-> c, row |-> 1] : c \in Cols}
ColSymmetry == Permutations(Cols)

VARIABLE which

MCInit == which \in {"OreBlk", "OreOld"} /\ Init /\ OldInit
MCNext ==
    /\ UNCHANGED which
    /\ \/ which = "OreBlk" /\ Next /\ UNCHANGED oldVars
       \/ which = "OreOld" /\ OldNext /\ UNCHANGED vars
MCSpec == MCInit /\ [][MCNext]_<<which, vars, oldVars>>
=============================================================================
