------------------------------- MODULE MCEncKV -------------------------------
(***************************************************************************)
(* Small instances of EncKV.  Words 0 .. 99 and two nodes: bounds 44 and   *)
(* 88, so 10 goes to node 0, 60 and 95 to node 1.                          *)
(***************************************************************************)
EXTENDS EncKV

MCCols == {"Score"}

\* Keys 1 and 3 live on node 0, key 2 on node 1 (by both of its words).
MCWord == [td \in Keys \X MCCols |-> IF td[1] = 2 THEN 95 ELSE 10 * td[1] + 1]

\* A trapdoor whose first word and whose xor of words point to other nodes.
MCOtherWord == [td \in Keys \X MCCols |-> IF td[1] = 2 THEN 43 ELSE 10]

Pairs == {{"v1"}, {"v1", "ore"}, {"v2", "col"}}
V1Only == {{"v1"}}
Each == {{"col", "v1", "v2", "ore"}}

\* A Put without any index is always possible: no bound stops the writer.
V2OrNone == {{"v1", "v2"}, {}}

\* In all, two of the faults there are.
TwoFaults == fails + refusals + restarts <= 2
\* Either of throws and restarts, or of refused commands.
OneSortOfFault == refusals = 0 \/ fails + restarts = 0
\* Refused SETs are for EncKVFail; a walk meets their holes like those of throws.
OnlyGetsRefused == refusedIndex' = {} /\ refusedData' = {}

\* With the one value of EncKVLive both directions of a range find nothing, and
\* a Get that is answered is the business of EncKVSearch.
OneDirection == \A p \in Clients :
    /\ qry'[p] # Nil => qry'[p].cmp # "SMALL"
    /\ got'[p] # Nil => got'[p].ans = ErrorText

\* The second process of EncKVLive inserts record 1 only.
SecondPutsOne == \A p \in Clients :
    restarts > 0 /\ put[p] = Nil /\ put'[p] # Nil => put'[p].td[1] = 1

\* In EncKVFail record 3 is Put once, record 1 again and again.
OnePutOfThree == \A p \in Clients :
    put[p] = Nil /\ put'[p] # Nil /\ put'[p].td[1] = 3 =>
        put'[p].val = 5 /\ \A r \in issued : r.td[1] # 3

(***************************************************************************)
(* EncKVSearch has behaviours of two sorts.  Either no record is Put again *)
(* and readers make every kind of query, or the records of two nodes are   *)
(* Put, with Strategy I alone, as often as the counters allow, and readers *)
(* search by it and Get.  No step tells two values apart there, so that   *)
(* one of them is enough to search for.                                    *)
(***************************************************************************)
Asks(kinds) == \A p \in Clients :
    /\ qry'[p] # Nil => qry'[p].kind \in kinds
    /\ got'[p] # Nil => "get" \in kinds
WrittenOnce == \A p \in Clients :
    put[p] = Nil /\ put'[p] # Nil => acked[put'[p].td] = Nil
TwoSorts ==
    LET written == issued' \cup ({put'[p] : p \in Clients} \ {Nil}) IN
    IF \E r \in written : r.kinds = {"v1"}
    THEN (\A r \in written : r.kinds = {"v1"} /\ r.td[1] # 3) /\ Asks({"v1", "get"})
         /\ \A p \in Clients : qry'[p] # Nil => qry'[p].val = 5
    ELSE WrittenOnce /\ Asks(Kinds)

=============================================================================
