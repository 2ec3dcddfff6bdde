----------------------------- MODULE SimConHash -----------------------------
(***************************************************************************)
(* The client's request router, src/Client/SimConHash.h as ClientCpp::Init *)
(* fills it.  A trapdoor word in 0 .. WordMax is mapped to one of NodeNum  *)
(* data nodes by comparing it with the upper bounds m_arCondition.         *)
(*                                                                         *)
(* Abstracted: WordMax stands for (uint32_t)-1, so that TLC can use short  *)
(* words; the bounds are below WordMax, so no uint32_t product wraps.      *)
(***************************************************************************)
EXTENDS Integers

CONSTANTS WordMax, NodeNum

(***************************************************************************)
(* At least one node, and words wide enough for every Interval to be       *)
(* positive: with 32-bit words and the MaxNodeNum = 100 entries of the     *)
(* ring (SimConHash.h:11) that always holds.                               *)
(***************************************************************************)
ASSUME RouterAssumption ==
    /\ NodeNum \in Nat \ {0}
    /\ WordMax \in Nat
    /\ WordMax \div NodeNum > 5

Word == 0 .. WordMax
Nodes == 0 .. NodeNum - 1

\* uiInterval of ClientCpp::Init.
Interval == WordMax \div NodeNum - 5

\* m_arCondition[n], as InsertNode(uiInterval * (n + 1), ...) stores it.
Condition(n) == Interval * (n + 1)

\* The words node n answers for: the first bound above the word is its own.
Below(word, n) == word < Condition(n)

(***************************************************************************)
(* SimConHash::Query: the first node whose bound is above the word, and    *)
(* the last node for the words above every bound.                          *)
(***************************************************************************)
IsRoute(word, n) ==
    /\ \A m \in Nodes : m < n => ~Below(word, m)
    /\ Below(word, n) \/ n = NodeNum - 1

Query(word) == CHOOSE n \in Nodes : IsRoute(word, n)

=============================================================================
