-------------------------- MODULE SimConHashProofs --------------------------
(***************************************************************************)
(* What the router guarantees for every number of nodes and every word.    *)
(***************************************************************************)
EXTENDS SimConHash, WellFoundedInduction, TLAPS

\* A non-empty set of naturals has a least element.
LEMMA LeastElement ==
    ASSUME NEW S, S \subseteq Nat, S # {}
    PROVE  \E x \in S : \A y \in S : x <= y
<1>1. PICK x \in S : \A y \in S : ~(<<y, x>> \in OpToRel(<, Nat))
  BY NatLessThanWellFounded, WFMin
<1>2. ASSUME NEW y \in S PROVE x <= y
  <2>1. x \in Nat /\ y \in Nat
    OBVIOUS
  <2>2. ~(y < x)
    <3>1. y < x => <<y, x>> \in OpToRel(<, Nat)
      BY <2>1, Zenon DEF OpToRel
    <3> QED BY <1>1, <3>1
  <2> QED BY <2>1, <2>2
<1> QED BY <1>2

\* SimConHash::Query finds exactly one node for every word: the loop either
\* stops at the first bound above the word or falls through to the last node.
THEOREM QueryUnique ==
    ASSUME NEW word \in Word
    PROVE  /\ Query(word) \in Nodes /\ IsRoute(word, Query(word))
           /\ \A n \in Nodes : IsRoute(word, n) => n = Query(word)
<1> DEFINE S == {n \in Nodes : Below(word, n) \/ n = NodeNum - 1}
<1> USE RouterAssumption DEF RouterAssumption
<1>1. S \subseteq Nat /\ S # {}
  <2>1. NodeNum - 1 \in Nodes
    BY DEF Nodes
  <2>2. Nodes \subseteq Nat
    BY DEF Nodes
  <2> QED BY <2>1, <2>2, Zenon
<1>2. PICK x \in S : \A y \in S : x <= y
  BY <1>1, LeastElement
<1>3. x \in Nodes /\ IsRoute(word, x)
  BY <1>2 DEF IsRoute, Nodes
<1>4. Query(word) \in Nodes /\ IsRoute(word, Query(word))
  BY <1>3 DEF Query
<1>5. ASSUME NEW n \in Nodes, IsRoute(word, n) PROVE n = Query(word)
  BY <1>4, <1>5 DEF IsRoute, Nodes
<1> QED BY <1>4, <1>5

=============================================================================
