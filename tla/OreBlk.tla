-------------------------------- MODULE OreBlk --------------------------------
(***************************************************************************)
(* The order-revealing encryption behind range queries: ore_setup_helper   *)
(* and ore_compare of src/fastore/ore_blk.cpp, called by an OREHelper.     *)
(*                                                                         *)
(* The left ciphertext (of a query) has for every block the slot a secret  *)
(* permutation gives the block, the key of that slot, and the comparison it*)
(* asks for.  The right one (of an index entry) has for every block and    *)
(* slot a comparison code, masked under the key of the slot.  Permutation  *)
(* and keys depend on the blocks before, so only equal prefixes can be     *)
(* compared any further.                                                   *)
(***************************************************************************)
EXTENDS OreBlocks

CONSTANTS PassedQueries, PassedEntries   \* whose ciphertexts reach a helper from elsewhere

Aims == {"SMALL", "LARGE"}

Queries == [msg : Msgs, col : Cols, aim : Aims]
Entries == [msg : Msgs, col : Cols, row : Rows]
ASSUME NilAssumption == Nil \notin Queries \cup Entries \cup Rows
ASSUME PassedAssumption == PassedQueries \subseteq Queries /\ PassedEntries \subseteq Entries

VARIABLES
    keys,     \* the round keys of the secret key's PRP
    left,     \* m_query->comp_left: ciphertext blocks
    right,    \* m_index->comp_right: ciphertext blocks
    asked,    \* what left encrypts (Nil: nothing yet)
    hidden,   \* what right encrypts (Nil: nothing yet)
    rnum,     \* uiCounter of the running CompareORE (Nil: none is running)
    i,        \* its loop variable
    result    \* *result_p of the last comparison (Nil: none)

vars == <<keys, left, right, asked, hidden, rnum, i, result>>

-----------------------------------------------------------------------------
LeftBlock(k, x, col, aim, b) ==
    LET s == Pi(k, x, b) IN
    [slot |-> s, key |-> SlotKey(x, b, s), cmp |-> <<col, s, aim>>]

RightBlock(k, y, col, row, b) ==
    LET inv == PiInv(k, y, b) IN
    [j \in Slots |-> [key |-> SlotKey(y, b, j), row |-> row,
                      cmp |-> <<col, j, Side(inv[j], BlockOf(y, b))>>]]

LeftOf(k, x, col, aim) == [b \in Idx |-> LeftBlock(k, x, col, aim, b)]
RightOf(k, y, col, row) == [b \in Idx |-> RightBlock(k, y, col, row, b)]

-----------------------------------------------------------------------------
Init ==
    /\ keys \in PrpKeys
    /\ left = Nil /\ right = Nil
    /\ asked = Nil /\ hidden = Nil
    /\ rnum = Nil /\ i = 0 /\ result = Nil

\* OREHelper::CreateLeft: iCmp > 0 asks for the entries below the query.
CreateLeft(iCmp, col, x) ==
    LET aim == IF iCmp > 0 THEN "LARGE" ELSE "SMALL" IN
    /\ rnum = Nil
    /\ left' = LeftOf(keys, x, col, aim)
    /\ asked' = [msg |-> x, col |-> col, aim |-> aim]
    /\ result' = Nil
    /\ UNCHANGED <<keys, right, hidden, rnum, i>>

\* OREHelper::CreateRight.
CreateRight(col, row, y) ==
    /\ rnum = Nil
    /\ right' = RightOf(keys, y, col, row)
    /\ hidden' = [msg |-> y, col |-> col, row |-> row]
    /\ result' = Nil
    /\ UNCHANGED <<keys, left, asked, rnum, i>>

\* OREHelper::CompareORE, up to the loop of ore_compare: the ciphertexts it is
\* passed, of query q and entry e, are copied over what the buffers held.
CompareORE(row, q, e) ==
    /\ rnum = Nil /\ q # Nil /\ e # Nil
    /\ left' = LeftOf(keys, q.msg, q.col, q.aim) /\ asked' = q
    /\ right' = RightOf(keys, e.msg, e.col, e.row) /\ hidden' = e
    /\ rnum' = row /\ i' = 0 /\ result' = Nil
    /\ UNCHANGED keys

Cell == right[i][left[i].slot]
\* Mutant: any code under the right key is taken for equality.
KeyFits(cell, blk) == cell.key = blk.key
\* r = 0: the key of the query's slot removes the mask, and there is no code.
IsZero(cell, blk) == cell.key = blk.key /\ cell.cmp[3] = "EQUAL"
\* g = r: it leaves the comparison asked for, bound to the row.
Accepts(cell, blk, row) == cell.key = blk.key /\ cell.cmp = blk.cmp /\ cell.row = row

\* One turn of the loop of ore_compare: the blocks are equal, or it returns.
NextBlock ==
    /\ rnum # Nil /\ i < NBlocks
    /\ IsZero(Cell, left[i])
    /\ i' = i + 1
    /\ UNCHANGED <<keys, left, right, asked, hidden, rnum, result>>

Decide ==
    /\ rnum # Nil /\ i < NBlocks
    /\ ~IsZero(Cell, left[i])
    /\ result' = [row |-> rnum, res |-> IF Accepts(Cell, left[i], rnum) THEN 1 ELSE -1]
    /\ rnum' = Nil
    /\ UNCHANGED <<keys, left, right, asked, hidden, i>>

AllEqual ==
    /\ rnum # Nil /\ i = NBlocks
    /\ result' = [row |-> rnum, res |-> 0]
    /\ rnum' = Nil
    /\ UNCHANGED <<keys, left, right, asked, hidden, i>>

Next ==
    \/ \E iCmp \in {-1, 1}, col \in Cols, x \in Msgs : CreateLeft(iCmp, col, x)
    \/ \E col \in Cols, row \in Rows, y \in Msgs : CreateRight(col, row, y)
    \/ \E row \in Rows, q \in PassedQueries \cup {asked}, e \in PassedEntries \cup {hidden} :
           CompareORE(row, q, e)
    \/ NextBlock
    \/ Decide
    \/ AllEqual

Spec == Init /\ [][Next]_vars

-----------------------------------------------------------------------------
(***************************************************************************)
(* PROPERTIES                                                              *)
(***************************************************************************)

\* The relation a query asks for.
Holds(aim, x, y) == (aim = "LARGE" /\ x > y) \/ (aim = "SMALL" /\ x < y)

\* A comparison says 1 exactly if the plain values are in the relation the
\* query asked for, and query and entry agree on the column and the row key;
\* it says 0 exactly if the values are equal, in any column and row. This is
\* ore_compare's result as CompareORE hands it to the proxy's OrderSearch.
CompareCorrect ==
    result # Nil =>
        /\ result.res = 1 <=>
             /\ Holds(asked.aim, asked.msg, hidden.msg)
             /\ asked.col = hidden.col /\ result.row = hidden.row
        /\ result.res = 0 <=> asked.msg = hidden.msg

\* While ore_compare walks the blocks, all the blocks it has passed are equal:
\* it never goes on behind a difference, where keys and slots mean nothing.
PassedBlocksEqual ==
    rnum # Nil => Prefix(asked.msg, i) = Prefix(hidden.msg, i)

=============================================================================
