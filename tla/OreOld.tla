-------------------------------- MODULE OreOld --------------------------------
(***************************************************************************)
(* The older scheme of src/fastore/ore_blk.cpp, which only the program     *)
(* Test/test_ore_blk.cpp calls: ore_blk_encrypt_ui makes both halves of a  *)
(* ciphertext, ore_blk_query the codes to look for, and ore_blk_compare    *)
(* returns the number of the first block in which the left half of the     *)
(* first ciphertext opens such a code in the right half of the second.     *)
(* The program encrypts each ciphertext once, then asks.                   *)
(*                                                                         *)
(* Unlike ore_setup_helper it cuts the blocks out with a block_mask of 32  *)
(* bits: if all the blocks together have more, the mask loses its high     *)
(* bits, and every block the same ones of its own.                         *)
(***************************************************************************)
EXTENDS OreBlocks

CONSTANTS
    MaskEnds,     \* 2^32, the number of values of a uint32_t (an instance may
                  \* have several, for messages that fit the mask or do not)
    OldKeys       \* what a secret key makes of a block's number and prefix

Relations == {"SMALL", "EQUAL", "LARGE"}
Code == [SMALL |-> 1, EQUAL |-> 2, LARGE |-> 3]

\* What is encrypted, and the blocks of a ciphertext.
Plaintexts == [msg : Msgs, col : Cols, row : Rows]
Prefixes == UNION {[0 .. b - 1 -> Slots] : b \in Idx}
BlockKeys == Idx \X Prefixes \X Slots
Blocks == [slot : Slots, key : BlockKeys,
           cell : [Slots -> [key : BlockKeys, row : Rows, cmp : Cols \X Nat]]]

\* block_mask is shifted by block_len * (nblocks - 1), which is undefined for 32.
ASSUME MaskAssumption == \A e \in MaskEnds : e \in Nat /\ Weight[1] < e
ASSUME OldKeyAssumption == OldKeys \subseteq [Idx -> [Prefixes -> Keys3]]
ASSUME OldAssumption == Nil \notin Plaintexts /\ Nil \notin [Idx -> Blocks]

VARIABLES
    maskEnd,   \* the number of values of block_mask's type
    sk,        \* the round keys of the secret key's PRP
    ctxt,      \* ctxt1 and ctxt2 (Nil: nothing yet)
    cmp_query, \* the codes of the query (Nil: nothing yet)
    plain,     \* history: what each ciphertext encrypts
    goal,      \* history: what cmp_query asks for
    res        \* *result_p of the last comparison (Nil: none)

oldVars == <<maskEnd, sk, ctxt, cmp_query, plain, goal, res>>

OldInit ==
    /\ maskEnd \in MaskEnds
    /\ sk \in OldKeys
    /\ ctxt = [c \in 1 .. 2 |-> Nil]
    /\ cmp_query = Nil
    /\ plain = [c \in 1 .. 2 |-> Nil]
    /\ goal = Nil
    /\ res = Nil

-----------------------------------------------------------------------------
\* i << 1 | v.  The low bit of i lies on the high bit of v: in an odd slot
\* SMALL and LARGE are one.
Tag(j, v) == IF j % 2 = 0 THEN 2 * j + Code[v] ELSE 2 * j + (Code[v] % 2)

\* The values of a block that block_mask lets through.
MaskValues == IF Weight[0] <= maskEnd THEN NSlots ELSE maskEnd \div Weight[1]

\* cur_block in turn b of the loop over the blocks, and prefix: the number the
\* blocks before it are shifted together to is the tuple of these blocks.
CutBlock(m, b) == BlockOf(m, b) % MaskValues
CutPrefix(m, b) == [c \in 0 .. b - 1 |-> CutBlock(m, c)]

\* pix, pi_inv and the keys of the slots in _ore_blk_encrypt_block.
OldPi(m, b) == prp_eval(sk[b][CutPrefix(m, b)], CutBlock(m, b))
OldPiInv(m, b) == prp_inv_eval_all(sk[b][CutPrefix(m, b)])
OldSlotKey(m, b, j) == <<b, CutPrefix(m, b), j>>

EncryptBlock(x, col, row, b) ==
    LET inv == OldPiInv(x, b) IN
    [slot |-> OldPi(x, b), key |-> OldSlotKey(x, b, OldPi(x, b)),
     cell |-> [j \in Slots |-> [key |-> OldSlotKey(x, b, j), row |-> row,
                                cmp |-> <<col, Tag(j, Side(inv[j], CutBlock(x, b)))>>]]]

ore_blk_encrypt_ui(c, x, col, row) ==
    /\ ctxt[c] = Nil
    /\ ctxt' = [ctxt EXCEPT ![c] = [b \in Idx |-> EncryptBlock(x, col, row, b)]]
    /\ plain' = [plain EXCEPT ![c] = [msg |-> x, col |-> col, row |-> row]]
    /\ res' = Nil
    /\ UNCHANGED <<maskEnd, sk, cmp_query, goal>>

\* The caller asks about what it has encrypted in ctxt1.
ore_blk_query(aim, col) ==
    /\ plain[1] # Nil
    /\ cmp_query' = [b \in Idx |-> <<col, Tag(OldPi(plain[1].msg, b), aim)>>]
    /\ goal' = [msg |-> plain[1].msg, col |-> col, aim |-> aim]
    /\ res' = Nil
    /\ UNCHANGED <<maskEnd, sk, ctxt, plain>>

\* The row key of ore_blk_compare is that of row 1.
Opens(b) ==
    LET cell == ctxt[2][b].cell[ctxt[1][b].slot] IN
    cell.key = ctxt[1][b].key /\ cell.cmp = cmp_query[b] /\ cell.row = 1

\* Mutant: the last block that fits is returned.
LastBlock(B) == CHOOSE b \in B : \A c \in B : b >= c
FirstBlock(B) == CHOOSE b \in B : \A c \in B : b <= c

ore_blk_compare ==
    LET B == {b \in Idx : Opens(b)} IN
    /\ cmp_query # Nil /\ \A c \in 1 .. 2 : ctxt[c] # Nil
    /\ res' = IF B = {} THEN 0 ELSE FirstBlock(B) + 1
    /\ UNCHANGED <<maskEnd, sk, ctxt, cmp_query, plain, goal>>

OldNext ==
    \/ \E c \in 1 .. 2, x \in Msgs, col \in Cols, row \in Rows :
           ore_blk_encrypt_ui(c, x, col, row)
    \/ \E aim \in Relations, col \in Cols : ore_blk_query(aim, col)
    \/ ore_blk_compare

OldSpec == OldInit /\ [][OldNext]_oldVars

-----------------------------------------------------------------------------
(***************************************************************************)
(* PROPERTIES                                                              *)
(***************************************************************************)
Relation(x, y) == IF x = y THEN "EQUAL" ELSE IF x > y THEN "LARGE" ELSE "SMALL"

\* How two messages compare as they are cut: by the first block that differs.
Differing(x, y) == {b \in Idx : CutBlock(x, b) # CutBlock(y, b)}
Decides(x, y, b) == b \in Differing(x, y) /\ \A c \in Differing(x, y) : b <= c
CutRelation(x, y) ==
    IF Differing(x, y) = {} THEN "EQUAL"
    ELSE LET b == CHOOSE b \in Idx : Decides(x, y, b)
         IN Side(CutBlock(x, b), CutBlock(y, b))

\* In its column and in row 1 a comparison never misses the relation it asks
\* for, which is that of the messages if all their blocks fit block_mask, and
\* otherwise that of the bits the mask leaves of each block.  It returns the
\* number of the block that decides, or 1 if none differs; in other columns and
\* rows it returns 0 (ore_blk.cpp:533-598; not 1, -1 or 0 for greater, less and
\* equal, which is what ore_blk.h:142-145 says of it).
DecidingBlock ==
    res # Nil =>
        LET fits == goal.col = plain[2].col /\ plain[2].row = 1
            x == plain[1].msg
            y == plain[2].msg
        IN /\ res > 0 => fits
           /\ fits /\ goal.aim = CutRelation(x, y) =>
                IF Differing(x, y) = {} THEN res = 1 ELSE Decides(x, y, res - 1)
           /\ res > 0 /\ goal.aim # "EQUAL" => Decides(x, y, res - 1)
           /\ Weight[0] <= maskEnd => CutRelation(x, y) = Relation(x, y)

\* What test_ore_blk.cpp:152-160 asserts: a comparison that does not ask for
\* the relation of the two plaintexts does not find it.
OnlyTheRelation ==
    res # Nil /\ res > 0 => goal.aim = Relation(plain[1].msg, plain[2].msg)
=============================================================================
