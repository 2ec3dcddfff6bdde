------------------------------ MODULE OreBlocks ------------------------------
(***************************************************************************)
(* What the two order-revealing schemes of src/fastore/ore_blk.cpp have in *)
(* common.  A message is cut into NBlocks blocks; a block is permuted, and *)
(* the keys of its slots are derived, under the number of the block and    *)
(* the prefix, the blocks before it.                                       *)
(*                                                                         *)
(* Abstracted: AES under different inputs does not collide, so a PRF value *)
(* is the tuple of its inputs, and a mask is only removed by its own key.  *)
(***************************************************************************)
EXTENDS FeistelPrp

CONSTANTS
    NBlocks,      \* nblocks: CEIL(nbits, block_len)
    Weight,       \* Weight[b]: 1 << (block_len * (nblocks - b))
    PrpKeys,      \* what a secret key makes of a block's number and prefix
    Cols,         \* table and column names, hashed into a comparison
    Rows,         \* row numbers: counters of index entries
    Nil

NSlots == Width * Width
Idx == 0 .. NBlocks - 1
Slots == 0 .. NSlots - 1
Msgs == 0 .. Weight[0] - 1

ASSUME SizeAssumption ==
    /\ NBlocks \in Nat \ {0}
    /\ Weight \in [0 .. NBlocks -> Nat \ {0}]
    /\ Weight[NBlocks] = 1
    /\ \A b \in Idx : Weight[b] = NSlots * Weight[b + 1]

\* cur_block and prefix in turn b of the loop over the blocks.  The mask of
\* ore_setup_helper has 64 bits, an OREHelper's messages have 32: none is lost.
BlockOf(m, b) == (m \div Weight[b + 1]) % NSlots
Prefix(m, b) == m \div Weight[b]

ASSUME KeyAssumption == \A k \in PrpKeys, b \in Idx, m \in Msgs : k[b][Prefix(m, b)] \in Keys3

\* prp_eval of the block, and prp_inv_eval_all, in turn b.
Pi(k, m, b) == prp_eval(k[b][Prefix(m, b)], BlockOf(m, b))
PiInv(k, m, b) == prp_inv_eval_all(k[b][Prefix(m, b)])

\* The PRF key of slot j: aes_eval(prf_key, MAKE_BLOCK(i, prefix_shifted | j)).
SlotKey(m, b, j) == <<b, Prefix(m, b) * NSlots + j>>

\* v: how block c of a slot compares with the encrypted block d.
Side(c, d) == IF c = d THEN "EQUAL" ELSE IF c < d THEN "SMALL" ELSE "LARGE"
=============================================================================
