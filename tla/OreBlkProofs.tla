---------------------------- MODULE OreBlkProofs ----------------------------
(***************************************************************************)
(* The block cipher's network is a permutation of its domain, whatever the *)
(* round keys, and the inverse evaluation undoes it: one round is undone   *)
(* by the same round between two exchanges of the halves, and the inverse  *)
(* network does so three times, with the round keys in reverse order.      *)
(*                                                                         *)
(* ore_compare agrees with the comparison of the plain values, for every   *)
(* number and width of blocks and all keys.  The arithmetic comes first: a *)
(* prefix extended by its block is the next prefix, so a first difference  *)
(* of blocks decides the whole comparison.  The inductive invariant says   *)
(* what the buffers encrypt, and that the blocks the loop has passed are   *)
(* equal.                                                                  *)
(*                                                                         *)
(* The older scheme, OreOld, never misses the relation it is asked for:    *)
(* the first block that differs is found by a least counterexample, and    *)
(* the code it opens is that of the relation.  What the mask leaves of a   *)
(* block is its remainder by a number that is at least 1; messages that    *)
(* fit the mask lose nothing, so that they compare like the numbers.       *)
(***************************************************************************)
EXTENDS OreBlk, OreOld, WellFoundedInduction, TLAPS

-----------------------------------------------------------------------------
(***************************************************************************)
(* Division.                                                               *)
(***************************************************************************)

\* Quotient and remainder, as cut out of a message by shifts and masks.
LEMMA DivMod ==
    ASSUME NEW m \in Nat, NEW d \in Nat \ {0}
    PROVE  /\ m \div d \in Nat /\ m % d \in 0 .. d - 1
           /\ m = d * (m \div d) + (m % d)
BY SMT

\* The quotient is the only one that leaves a remainder below the divisor.
LEMMA DivUnique ==
    ASSUME NEW m \in Nat, NEW d \in Nat \ {0}, NEW q \in Nat, NEW r \in 0 .. d - 1,
           m = d * q + r
    PROVE  m \div d = q
<1>1. /\ m \div d \in Nat /\ m % d \in 0 .. d - 1
      /\ m = d * (m \div d) + (m % d)
  BY DivMod
<1> DEFINE p == m \div d
           s == m % d
<1>2. ASSUME p < q PROVE FALSE
  <2>1. p + 1 <= q  BY <1>1, <1>2
  <2>2. d * (p + 1) <= d * q  BY <2>1, <1>1, SMT
  <2>3. d * (p + 1) = d * p + d  BY <1>1, SMT
  <2> QED  BY <2>2, <2>3, <1>1, SMT
<1>3. ASSUME p > q PROVE FALSE
  <2>1. q + 1 <= p  BY <1>1, <1>3
  <2>2. d * (q + 1) <= d * p  BY <2>1, <1>1, SMT
  <2>3. d * (q + 1) = d * q + d  BY SMT
  <2> QED  BY <2>2, <2>3, <1>1, SMT
<1> QED  BY <1>1, <1>2, <1>3, SMT

\* Cutting twice is cutting once.
LEMMA DivDiv ==
    ASSUME NEW m \in Nat, NEW d \in Nat \ {0}, NEW s \in Nat \ {0}
    PROVE  m \div (s * d) = (m \div d) \div s
<1> DEFINE q == m \div d
           r == m % d
           p == q \div s
           t == q % s
<1>1. q \in Nat /\ r \in 0 .. d - 1 /\ m = d * q + r
  BY DivMod
<1>2. p \in Nat /\ t \in 0 .. s - 1 /\ q = s * p + t
  BY <1>1, DivMod
<1> HIDE DEF q, r, p, t
<1>3. m = (s * d) * p + (d * t + r)
  BY <1>1, <1>2, SMT
<1>4. d * t + r \in 0 .. (s * d) - 1
  <2>1. t + 1 <= s  BY <1>2
  <2>2. d * (t + 1) <= d * s  BY <2>1, <1>2, SMT
  <2>3. d * (t + 1) = d * t + d /\ d * s = s * d /\ d * t \in Nat  BY <1>2, SMT
  <2> QED  BY <2>2, <2>3, <1>1, <1>2, SMT
<1>5. s * d \in Nat \ {0}
  BY SMT
<1>6. m \div (s * d) = p
  BY <1>2, <1>3, <1>4, <1>5, DivUnique
<1> QED  BY <1>6 DEF p, q

\* Division is monotone.
LEMMA DivMono ==
    ASSUME NEW x \in Nat, NEW y \in Nat, NEW d \in Nat \ {0}, x \div d < y \div d
    PROVE  x < y
<1> DEFINE p == x \div d
           q == y \div d
<1>1. p \in Nat /\ x % d \in 0 .. d - 1 /\ x = d * p + (x % d)
  BY DivMod
<1>2. q \in Nat /\ y % d \in 0 .. d - 1 /\ y = d * q + (y % d)
  BY DivMod
<1>3. p + 1 <= q
  BY <1>1, <1>2
<1> HIDE DEF p, q
<1>4. d * (p + 1) <= d * q /\ d * (p + 1) = d * p + d
  BY <1>1, <1>2, <1>3, SMT
<1> QED  BY <1>1, <1>2, <1>4, SMT

-----------------------------------------------------------------------------
(***************************************************************************)
(* Halves.                                                                 *)
(***************************************************************************)

LEMMA DomainSize == Width \in Nat \ {0} /\ Width * Width \in Nat \ {0}
<1>1. Width \in Nat \ {0}  BY FeistelAssumption DEF FeistelAssumption
<1>2. Width * Width >= Width  BY <1>1, SMT
<1> QED  BY <1>1, <1>2, SMT

\* Two halves joined are a value of the domain, and are what is cut out of it.
LEMMA JoinedExtracts ==
    ASSUME NEW v \in Pairs
    PROVE  Joined(v) \in Domain /\ extract_blocks(Joined(v)) = v
<1> DEFINE w == Width
           l == v.l
           r == v.r
           x == w * l + r
<1>1. w \in Nat \ {0} /\ l \in 0 .. w - 1 /\ r \in 0 .. w - 1 /\ v = [l |-> l, r |-> r]
  BY DomainSize DEF Pairs, Halves
<1> HIDE DEF w, l, r
<1>2. x \in Nat /\ x <= w * w - 1
  <2>1. l + 1 <= w  BY <1>1
  <2>2. w * (l + 1) <= w * w  BY <1>1, <2>1, SMT
  <2>3. w * (l + 1) = w * l + w /\ w * l \in Nat  BY <1>1, SMT
  <2> QED  BY <1>1, <2>2, <2>3, SMT
<1>3. x \div w = l
  BY <1>1, <1>2, DivUnique
<1>4. x % w = r
  <2>1. x % w \in 0 .. w - 1 /\ x = w * (x \div w) + (x % w)  BY <1>1, <1>2, DivMod
  <2> QED  BY <1>1, <1>3, <2>1, SMT
<1>5. l % w = l
  <2>1. l = w * 0 + l  BY <1>1, SMT
  <2>2. l \div w = 0  BY <1>1, <2>1, DivUnique
  <2>3. l % w \in Nat /\ l = w * (l \div w) + (l % w)  BY <1>1, DivMod
  <2> QED  BY <1>1, <2>2, <2>3, SMT
<1>6. Joined(v) = x
  BY DEF Joined, w, l, r
<1>7. w * w \in Nat /\ Domain = 0 .. w * w - 1
  BY DomainSize DEF Domain, w
<1> HIDE DEF x
<1>8. x \in Domain
  BY <1>2, <1>7
<1> QED  BY <1>1, <1>3, <1>4, <1>5, <1>6, <1>8 DEF extract_blocks, w

\* A value of the domain is cut into two halves, which joined give it back.
LEMMA ExtractsJoined ==
    ASSUME NEW x \in Domain
    PROVE  extract_blocks(x) \in Pairs /\ Joined(extract_blocks(x)) = x
<1> DEFINE w == Width
           q == x \div w
<1>1. w \in Nat \ {0} /\ w * w \in Nat /\ x \in Nat /\ x <= w * w - 1
  BY DomainSize DEF Domain
<1> HIDE DEF w
<1>2. q \in Nat /\ x % w \in 0 .. w - 1 /\ x = w * q + (x % w)
  BY <1>1, DivMod
<1> HIDE DEF q
<1>3. q < w
  <2>1. ASSUME q >= w PROVE FALSE
    <3>1. w * q >= w * w  BY <1>1, <1>2, <2>1, SMT
    <3>2. w * q \in Nat  BY <1>1, <1>2, SMT
    <3> QED  BY <1>1, <1>2, <3>1, <3>2, SMT
  <2> QED  BY <1>1, <1>2, <2>1, SMT
<1>4. q % w = q
  <2>1. q = w * 0 + q /\ q \in 0 .. w - 1  BY <1>1, <1>2, <1>3, SMT
  <2>2. q \div w = 0  BY <1>1, <1>2, <2>1, DivUnique
  <2>3. q % w \in Nat /\ q = w * (q \div w) + (q % w)  BY <1>1, <1>2, DivMod
  <2> QED  BY <1>1, <1>2, <2>2, <2>3, SMT
<1>5. extract_blocks(x) = [l |-> q, r |-> x % w]
  BY <1>4 DEF extract_blocks, q, w
<1>6. q \in Halves /\ x % w \in Halves
  BY <1>1, <1>2, <1>3 DEF Halves, w
<1> QED  BY <1>2, <1>5, <1>6 DEF Pairs, Joined, w

-----------------------------------------------------------------------------
(***************************************************************************)
(* Rounds.                                                                 *)
(***************************************************************************)

LEMMA SwapTwice ==
    ASSUME NEW v \in Pairs
    PROVE  Swapped(v) \in Pairs /\ Swapped(Swapped(v)) = v
BY DEF Pairs, Swapped

\* A round yields halves; the same round between two exchanges undoes it.
LEMMA RoundUndone ==
    ASSUME NEW f \in [Halves -> Halves], NEW v \in Pairs
    PROVE  /\ feistel_round(f, v) \in Pairs
           /\ feistel_round(f, Swapped(feistel_round(f, v))) = Swapped(v)
<1>1. v.l \in Halves /\ v.r \in Halves /\ f[v.r] \in Halves
  BY DEF Pairs
<1>2. HalfXor(v.l, f[v.r]) \in Halves /\ HalfXor(HalfXor(v.l, f[v.r]), f[v.r]) = v.l
  BY <1>1, FeistelAssumption DEF FeistelAssumption
<1> QED  BY <1>1, <1>2 DEF feistel_round, Swapped, Pairs

\* Three rounds, and three rounds back.
LEMMA NetworkUndone ==
    ASSUME NEW rks \in Keys3, NEW v \in Pairs
    PROVE  /\ Network(rks, FALSE, v) \in Pairs
           /\ Network(rks, TRUE, Swapped(Network(rks, FALSE, v))) = Swapped(v)
<1> DEFINE v1 == feistel_round(rks[0], v)
           v2 == feistel_round(rks[1], v1)
           v3 == feistel_round(rks[2], v2)
<1>1. /\ rks[0] \in [Halves -> Halves] /\ rks[1] \in [Halves -> Halves]
      /\ rks[2] \in [Halves -> Halves]
  BY DEF Keys3
<1>2. v1 \in Pairs /\ feistel_round(rks[0], Swapped(v1)) = Swapped(v)
  BY <1>1, RoundUndone
<1> HIDE DEF v1
<1>3. v2 \in Pairs /\ feistel_round(rks[1], Swapped(v2)) = Swapped(v1)
  BY <1>1, <1>2, RoundUndone
<1> HIDE DEF v2
<1>4. v3 \in Pairs /\ feistel_round(rks[2], Swapped(v3)) = Swapped(v2)
  BY <1>1, <1>3, RoundUndone
<1> HIDE DEF v3
<1>5. Network(rks, FALSE, v) = v3
  BY DEF Network, round_key, v1, v2, v3
<1>6. Network(rks, TRUE, Swapped(v3))
        = feistel_round(rks[0], feistel_round(rks[1], feistel_round(rks[2], Swapped(v3))))
  <2>1. /\ round_key(rks, TRUE, 0) = rks[2] /\ round_key(rks, TRUE, 1) = rks[1]
        /\ round_key(rks, TRUE, 2) = rks[0]
    BY DEF round_key
  <2> QED  BY <2>1 DEF Network
<1> QED  BY <1>2, <1>3, <1>4, <1>5, <1>6

\* For every bit length, exclusive or and round keys, prp_eval stays in the
\* domain and prp_inv_eval_all undoes it, so it is a permutation: the slot an
\* index entry decodes is the one a query points to (ore_blk.cpp:843, 874).
THEOREM PrpInverse ==
    ASSUME NEW rks \in Keys3, NEW x \in Domain
    PROVE  prp_eval(rks, x) \in Domain /\ prp_inv_eval_all(rks)[prp_eval(rks, x)] = x
<1> DEFINE v == extract_blocks(x)
           u == Network(rks, FALSE, v)
<1>1. v \in Pairs /\ Joined(v) = x
  BY ExtractsJoined
<1>2. u \in Pairs /\ Network(rks, TRUE, Swapped(u)) = Swapped(v)
  BY <1>1, NetworkUndone
<1>3. prp_eval(rks, x) = Joined(u)
  BY DEF prp_eval
<1> HIDE DEF v, u
<1>4. Joined(u) \in Domain /\ extract_blocks(Joined(u)) = u
  BY <1>2, JoinedExtracts
<1>5. Swapped(Swapped(v)) = v
  BY <1>1, SwapTwice
<1>6. prp_inv_eval(rks, Joined(u)) = x
  BY <1>1, <1>2, <1>4, <1>5 DEF prp_inv_eval
<1> QED  BY <1>3, <1>4, <1>6 DEF prp_inv_eval_all

-----------------------------------------------------------------------------
(***************************************************************************)
(* Prefixes and blocks.                                                    *)
(***************************************************************************)

LEMMA BlockTypes ==
    ASSUME NEW m \in Msgs
    PROVE  /\ m \in Nat
           /\ \A b \in 0 .. NBlocks : Prefix(m, b) \in Msgs
           /\ \A b \in Idx : BlockOf(m, b) \in Slots
<1>1. Weight[0] \in Nat \ {0} /\ m \in Nat /\ NSlots \in Nat \ {0}
  BY SizeAssumption, DomainSize DEF SizeAssumption, Msgs, NSlots
<1>2. ASSUME NEW b \in 0 .. NBlocks PROVE Prefix(m, b) \in Msgs
  <2> DEFINE w == Weight[b]
  <2>1. w \in Nat \ {0}  BY SizeAssumption DEF SizeAssumption
  <2> HIDE DEF w
  <2>2. m \div w \in Nat /\ m % w \in 0 .. w - 1 /\ m = w * (m \div w) + (m % w)
    BY <1>1, <2>1, DivMod
  <2>3. w * (m \div w) >= m \div w
    <3> DEFINE k == m \div w
    <3>1. 1 <= w /\ k \in Nat  BY <2>1, <2>2
    <3> HIDE DEF k
    <3>2. k * 1 <= k * w  BY <2>1, <3>1, SMT
    <3>3. k * 1 = k /\ k * w = w * k  BY <2>1, <3>1, SMT
    <3> QED  BY <3>2, <3>3 DEF k
  <2>4. m \div w <= m
    BY <1>1, <2>1, <2>2, <2>3, SMT
  <2> QED  BY <1>1, <2>2, <2>4 DEF Msgs, Prefix, w
<1>3. ASSUME NEW b \in Idx PROVE BlockOf(m, b) \in Slots
  <2>1. Weight[b + 1] \in Nat \ {0}  BY SizeAssumption DEF SizeAssumption, Idx
  <2>2. m \div Weight[b + 1] \in Nat  BY <1>1, <2>1, DivMod
  <2> QED  BY <1>1, <2>2, DivMod DEF BlockOf, Slots
<1> QED  BY <1>1, <1>2, <1>3

\* ore_setup_helper's "prefix <<= block_len; prefix |= cur_block".
LEMMA PrefixExtends ==
    ASSUME NEW m \in Msgs, NEW b \in Idx
    PROVE  Prefix(m, b + 1) = NSlots * Prefix(m, b) + BlockOf(m, b)
<1> DEFINE w == Weight[b + 1]
<1>1. w \in Nat \ {0} /\ NSlots \in Nat \ {0} /\ Weight[b] = NSlots * w
  BY SizeAssumption, DomainSize DEF SizeAssumption, Idx, NSlots
<1>2. m \in Nat
  BY BlockTypes
<1> HIDE DEF w
<1>3. m \div w \in Nat
  BY <1>1, <1>2, DivMod
<1>4. m \div w = NSlots * ((m \div w) \div NSlots) + ((m \div w) % NSlots)
  BY <1>1, <1>3, DivMod
<1>5. m \div (NSlots * w) = (m \div w) \div NSlots
  BY <1>1, <1>2, DivDiv
<1> QED  BY <1>1, <1>4, <1>5 DEF Prefix, BlockOf, w

\* The first blocks that differ decide which message is the smaller one.
LEMMA FirstDifference ==
    ASSUME NEW x \in Msgs, NEW y \in Msgs, NEW b \in Idx,
           Prefix(x, b) = Prefix(y, b), BlockOf(x, b) < BlockOf(y, b)
    PROVE  x < y
<1>1. x \in Nat /\ y \in Nat /\ Prefix(x, b) \in Msgs
      /\ BlockOf(x, b) \in Slots /\ BlockOf(y, b) \in Slots
  <2>1. b \in 0 .. NBlocks  BY SizeAssumption DEF SizeAssumption, Idx
  <2> QED  BY <2>1, BlockTypes
<1>2. NSlots \in Nat /\ Weight[0] \in Nat
  BY SizeAssumption, DomainSize DEF SizeAssumption, NSlots
<1>3. NSlots * Prefix(x, b) \in Nat /\ BlockOf(x, b) \in Nat /\ BlockOf(y, b) \in Nat
  BY <1>1, <1>2, SMT DEF Msgs, Slots
<1>4. Prefix(x, b + 1) < Prefix(y, b + 1)
  BY <1>3, PrefixExtends
<1>5. Weight[b + 1] \in Nat \ {0}
  BY SizeAssumption DEF SizeAssumption, Idx
<1> QED  BY <1>1, <1>4, <1>5, DivMono DEF Prefix

\* Equal blocks after equal prefixes give equal prefixes.
LEMMA NoDifference ==
    ASSUME NEW x \in Msgs, NEW y \in Msgs, NEW b \in Idx,
           Prefix(x, b) = Prefix(y, b), BlockOf(x, b) = BlockOf(y, b)
    PROVE  Prefix(x, b + 1) = Prefix(y, b + 1)
BY PrefixExtends

\* No blocks: no prefix. All blocks: the message.
LEMMA PrefixEnds ==
    ASSUME NEW x \in Msgs, NEW y \in Msgs
    PROVE  /\ Prefix(x, 0) = Prefix(y, 0)
           /\ Prefix(x, NBlocks) = x
<1>1. Weight[0] \in Nat \ {0} /\ Weight[NBlocks] = 1 /\ x \in 0 .. Weight[0] - 1
      /\ y \in 0 .. Weight[0] - 1
  BY SizeAssumption DEF SizeAssumption, Msgs
<1>2. x \div Weight[0] = 0 /\ y \div Weight[0] = 0
  <2> DEFINE w == Weight[0]
  <2>1. w \in Nat \ {0} /\ x \in 0 .. w - 1 /\ y \in 0 .. w - 1  BY <1>1
  <2> HIDE DEF w
  <2>2. x \in Nat /\ y \in Nat /\ x = w * 0 + x /\ y = w * 0 + y  BY <2>1, SMT
  <2>3. x \div w = 0 /\ y \div w = 0  BY <2>1, <2>2, DivUnique
  <2> QED  BY <2>3 DEF w
<1>3. x \div 1 = x
  <2>1. x \in Nat /\ x = 1 * x + 0 /\ 0 \in 0 .. 1 - 1  BY <1>1
  <2> QED  BY <2>1, DivUnique
<1> QED  BY <1>1, <1>2, <1>3 DEF Prefix

-----------------------------------------------------------------------------
(***************************************************************************)
(* One block: the slot of the query's block holds, under the query's key,  *)
(* the code of the two blocks.                                             *)
(***************************************************************************)
LEMMA CellOfSlot ==
    ASSUME NEW k \in PrpKeys, NEW x \in Msgs, NEW y \in Msgs, NEW b \in Idx,
           Prefix(x, b) = Prefix(y, b),
           NEW col, NEW aim, NEW c, NEW row
    PROVE  LET blk == LeftOf(k, x, col, aim)[b]
               cell == RightOf(k, y, c, row)[b][blk.slot]
           IN  /\ cell.key = blk.key /\ cell.row = row
               /\ blk.cmp = <<col, blk.slot, aim>>
               /\ cell.cmp = <<c, blk.slot, Side(BlockOf(x, b), BlockOf(y, b))>>
<1> DEFINE p == Prefix(x, b)
           s == Pi(k, x, b)
<1>1. p \in Msgs /\ BlockOf(x, b) \in Domain
  <2>1. b \in 0 .. NBlocks  BY SizeAssumption DEF SizeAssumption, Idx
  <2> QED  BY <2>1, BlockTypes DEF Slots, NSlots, Domain
<1>2. k[b][p] \in Keys3
  BY <1>1, KeyAssumption DEF KeyAssumption
<1>3. s \in Domain /\ prp_inv_eval_all(k[b][p])[s] = BlockOf(x, b)
  BY <1>1, <1>2, PrpInverse DEF Pi
<1>4. s \in Slots /\ PiInv(k, y, b)[s] = BlockOf(x, b)
  BY <1>3 DEF PiInv, Slots, NSlots, Domain
<1>5. LeftOf(k, x, col, aim)[b] =
        [slot |-> s, key |-> SlotKey(x, b, s), cmp |-> <<col, s, aim>>]
  BY DEF LeftOf, LeftBlock
<1>6. RightOf(k, y, c, row)[b][s] =
        [key |-> SlotKey(y, b, s), row |-> row,
         cmp |-> <<c, s, Side(PiInv(k, y, b)[s], BlockOf(y, b))>>]
  BY <1>4 DEF RightOf, RightBlock
<1>7. SlotKey(x, b, s) = SlotKey(y, b, s)
  BY DEF SlotKey
<1> HIDE DEF s
<1> QED  BY <1>4, <1>5, <1>6, <1>7

-----------------------------------------------------------------------------
(***************************************************************************)
(* The inductive invariant.                                                *)
(***************************************************************************)
Buffers ==
    /\ keys \in PrpKeys
    /\ asked # Nil => /\ asked \in Queries
                      /\ left = LeftOf(keys, asked.msg, asked.col, asked.aim)
    /\ hidden # Nil => /\ hidden \in Entries
                       /\ right = RightOf(keys, hidden.msg, hidden.col, hidden.row)
    /\ rnum # Nil => /\ asked # Nil /\ hidden # Nil
                     /\ rnum \in Rows /\ i \in 0 .. NBlocks
OreInv == Buffers /\ PassedBlocksEqual /\ CompareCorrect

\* What a running comparison sees of block i.
LEMMA SeenBlock ==
    ASSUME OreInv, rnum # Nil, i < NBlocks
    PROVE  /\ asked \in Queries /\ hidden \in Entries /\ i \in Idx
           /\ Prefix(asked.msg, i) = Prefix(hidden.msg, i)
           /\ BlockOf(asked.msg, i) \in Slots /\ BlockOf(hidden.msg, i) \in Slots
           /\ IsZero(Cell, left[i]) <=> BlockOf(asked.msg, i) = BlockOf(hidden.msg, i)
           /\ Accepts(Cell, left[i], rnum) <=>
                 /\ asked.col = hidden.col /\ rnum = hidden.row
                 /\ asked.aim = Side(BlockOf(asked.msg, i), BlockOf(hidden.msg, i))
<1> DEFINE x == asked.msg
           y == hidden.msg
           blk == LeftOf(keys, x, asked.col, asked.aim)[i]
           cell == RightOf(keys, y, hidden.col, hidden.row)[i][blk.slot]
           side == Side(BlockOf(x, i), BlockOf(y, i))
<1>1. asked \in Queries /\ hidden \in Entries /\ keys \in PrpKeys
  BY DEF OreInv, Buffers
<1>2. i \in Idx
  BY SizeAssumption DEF OreInv, Buffers, SizeAssumption, Idx
<1>3. Prefix(x, i) = Prefix(y, i)
  BY DEF OreInv, PassedBlocksEqual
<1>4. x \in Msgs /\ y \in Msgs
  BY <1>1 DEF Queries, Entries
<1>5. BlockOf(x, i) \in Slots /\ BlockOf(y, i) \in Slots
  BY <1>2, <1>4, BlockTypes
<1>6. left[i] = blk /\ Cell = cell
  BY DEF OreInv, Buffers, Cell
<1>7. /\ cell.key = blk.key /\ cell.row = hidden.row
      /\ blk.cmp = <<asked.col, blk.slot, asked.aim>>
      /\ cell.cmp = <<hidden.col, blk.slot, side>>
  BY <1>1, <1>2, <1>3, <1>4, CellOfSlot
<1>8. side = "EQUAL" <=> BlockOf(x, i) = BlockOf(y, i)
  BY DEF Side
<1> HIDE DEF x, y, blk, cell, side
<1>9. IsZero(cell, blk) <=> side = "EQUAL"
  BY <1>7 DEF IsZero
<1>10. Accepts(cell, blk, rnum) <=>
         asked.col = hidden.col /\ rnum = hidden.row /\ asked.aim = side
  BY <1>7 DEF Accepts
<1> QED
  BY <1>1, <1>2, <1>3, <1>5, <1>6, <1>8, <1>9, <1>10 DEF x, y, side

LEMMA OreInit == Init => OreInv
BY DEF Init, OreInv, Buffers, PassedBlocksEqual, CompareCorrect

LEMMA OreStep == OreInv /\ [Next]_vars => OreInv'
<1> SUFFICES ASSUME OreInv, [Next]_vars
             PROVE  OreInv'
  OBVIOUS
<1>1. ASSUME NEW iCmp \in {-1, 1}, NEW col \in Cols, NEW x \in Msgs,
             CreateLeft(iCmp, col, x)
      PROVE  OreInv'
  <2>1. asked' \in Queries
        /\ left' = LeftOf(keys, asked'.msg, asked'.col, asked'.aim)
    BY <1>1 DEF CreateLeft, Queries, Aims
  <2>2. Buffers'
    BY <1>1, <2>1 DEF CreateLeft, OreInv, Buffers
  <2> QED  BY <1>1, <2>2 DEF CreateLeft, OreInv, PassedBlocksEqual, CompareCorrect
<1>2. ASSUME NEW col \in Cols, NEW row \in Rows, NEW y \in Msgs,
             CreateRight(col, row, y)
      PROVE  OreInv'
  <2>1. hidden' \in Entries
        /\ right' = RightOf(keys, hidden'.msg, hidden'.col, hidden'.row)
    BY <1>2 DEF CreateRight, Entries
  <2>2. Buffers'
    BY <1>2, <2>1 DEF CreateRight, OreInv, Buffers
  <2> QED  BY <1>2, <2>2 DEF CreateRight, OreInv, PassedBlocksEqual, CompareCorrect
<1>3. ASSUME NEW row \in Rows, NEW q \in PassedQueries \cup {asked},
             NEW e \in PassedEntries \cup {hidden}, CompareORE(row, q, e)
      PROVE  OreInv'
  <2>1. q \in Queries /\ e \in Entries
    BY <1>3, PassedAssumption DEF PassedAssumption, CompareORE, OreInv, Buffers
  <2>2. 0 \in 0 .. NBlocks
    BY SizeAssumption DEF SizeAssumption
  <2>3. Buffers'
    BY <1>3, <2>1, <2>2 DEF CompareORE, OreInv, Buffers
  <2>4. PassedBlocksEqual'
    BY <1>3, <2>1, PrefixEnds DEF CompareORE, PassedBlocksEqual, Queries, Entries
  <2> QED  BY <1>3, <2>3, <2>4 DEF CompareORE, OreInv, CompareCorrect
<1>4. CASE NextBlock
  <2> USE <1>4 DEF NextBlock
  <2>1. i \in Idx /\ asked.msg \in Msgs /\ hidden.msg \in Msgs
        /\ Prefix(asked.msg, i) = Prefix(hidden.msg, i)
        /\ BlockOf(asked.msg, i) = BlockOf(hidden.msg, i)
    BY SeenBlock DEF Queries, Entries
  <2>2. PassedBlocksEqual'
    BY <2>1, NoDifference DEF PassedBlocksEqual
  <2>3. Buffers'
    BY <2>1, SizeAssumption DEF OreInv, Buffers, Idx, SizeAssumption
  <2> QED  BY <2>2, <2>3 DEF OreInv, CompareCorrect
<1>5. CASE Decide
  <2> USE <1>5 DEF Decide
  <2> DEFINE x == asked.msg
             y == hidden.msg
             c == BlockOf(x, i)
             d == BlockOf(y, i)
             accepted == Accepts(Cell, left[i], rnum)
  <2>1. /\ i \in Idx /\ x \in Msgs /\ y \in Msgs /\ Prefix(x, i) = Prefix(y, i)
        /\ c \in Slots /\ d \in Slots /\ c # d
        /\ asked.aim \in Aims
        /\ accepted <=> /\ asked.col = hidden.col /\ rnum = hidden.row
                        /\ asked.aim = Side(c, d)
    BY SeenBlock DEF Queries, Entries
  <2>2. x \in Nat /\ y \in Nat
    BY <2>1, BlockTypes
  <2>3. c < d => x < y
    BY <2>1, FirstDifference
  <2>4. d < c => y < x
    BY <2>1, FirstDifference
  <2>5. c \in Nat /\ d \in Nat
    BY <2>1, DomainSize DEF Slots, NSlots
  <2>6. result' = [row |-> rnum, res |-> IF accepted THEN 1 ELSE -1]
    OBVIOUS
  <2> HIDE DEF x, y, c, d, accepted
  <2>7. asked.aim = Side(c, d) <=> Holds(asked.aim, x, y)
    BY <2>1, <2>2, <2>3, <2>4, <2>5, SMT DEF Side, Holds, Aims
  <2>8. x # y
    BY <2>1, <2>2, <2>3, <2>4, <2>5, SMT
  <2>9. CompareCorrect'
    BY <2>1, <2>6, <2>7, <2>8 DEF CompareCorrect, x, y
  <2>10. Buffers' /\ PassedBlocksEqual'
    BY DEF OreInv, Buffers, PassedBlocksEqual
  <2> QED  BY <2>9, <2>10 DEF OreInv
<1>6. CASE AllEqual
  <2> USE <1>6 DEF AllEqual
  <2>1. asked.msg \in Msgs /\ hidden.msg \in Msgs /\ asked.msg = hidden.msg
    <3>1. asked.msg \in Msgs /\ hidden.msg \in Msgs
      BY DEF OreInv, Buffers, Queries, Entries
    <3> QED  BY <3>1, PrefixEnds DEF OreInv, PassedBlocksEqual
  <2>2. ~Holds(asked.aim, asked.msg, hidden.msg)
    <3>1. asked.msg \in Nat  BY <2>1, BlockTypes
    <3> QED  BY <2>1, <3>1 DEF Holds
  <2>3. CompareCorrect'
    BY <2>1, <2>2 DEF CompareCorrect
  <2>4. Buffers' /\ PassedBlocksEqual'
    BY DEF OreInv, Buffers, PassedBlocksEqual
  <2> QED  BY <2>3, <2>4 DEF OreInv
<1>7. CASE UNCHANGED vars
  BY <1>7 DEF vars, OreInv, Buffers, PassedBlocksEqual, CompareCorrect
<1> QED  BY <1>1, <1>2, <1>3, <1>4, <1>5, <1>6, <1>7 DEF Next

\* For every number and width of blocks and every PRP, ore_compare accepts
\* exactly the entries in the relation the query asks for, in the query's
\* column and under the entry's row key, and recognises equal values.
THEOREM ComparesCorrectly == Spec => []CompareCorrect
<1>1. OreInv => CompareCorrect
  BY DEF OreInv
<1> QED  BY <1>1, OreInit, OreStep, PTL DEF Spec

\* The loop of ore_compare never passes a block that differs.
THEOREM StopsAtDifference == Spec => []PassedBlocksEqual
<1>1. OreInv => PassedBlocksEqual
  BY DEF OreInv
<1> QED  BY <1>1, OreInit, OreStep, PTL DEF Spec

-----------------------------------------------------------------------------
(***************************************************************************)
(* The older scheme, over the same blocks.                                 *)
(***************************************************************************)

LEMMA LeastElement ==
    ASSUME NEW S, S \subseteq Nat, S # {}
    PROVE  \E x \in S : \A y \in S : x <= y
<1>1. PICK x \in S : \A y \in S : <<y, x>> \notin OpToRel(<, Nat)
  BY NatLessThanWellFounded, WFMin
<1>2. \A y \in S : ~(y < x)
  BY <1>1 DEF OpToRel
<1> QED BY <1>2

LEMMA MulAddUnique ==
    ASSUME NEW n \in Nat \ {0}, NEW a \in Nat, NEW b \in Nat, NEW r \in 0 .. n - 1,
           NEW t \in 0 .. n - 1, n * a + r = n * b + t
    PROVE  a = b /\ r = t
<1> DEFINE m == n * a + r
<1>1. n * a \in Nat /\ n * b \in Nat /\ r \in Nat /\ t \in Nat
  BY SMT
<1>2. m \in Nat /\ m = n * b + t
  BY <1>1
<1>3. m = n * a + r
  OBVIOUS
<1> HIDE DEF m
<1>4. m \div n = a
  BY <1>2, <1>3, DivUnique
<1>5. m \div n = b
  BY <1>2, DivUnique
<1>6. a = b
  BY <1>4, <1>5
<1> QED BY <1>1, <1>2, <1>3, <1>6

\* Two messages have the same prefix exactly as long as no block differs.
LEMMA PrefixAgrees ==
    ASSUME NEW x \in Msgs, NEW y \in Msgs, NEW b \in 0 .. NBlocks
    PROVE  Prefix(x, b) = Prefix(y, b) <=> \A c \in Idx : c < b => BlockOf(x, c) = BlockOf(y, c)
<1> DEFINE Agrees(n) == \A c \in Idx : c < n => BlockOf(x, c) = BlockOf(y, c)
           S == {n \in 0 .. NBlocks : ~(Prefix(x, n) = Prefix(y, n) <=> Agrees(n))}
<1>1. SUFFICES ASSUME S # {} PROVE FALSE
  OBVIOUS
<1>2. PICK m \in S : \A n \in S : m <= n
  <2>1. S \subseteq Nat
    BY SizeAssumption DEF SizeAssumption
  <2> HIDE DEF S
  <2> QED BY <1>1, <2>1, LeastElement
<1>3. NBlocks \in Nat /\ m \in Nat /\ m <= NBlocks
  BY <1>2, SizeAssumption DEF SizeAssumption
<1>4. m # 0
  <2>1. Agrees(0) /\ Prefix(x, 0) = Prefix(y, 0)
    BY PrefixEnds DEF Idx
  <2> QED BY <2>1
<1> DEFINE l == m - 1
<1>5. l \in Idx /\ l \in 0 .. NBlocks /\ l + 1 = m /\ l < m
  BY <1>3, <1>4 DEF Idx
<1>6. l \notin S
  BY <1>2, <1>3, <1>5
<1> HIDE DEF l
<1>7. Prefix(x, l) = Prefix(y, l) <=> Agrees(l)
  BY <1>5, <1>6
<1>8. Agrees(m) <=> Agrees(l) /\ BlockOf(x, l) = BlockOf(y, l)
  <2>1. \A c \in Idx : c < m <=> c < l \/ c = l
    BY <1>5 DEF Idx
  <2> QED BY <1>5, <2>1
<1>9. Prefix(x, m) = Prefix(y, m) <=> Prefix(x, l) = Prefix(y, l) /\ BlockOf(x, l) = BlockOf(y, l)
  <2> DEFINE a == Prefix(x, l)  d == Prefix(y, l)  r == BlockOf(x, l)  t == BlockOf(y, l)
  <2>1. Prefix(x, m) = NSlots * a + r /\ Prefix(y, m) = NSlots * d + t
    BY <1>5, PrefixExtends
  <2>2. a \in Nat /\ d \in Nat /\ r \in 0 .. NSlots - 1 /\ t \in 0 .. NSlots - 1
    BY <1>5, BlockTypes DEF Slots, Msgs
  <2>3. NSlots \in Nat \ {0}
    BY DomainSize DEF NSlots
  <2> HIDE DEF a, d, r, t
  <2>4. NSlots * a + r = NSlots * d + t => a = d /\ r = t
    BY <2>2, <2>3, MulAddUnique
  <2> QED BY <2>1, <2>4 DEF a, d, r, t
<1> HIDE DEF Agrees
<1> QED BY <1>2, <1>7, <1>8, <1>9

\* The first block that differs decides.
LEMMA DecidesAt ==
    ASSUME NEW x \in Msgs, NEW y \in Msgs, NEW b \in Idx,
           Prefix(x, b) = Prefix(y, b), BlockOf(x, b) # BlockOf(y, b)
    PROVE  /\ x # y /\ Side(BlockOf(x, b), BlockOf(y, b)) = Relation(x, y)
           /\ \A c \in Idx : BlockOf(x, c) # BlockOf(y, c) => b <= c
<1> DEFINE r == BlockOf(x, b)  t == BlockOf(y, b)
<1>1. r \in Nat /\ t \in Nat /\ x \in Nat /\ y \in Nat
  BY BlockTypes, DomainSize DEF Slots, NSlots
<1>2. (r < t => x < y) /\ (t < r => y < x)
  BY FirstDifference
<1>3. b \in 0 .. NBlocks
  BY SizeAssumption DEF SizeAssumption, Idx
<1>4. \A c \in Idx : c < b => BlockOf(x, c) = BlockOf(y, c)
  BY <1>3, PrefixAgrees
<1>5. \A c \in Idx : BlockOf(x, c) # BlockOf(y, c) => b <= c
  BY <1>3, <1>4, SizeAssumption DEF SizeAssumption, Idx
<1>6. r # t
  OBVIOUS
<1> HIDE DEF r, t
<1>7. x # y /\ Side(r, t) = Relation(x, y)
  BY <1>1, <1>2, <1>6, SMT DEF Side, Relation
<1> QED BY <1>5, <1>7 DEF r, t

\* Messages that are not equal differ in a block with nothing but equal ones
\* before it.
LEMMA SomeDecides ==
    ASSUME NEW x \in Msgs, NEW y \in Msgs, x # y
    PROVE  \E d \in Idx : Prefix(x, d) = Prefix(y, d) /\ BlockOf(x, d) # BlockOf(y, d)
<1> DEFINE D == {b \in Idx : BlockOf(x, b) # BlockOf(y, b)}
<1>1. NBlocks \in Nat /\ Idx \subseteq Nat
  BY SizeAssumption DEF SizeAssumption, Idx
<1>2. D # {}
  <2>1. SUFFICES ASSUME D = {} PROVE FALSE
    OBVIOUS
  <2>2. Prefix(x, NBlocks) = Prefix(y, NBlocks)
    BY <1>1, <2>1, PrefixAgrees
  <2> QED BY <2>2, PrefixEnds
<1>3. PICK d \in D : \A b \in D : d <= b
  BY <1>1, <1>2, LeastElement
<1>4. \A c \in Idx : c < d => BlockOf(x, c) = BlockOf(y, c)
  BY <1>1, <1>3
<1>5. d \in 0 .. NBlocks
  BY <1>1 DEF Idx
<1> QED BY <1>4, <1>5, PrefixAgrees

\* What the mask leaves of a block is a block, and all of it if messages fit.
LEMMA CutTypes ==
    ASSUME maskEnd \in MaskEnds, NEW m \in Msgs, NEW b \in Idx
    PROVE  /\ CutBlock(m, b) \in Slots
           /\ CutPrefix(m, b) \in Prefixes
           /\ Weight[0] <= maskEnd => CutBlock(m, b) = BlockOf(m, b)
<1> DEFINE v == MaskValues
<1>1. NSlots \in Nat \ {0} /\ Idx \subseteq 0 .. NBlocks /\ 0 \in Idx
  BY DomainSize, SizeAssumption DEF NSlots, SizeAssumption, Idx
<1>2. v \in Nat \ {0}
  <2> DEFINE e == maskEnd  w == Weight[1]
  <2>1. e \in Nat /\ w \in Nat \ {0} /\ w < e
    BY MaskAssumption, SizeAssumption DEF MaskAssumption, SizeAssumption
  <2> HIDE DEF e, w
  <2>2. /\ e \div w \in Nat /\ e % w \in 0 .. w - 1
        /\ e = w * (e \div w) + (e % w)
    BY <2>1, DivMod
  <2>3. e \div w # 0
    <3>1. w * 0 = 0
      BY <2>1
    <3> QED BY <2>1, <2>2, <3>1
  <2> QED BY <1>1, <2>2, <2>3 DEF MaskValues, e, w
<1> HIDE DEF v
<1>3. ASSUME NEW r \in Slots PROVE r % v \in Slots /\ (v = NSlots => r % v = r)
  <2>1. r \in Nat /\ r < NSlots
    BY <1>1, <1>3 DEF Slots
  <2>2. r \div v \in Nat /\ r % v \in 0 .. v - 1 /\ r = v * (r \div v) + (r % v)
    BY <1>2, <2>1, DivMod
  <2> DEFINE q == r \div v  t == r % v
  <2> HIDE DEF q, t
  <2>3. v * q \in Nat /\ t \in Nat /\ r = v * q + t
    BY <1>2, <2>2, SMT DEF q, t
  <2>4. t <= r
    BY <2>1, <2>3
  <2>5. v = NSlots => t = r
    <3>1. v = NSlots => r \div v = 0
      <4>1. v * 0 = 0
        BY <1>2
      <4> QED BY <1>2, <2>1, <4>1, DivUnique
    <3> QED BY <1>2, <2>3, <3>1 DEF q
  <2> QED BY <1>1, <2>1, <2>3, <2>4, <2>5 DEF Slots, t
<1>4. \A c \in Idx : CutBlock(m, c) \in Slots
  BY <1>1, <1>3, BlockTypes DEF CutBlock, v
<1>5. CutPrefix(m, b) \in Prefixes
  <2>1. \A c \in 0 .. b - 1 : c \in Idx
    BY SizeAssumption DEF SizeAssumption, Idx
  <2> QED BY <1>4, <2>1 DEF CutPrefix, Prefixes
<1>6. Weight[0] <= maskEnd => CutBlock(m, b) = BlockOf(m, b)
  BY <1>1, <1>3, BlockTypes DEF CutBlock, MaskValues, v
<1> QED BY <1>4, <1>5, <1>6

\* Two messages have the same prefix as long as nothing the mask leaves differs.
LEMMA CutSame ==
    ASSUME NEW x, NEW y, NEW b \in Idx
    PROVE  CutPrefix(x, b) = CutPrefix(y, b) <=> \A c \in Differing(x, y) : b <= c
<1>1. NBlocks \in Nat
  BY SizeAssumption DEF SizeAssumption
<1>2. CutPrefix(x, b) = CutPrefix(y, b) <=>
        \A c \in 0 .. b - 1 : CutBlock(x, c) = CutBlock(y, c)
  BY DEF CutPrefix
<1>3. \A c : c \in 0 .. b - 1 <=> c \in Idx /\ ~(b <= c)
  BY <1>1 DEF Idx
<1> QED BY <1>2, <1>3 DEF Differing

\* The first block that differs as it is cut decides.
LEMMA CutDecides ==
    ASSUME NEW x, NEW y, NEW b \in Idx, Decides(x, y, b)
    PROVE  Differing(x, y) # {} /\ CutRelation(x, y) = Side(CutBlock(x, b), CutBlock(y, b))
<1> DEFINE d == CHOOSE d \in Idx : Decides(x, y, d)
<1>1. d \in Idx /\ Decides(x, y, d)
  OBVIOUS
<1>2. d \in Nat /\ b \in Nat /\ d <= b /\ b <= d
  BY <1>1, SizeAssumption, SMTT(60) DEF SizeAssumption, Idx, Decides
<1>3. d = b
  BY <1>2
<1>4. Differing(x, y) # {}
  BY DEF Decides
<1> QED BY <1>3, <1>4 DEF CutRelation

\* Some block decides unless none differs.
LEMMA SomeCutDecides ==
    ASSUME NEW x, NEW y, Differing(x, y) # {}
    PROVE  \E d \in Idx : Decides(x, y, d)
<1>1. Differing(x, y) \subseteq Nat /\ Differing(x, y) \subseteq Idx
  BY SizeAssumption DEF SizeAssumption, Idx, Differing
<1> QED BY <1>1, LeastElement DEF Decides

\* Messages that fit the mask compare like numbers.
LEMMA FittingRelation ==
    ASSUME maskEnd \in MaskEnds, Weight[0] <= maskEnd, NEW x \in Msgs, NEW y \in Msgs
    PROVE  CutRelation(x, y) = Relation(x, y)
<1>1. CASE x = y
  BY <1>1 DEF CutRelation, Relation, Differing
<1>2. CASE x # y
  <2>1. PICK d \in Idx : Prefix(x, d) = Prefix(y, d) /\ BlockOf(x, d) # BlockOf(y, d)
    BY <1>2, SomeDecides
  <2>2. /\ Side(BlockOf(x, d), BlockOf(y, d)) = Relation(x, y)
        /\ \A c \in Idx : BlockOf(x, c) # BlockOf(y, c) => d <= c
    BY <2>1, DecidesAt
  <2>3. \A c \in Idx : CutBlock(x, c) = BlockOf(x, c) /\ CutBlock(y, c) = BlockOf(y, c)
    BY CutTypes
  <2>4. Decides(x, y, d)
    BY <2>1, <2>2, <2>3 DEF Decides, Differing
  <2> QED BY <2>2, <2>3, <2>4, CutDecides
<1> QED BY <1>1, <1>2

\* The tag of a slot tells equal blocks from others, in every slot.
LEMMA TagType ==
    ASSUME NEW j \in Nat, NEW v \in Relations
    PROVE  Tag(j, v) \in Nat
<1>1. Code[v] \in 1 .. 3
  BY DEF Code, Relations
<1> QED BY <1>1 DEF Tag

LEMMA TagTells ==
    ASSUME NEW j \in Nat, NEW v \in Relations, NEW w \in Relations,
           Tag(j, v) = Tag(j, w), v = "EQUAL"
    PROVE  w = "EQUAL"
<1>1. Code["SMALL"] = 1 /\ Code["EQUAL"] = 2 /\ Code["LARGE"] = 3
  BY DEF Code
<1>2. \A n \in 1 .. 3 : n % 2 = (IF n = 2 THEN 0 ELSE 1)
  BY SMT
<1>3. w \in {"SMALL", "EQUAL", "LARGE"}
  BY DEF Relations
<1>4. CASE w = "SMALL"
  BY <1>1, <1>2, <1>4 DEF Tag
<1>5. CASE w = "LARGE"
  BY <1>1, <1>2, <1>5 DEF Tag
<1> QED BY <1>3, <1>4, <1>5

\* What is in the buffers: what has been encrypted, and codes for what is in
\* ctxt1.
Ciphertext(p) == [b \in Idx |-> EncryptBlock(p.msg, p.col, p.row, b)]
OldBuffers ==
    /\ sk \in OldKeys /\ maskEnd \in MaskEnds
    /\ plain \in [1 .. 2 -> Plaintexts \cup {Nil}]
    /\ ctxt = [c \in 1 .. 2 |-> IF plain[c] = Nil THEN Nil ELSE Ciphertext(plain[c])]
    /\ cmp_query # Nil =>
         /\ plain[1] # Nil /\ goal.msg = plain[1].msg /\ goal.aim \in Relations
         /\ cmp_query = [b \in Idx |-> <<goal.col, Tag(OldPi(goal.msg, b), goal.aim)>>]
OldInv == OldBuffers /\ DecidingBlock

\* What a block of a ciphertext is, and that it is not Nil.
LEMMA OldBlock ==
    ASSUME sk \in OldKeys, maskEnd \in MaskEnds,
           NEW x \in Msgs, NEW col \in Cols, NEW row \in Rows, NEW b \in Idx
    PROVE  LET e == EncryptBlock(x, col, row, b)
               s == OldPi(x, b)
           IN  /\ e \in Blocks
               /\ e.slot = s /\ e.key = OldSlotKey(x, b, s)
               /\ s \in Slots /\ OldPiInv(x, b)[s] = CutBlock(x, b)
               /\ \A j \in Slots :
                    /\ e.cell[j].key = OldSlotKey(x, b, j) /\ e.cell[j].row = row
                    /\ e.cell[j].cmp = <<col, Tag(j, Side(OldPiInv(x, b)[j], CutBlock(x, b)))>>
<1> DEFINE s == OldPi(x, b)  inv == OldPiInv(x, b)  c == CutBlock(x, b)
           cells == [j \in Slots |-> [key |-> OldSlotKey(x, b, j), row |-> row,
                                     cmp |-> <<col, Tag(j, Side(inv[j], c))>>]]
           e == [slot |-> s, key |-> OldSlotKey(x, b, s), cell |-> cells]
<1>1. CutPrefix(x, b) \in Prefixes /\ c \in Domain
  BY CutTypes DEF Slots, NSlots, Domain
<1>2. sk[b][CutPrefix(x, b)] \in Keys3
  BY <1>1, OldKeyAssumption DEF OldKeyAssumption
<1>3. s \in Slots /\ inv[s] = c
  BY <1>1, <1>2, PrpInverse DEF OldPi, OldPiInv, Slots, NSlots, Domain
<1>4. EncryptBlock(x, col, row, b) = e
  BY DEF EncryptBlock
<1>5. \A j \in Slots : j \in Nat /\ OldSlotKey(x, b, j) \in BlockKeys
  BY <1>1, DomainSize DEF OldSlotKey, BlockKeys, Slots, NSlots
<1>6. \A j \in Slots : Tag(j, Side(inv[j], c)) \in Nat
  <2>1. \A j : Side(inv[j], c) \in Relations
    BY DEF Side, Relations
  <2> QED BY <1>5, <2>1, TagType
<1> HIDE DEF s, inv, c
<1>7. cells \in [Slots -> [key : BlockKeys, row : Rows, cmp : Cols \X Nat]]
  BY <1>5, <1>6
<1>8. \A j \in Slots :
        /\ cells[j].key = OldSlotKey(x, b, j) /\ cells[j].row = row
        /\ cells[j].cmp = <<col, Tag(j, Side(inv[j], c))>>
  OBVIOUS
<1> HIDE DEF cells
<1>9. e \in Blocks
  BY <1>3, <1>5, <1>7 DEF Blocks
<1> QED BY <1>3, <1>4, <1>8, <1>9 DEF s, inv, c

LEMMA OldEncrypted ==
    ASSUME sk \in OldKeys, maskEnd \in MaskEnds, NEW p \in Plaintexts
    PROVE  /\ p.msg \in Msgs /\ p.col \in Cols /\ p.row \in Rows
           /\ p # Nil /\ Ciphertext(p) # Nil
<1>1. p.msg \in Msgs /\ p.col \in Cols /\ p.row \in Rows
  BY DEF Plaintexts
<1>2. Ciphertext(p) \in [Idx -> Blocks]
  BY <1>1, OldBlock DEF Ciphertext
<1> QED BY <1>1, <1>2, OldAssumption DEF OldAssumption

\* As long as the key and the mask stay, what is encrypted stays encrypted.
LEMMA OldKept ==
    ASSUME UNCHANGED <<maskEnd, sk>>
    PROVE  /\ \A p : Ciphertext(p)' = Ciphertext(p)
           /\ \A m, b : OldPi(m, b)' = OldPi(m, b)
<1>1. maskEnd' = maskEnd /\ sk' = sk
  OBVIOUS
<1>2. \A m, b : OldPi(m, b)' = OldPi(m, b)
  BY <1>1 DEF OldPi, CutPrefix, CutBlock, MaskValues
<1>3. \A p : Ciphertext(p)' = Ciphertext(p)
  BY <1>1 DEF Ciphertext, EncryptBlock, OldPi, OldPiInv, OldSlotKey, CutPrefix, CutBlock, MaskValues
<1> QED BY <1>2, <1>3

\* Nothing else the buffers depend on changes.
LEMMA OldBuffersKept ==
    ASSUME OldBuffers, UNCHANGED <<maskEnd, sk, ctxt, cmp_query, plain, goal>>
    PROVE  OldBuffers'
<1>1. (ctxt = [c \in 1 .. 2 |-> IF plain[c] = Nil THEN Nil ELSE Ciphertext(plain[c])])'
  BY OldKept DEF OldBuffers
<1>2. (cmp_query # Nil => cmp_query = [b \in Idx |-> <<goal.col, Tag(OldPi(goal.msg, b), goal.aim)>>])'
  BY OldKept DEF OldBuffers
<1> QED BY <1>1, <1>2 DEF OldBuffers

LEMMA OldBegins == OldInit => OldInv
BY DEF OldInit, OldInv, OldBuffers, DecidingBlock

LEMMA OldEncrypts ==
    ASSUME OldInv, NEW c \in 1 .. 2, NEW x \in Msgs, NEW col \in Cols,
           NEW row \in Rows, ore_blk_encrypt_ui(c, x, col, row)
    PROVE  OldInv'
<1> DEFINE r == [msg |-> x, col |-> col, row |-> row]
<1>1. r \in Plaintexts /\ r.msg = x /\ r.col = col /\ r.row = row
  BY DEF Plaintexts
<1>2. /\ ctxt[c] = Nil /\ ctxt' = [ctxt EXCEPT ![c] = Ciphertext(r)]
      /\ plain' = [plain EXCEPT ![c] = r]
      /\ res' = Nil /\ UNCHANGED <<maskEnd, sk, cmp_query, goal>>
  BY DEF ore_blk_encrypt_ui, Ciphertext
<1> HIDE DEF r
<1>3. r # Nil
  BY <1>1, OldEncrypted DEF OldInv, OldBuffers
<1>4. \A p : Ciphertext(p)' = Ciphertext(p)
  BY <1>2, OldKept
<1>5. plain[c] = Nil
  BY <1>2, OldEncrypted DEF OldInv, OldBuffers
<1>6. plain' \in [1 .. 2 -> Plaintexts \cup {Nil}]
  BY <1>1, <1>2 DEF OldInv, OldBuffers
<1>7. ctxt' = [d \in 1 .. 2 |-> IF plain'[d] = Nil THEN Nil ELSE Ciphertext(plain'[d])]
  BY <1>2, <1>3 DEF OldInv, OldBuffers
<1>8. (ctxt = [d \in 1 .. 2 |-> IF plain[d] = Nil THEN Nil ELSE Ciphertext(plain[d])])'
  BY <1>4, <1>7
<1>9. cmp_query # Nil => plain'[1] = plain[1]
  BY <1>2, <1>5 DEF OldInv, OldBuffers
<1>10. maskEnd' = maskEnd /\ sk' = sk /\ cmp_query' = cmp_query /\ goal' = goal
  BY <1>2
<1>11. (cmp_query # Nil => cmp_query = [b \in Idx |-> <<goal.col, Tag(OldPi(goal.msg, b), goal.aim)>>])'
  BY <1>10, OldKept DEF OldInv, OldBuffers
<1>12. OldBuffers'
  BY <1>6, <1>8, <1>9, <1>10, <1>11 DEF OldInv, OldBuffers
<1> QED BY <1>2, <1>12 DEF OldInv, DecidingBlock

LEMMA OldAsks ==
    ASSUME OldInv, NEW aim \in Relations, NEW col \in Cols, ore_blk_query(aim, col)
    PROVE  OldInv'
<1> DEFINE g == [msg |-> plain[1].msg, col |-> col, aim |-> aim]
<1>1. /\ plain[1] # Nil /\ goal' = g /\ res' = Nil /\ UNCHANGED <<maskEnd, sk, ctxt, plain>>
      /\ cmp_query' = [b \in Idx |-> <<col, Tag(OldPi(plain[1].msg, b), aim)>>]
  BY DEF ore_blk_query
<1>2. g.msg = plain[1].msg /\ g.col = col /\ g.aim = aim
  OBVIOUS
<1> HIDE DEF g
<1>3. (ctxt = [c \in 1 .. 2 |-> IF plain[c] = Nil THEN Nil ELSE Ciphertext(plain[c])])'
  BY <1>1, OldKept DEF OldInv, OldBuffers
<1>4. (cmp_query # Nil => cmp_query = [b \in Idx |-> <<goal.col, Tag(OldPi(goal.msg, b), goal.aim)>>])'
  BY <1>1, <1>2, OldKept
<1>5. OldBuffers'
  BY <1>1, <1>2, <1>3, <1>4 DEF OldInv, OldBuffers
<1> QED BY <1>1, <1>5 DEF OldInv, DecidingBlock

\* When a block opens.
LEMMA OpensBlock ==
    ASSUME OldInv, cmp_query # Nil, plain[1] # Nil, plain[2] # Nil,
           NEW x, NEW y, x = plain[1].msg, y = plain[2].msg, NEW b \in Idx
    PROVE  /\ Opens(b) => /\ CutPrefix(x, b) = CutPrefix(y, b)
                          /\ goal.col = plain[2].col /\ plain[2].row = 1
                          /\ (CutBlock(x, b) = CutBlock(y, b) <=> goal.aim = "EQUAL")
           /\ (/\ CutPrefix(x, b) = CutPrefix(y, b) /\ Side(CutBlock(x, b), CutBlock(y, b)) = goal.aim
               /\ goal.col = plain[2].col /\ plain[2].row = 1) => Opens(b)
<1> DEFINE s == OldPi(x, b)
           v == Side(CutBlock(x, b), CutBlock(y, b))
           e == EncryptBlock(x, plain[1].col, plain[1].row, b)
           f == EncryptBlock(y, plain[2].col, plain[2].row, b)
<1>1. plain[1] \in Plaintexts /\ plain[2] \in Plaintexts /\ sk \in OldKeys /\ maskEnd \in MaskEnds
  BY DEF OldInv, OldBuffers
<1>2. /\ x \in Msgs /\ plain[1].col \in Cols /\ plain[1].row \in Rows
      /\ y \in Msgs /\ plain[2].col \in Cols /\ plain[2].row \in Rows
  BY <1>1, OldEncrypted
<1>3. ctxt[1][b] = e /\ ctxt[2][b] = f
  BY DEF OldInv, OldBuffers, Ciphertext
<1>4. cmp_query[b] = <<goal.col, Tag(s, goal.aim)>> /\ goal.aim \in Relations
  BY DEF OldInv, OldBuffers
<1>5. /\ e.slot = s /\ e.key = OldSlotKey(x, b, s) /\ s \in Slots
      /\ OldPiInv(x, b)[s] = CutBlock(x, b)
  BY <1>1, <1>2, OldBlock
<1> DEFINE cell == f.cell[s]  w == Side(OldPiInv(y, b)[s], CutBlock(y, b))
<1>6. /\ cell.key = OldSlotKey(y, b, s) /\ cell.row = plain[2].row
      /\ cell.cmp = <<plain[2].col, Tag(s, w)>>
  BY <1>1, <1>2, <1>5, OldBlock
<1>7. Opens(b) <=> cell.key = e.key /\ cell.cmp = cmp_query[b] /\ cell.row = 1
  BY <1>3, <1>5 DEF Opens
<1>8. CutPrefix(x, b) = CutPrefix(y, b) => w = v
  BY <1>5 DEF OldPiInv
<1>9. OldSlotKey(x, b, s) = OldSlotKey(y, b, s) <=> CutPrefix(x, b) = CutPrefix(y, b)
  BY DEF OldSlotKey
<1>10. v \in Relations /\ w \in Relations /\ s \in Nat
  BY <1>5, DomainSize DEF Side, Relations, Slots, NSlots
<1> HIDE DEF s, v, e, f, cell, w
<1>11. ASSUME Opens(b)
       PROVE  /\ CutPrefix(x, b) = CutPrefix(y, b) /\ goal.col = plain[2].col /\ plain[2].row = 1
              /\ (v = "EQUAL" <=> goal.aim = "EQUAL")
  <2>1. /\ CutPrefix(x, b) = CutPrefix(y, b) /\ w = v /\ plain[2].row = 1
        /\ goal.col = plain[2].col /\ Tag(s, v) = Tag(s, goal.aim)
    BY <1>4, <1>5, <1>6, <1>7, <1>8, <1>9, <1>11
  <2> QED BY <1>4, <1>10, <2>1, TagTells
<1>12. ASSUME CutPrefix(x, b) = CutPrefix(y, b), v = goal.aim, goal.col = plain[2].col, plain[2].row = 1
       PROVE  Opens(b)
  BY <1>4, <1>5, <1>6, <1>7, <1>8, <1>9, <1>12
<1>13. v = "EQUAL" <=> CutBlock(x, b) = CutBlock(y, b)
  BY DEF v, Side
<1> QED BY <1>11, <1>12, <1>13 DEF v

LEMMA OldCompares ==
    ASSUME OldInv, ore_blk_compare
    PROVE  OldInv'
<1> DEFINE x == plain[1].msg  y == plain[2].msg
           B == {b \in Idx : Opens(b)}  f == FirstBlock(B)
           fits == goal.col = plain[2].col /\ plain[2].row = 1
           D == Differing(x, y)
<1>1. /\ cmp_query # Nil /\ ctxt[1] # Nil /\ ctxt[2] # Nil
      /\ res' = (IF B = {} THEN 0 ELSE f + 1)
      /\ UNCHANGED <<maskEnd, sk, ctxt, cmp_query, plain, goal>>
  BY DEF ore_blk_compare
<1>2. plain[1] # Nil /\ plain[2] # Nil
  BY <1>1 DEF OldInv, OldBuffers
<1>3. \A b \in B : /\ b \in Idx /\ CutPrefix(x, b) = CutPrefix(y, b) /\ fits
                   /\ (CutBlock(x, b) = CutBlock(y, b) <=> goal.aim = "EQUAL")
  BY <1>1, <1>2, OpensBlock
<1>4. \A b \in Idx : (/\ CutPrefix(x, b) = CutPrefix(y, b) /\ fits
                      /\ Side(CutBlock(x, b), CutBlock(y, b)) = goal.aim) => b \in B
  BY <1>1, <1>2, OpensBlock
<1>5. x \in Msgs /\ y \in Msgs /\ maskEnd \in MaskEnds
  BY <1>2, OldEncrypted DEF OldInv, OldBuffers
<1>6. Idx \subseteq Nat /\ 0 \in Idx
  BY SizeAssumption DEF SizeAssumption, Idx
<1>7. B # {} => f \in B /\ \A b \in B : f <= b
  <2>1. B \subseteq Nat
    BY <1>6
  <2> HIDE DEF B
  <2>2. B # {} => \E b \in B : \A c \in B : b <= c
    BY <2>1, LeastElement
  <2> QED BY <2>2 DEF FirstBlock
<1> HIDE DEF B, f
<1>8. IF B = {} THEN res' = 0 ELSE f \in Nat /\ res' = f + 1 /\ res' - 1 = f /\ res' > 0
  <2>1. B # {} => f \in Nat
    BY <1>3, <1>6, <1>7
  <2> QED BY <1>1, <2>1
<1>9. res' > 0 => fits
  BY <1>3, <1>7, <1>8
<1>10. B # {} /\ goal.aim # "EQUAL" => Decides(x, y, f)
  BY <1>3, <1>7, CutSame DEF Decides, Differing
<1>11. ASSUME fits, goal.aim = CutRelation(x, y), D = {} PROVE res' = 1
  <2>1. CutBlock(x, 0) = CutBlock(y, 0) /\ goal.aim = "EQUAL"
    BY <1>6, <1>11 DEF CutRelation, Differing
  <2>2. CutPrefix(x, 0) = CutPrefix(y, 0)
    BY <1>6, <1>11, CutSame
  <2>3. 0 \in B
    BY <1>4, <1>6, <1>11, <2>1, <2>2 DEF Side
  <2>4. f = 0
    BY <1>7, <1>8, <2>3
  <2> QED BY <1>8, <2>3, <2>4
<1>12. ASSUME fits, goal.aim = CutRelation(x, y), D # {} PROVE Decides(x, y, res' - 1)
  <2>1. PICK d \in Idx : Decides(x, y, d)
    BY <1>12, SomeCutDecides
  <2>2. goal.aim = Side(CutBlock(x, d), CutBlock(y, d))
    BY <1>12, <2>1, CutDecides
  <2>3. CutPrefix(x, d) = CutPrefix(y, d) /\ CutBlock(x, d) # CutBlock(y, d)
    BY <2>1, CutSame DEF Decides, Differing
  <2>4. d \in B /\ goal.aim # "EQUAL"
    BY <1>4, <1>12, <2>2, <2>3 DEF Side
  <2> QED BY <1>8, <1>10, <2>4
<1>13. DecidingBlock'
  <2>1. /\ (\A b : Decides(x, y, b)' <=> Decides(x, y, b))
        /\ Differing(x, y)' = D /\ CutRelation(x, y)' = CutRelation(x, y)
    BY <1>1 DEF Decides, Differing, CutRelation, CutBlock, MaskValues
  <2>2. goal' = goal /\ plain' = plain /\ maskEnd' = maskEnd
    BY <1>1
  <2>3. res' > 0 /\ goal.aim # "EQUAL" => Decides(x, y, res' - 1)
    BY <1>8, <1>10
  <2>4. Weight[0] <= maskEnd => CutRelation(x, y) = Relation(x, y)
    BY <1>5, FittingRelation
  <2> QED BY <1>9, <1>11, <1>12, <2>1, <2>2, <2>3, <2>4 DEF DecidingBlock
<1>14. OldBuffers'
  BY <1>1, OldBuffersKept DEF OldInv
<1> QED BY <1>13, <1>14 DEF OldInv

\* The older scheme never misses the relation a query asks for in its column
\* and in row 1, and returns the number of the block that decides it
\* (ore_blk.cpp:533-598): the relation of the numbers if all their blocks fit
\* the 32 bits of block_mask, otherwise that of what the mask leaves of the
\* blocks; for any number and width of blocks and any round keys.
THEOREM NamesDecidingBlock == OldSpec => []DecidingBlock
<1>1. OldInv /\ [OldNext]_oldVars => OldInv'
  <2> SUFFICES ASSUME OldInv, [OldNext]_oldVars PROVE OldInv'
    OBVIOUS
  <2>1. CASE UNCHANGED oldVars
    <3>1. UNCHANGED <<maskEnd, sk, ctxt, cmp_query, plain, goal, res>>
      BY <2>1 DEF oldVars
    <3>2. DecidingBlock'
      BY <3>1 DEF OldInv, DecidingBlock, Differing, Decides, CutRelation, CutBlock, MaskValues
    <3> QED BY <3>1, <3>2, OldBuffersKept DEF OldInv
  <2> QED BY <2>1, OldEncrypts, OldAsks, OldCompares DEF OldNext
<1>2. OldInv => DecidingBlock
  BY DEF OldInv
<1> QED BY <1>1, <1>2, OldBegins, PTL DEF OldSpec
=============================================================================
