------------------------------ MODULE FeistelPrp ------------------------------
(***************************************************************************)
(* The pseudorandom permutation of small domains in src/fastore/crypto.cpp *)
(* (prp_eval and its inverse): a Feistel network of three rounds.          *)
(*                                                                         *)
(* AES under a round key, cut to half a block, is a function of halves; the*)
(* three round keys a PRP key is expanded to are a choice of three.  Bit   *)
(* lengths are even and at most 16: the code refuses others.               *)
(***************************************************************************)
EXTENDS Integers

CONSTANTS
    Width,        \* the number of values of a half: 1 << (nbits / 2)
    HalfXor(_, _) \* ^ of two halves

Halves == 0 .. Width - 1
Domain == 0 .. Width * Width - 1
Pairs == [l : Halves, r : Halves]
Keys3 == [0 .. 2 -> [Halves -> Halves]]

ASSUME FeistelAssumption ==
    /\ Width \in Nat \ {0}
    /\ \A a, b \in Halves : HalfXor(a, b) \in Halves /\ HalfXor(HalfXor(a, b), b) = a

extract_blocks(x) == [l |-> (x \div Width) % Width, r |-> x % Width]
Joined(v) == Width * v.l + v.r
Swapped(v) == [l |-> v.r, r |-> v.l]

feistel_round(f, v) == [l |-> v.r, r |-> HalfXor(v.l, f[v.r])]

\* Mutant: the inverse takes the round keys in the order of the evaluation.
SameOrder(keys, inv, i) == keys[i]
round_key(keys, inv, i) == IF inv THEN keys[2 - i] ELSE keys[i]

Network(keys, inv, v) ==
    feistel_round(round_key(keys, inv, 2),
        feistel_round(round_key(keys, inv, 1),
            feistel_round(round_key(keys, inv, 0), v)))

prp_eval(keys, x) == Joined(Network(keys, FALSE, extract_blocks(x)))
prp_inv_eval(keys, y) ==
    Joined(Swapped(Network(keys, TRUE, Swapped(extract_blocks(y)))))
prp_inv_eval_all(keys) == [y \in Domain |-> prp_inv_eval(keys, y)]
=============================================================================
