----------------------------- MODULE EddsaTerms -----------------------------
(***************************************************************************)
(* Symbolic Ed25519 arithmetic for the threshold signing protocols.        *)
(*                                                                         *)
(* A scalar or a point is a linear form, kept as a bag of its terms: two   *)
(* forms are equal exactly when the library's scalars are equal for        *)
(* independently drawn nonces and key shares.  A point is the bag of the   *)
(* nonces k of its terms k*G.  A signature scalar s is a pair of bags: the *)
(* nonces added, and the products challenge * key share added, a product   *)
(* being <<player, challenge>>.  A hash is the tuple of what was hashed    *)
(* (injective).  HD derivation is not a separate term: the derived key is  *)
(* a function of the signed block, and the delta/n that each of the n      *)
(* signers adds to its share is part of that player's key-share term.      *)
(***************************************************************************)
EXTENDS Naturals, FiniteSets, Bags, Functions

\* std::map operations: m[k] = v and m.erase of the keys in ks.
Put(m, k, v) == [x \in DOMAIN m \cup {k} |-> IF x = k THEN v ELSE m[x]]
Drop(m, ks)  == [x \in DOMAIN m \ ks |-> m[x]]

EmptyMap == [x \in {} |-> x]

-----------------------------------------------------------------------------

\* generator_mul: the point k*G of a nonce.
GeneratorMul(k) == SetToBag({k})

\* add_points over the values of a map of points (the order is irrelevant): the
\* sum of bags, how often each term occurs in all of them together.
AddAll(points) ==
    [k \in UNION {DOMAIN points[i] : i \in DOMAIN points} |->
        FoldFunction(LAMBDA p, n : (IF k \in DOMAIN p THEN p[k] ELSE 0) + n, 0, points)]

\* ed25519_calc_hram: the challenge H(R, derived public key, block).
Hram(R, block) == <<R, block>>

\* ed25519_algebra_mul_add: s = hram * x_player + k.
MulAdd(hram, player, k) ==
    [nonces |-> SetToBag({k}), keys |-> SetToBag({<<player, hram>>})]

ZeroScalar == [nonces |-> EmptyBag, keys |-> EmptyBag]

\* ed25519_algebra_add_le_scalars / add_scalars.
AddScalars(s, t) ==
    [nonces |-> s.nonces (+) t.nonces, keys |-> s.keys (+) t.keys]

\* The same over the values of a map of scalars, from zero on.
SumScalars(scalars) ==
    [nonces |-> AddAll([i \in DOMAIN scalars |-> scalars[i].nonces]),
     keys   |-> AddAll([i \in DOMAIN scalars |-> scalars[i].keys])]

\* commit_to_r: the commitment of a player to its R of one block.
CommitToR(id, index, player, R) == <<id, index, player, R>>

\* commit_to_Rs: the hash a server sends along with the combined Rs.
CommitToRs(txid, player, Rs) == <<txid, player, Rs>>

\* ed25519_verify: s*G = R + hram * (sum of the players' public shares).
Ed25519Verify(players, block, sig) ==
    /\ sig.s.nonces = sig.R
    /\ sig.s.keys = SetToBag({<<p, Hram(sig.R, block)>> : p \in players})
=============================================================================
