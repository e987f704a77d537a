---------------------------- MODULE HashContexts ----------------------------
(***************************************************************************)
(* Objects that hash over several calls: the contexts of commitments.c and *)
(* the generator of drng.c.  SHA-256 over the concatenation of the updates *)
(* is the concatenation itself (an injective hash); SHA-512 is the chain   *)
(* of blocks Block(seed, 1), Block(seed, 2), ... of BlockSize cells.       *)
(***************************************************************************)
EXTENDS Naturals, Sequences

CONSTANT BlockSize           \* SHA512_DIGEST_LENGTH / 2
ASSUME HashAssumption == BlockSize \in Nat \ {0}

\* commitments_create_commitment_for_data, commitments_verify_commitment.
CreateCommitment(salt, data) ==
  IF data = << >> THEN [status |-> "invalid parameter"]
  ELSE [status |-> "success", salt |-> salt, commitment |-> <<salt>> \o data]
VerifyCommitment(data, c) ==
  IF data = << >> THEN "invalid parameter"
  ELSE IF <<c.salt>> \o data = c.commitment THEN "success" ELSE "invalid commitment"

\* commitments_ctx: value is the salt of a committing context and the
\* commitment a verifying one is compared with.  final consumes the context.
NoContext == [live |-> FALSE]
CommitmentNew(salt) == [live |-> TRUE, verifier |-> FALSE, value |-> <<salt>>, hashed |-> <<salt>>]
VerifyNew(c) == [live |-> TRUE, verifier |-> TRUE, value |-> c.commitment, hashed |-> <<c.salt>>]

Update(ctx, verifier, data) ==
  IF data = << >> THEN [status |-> "invalid parameter", ctx |-> ctx]
  ELSE IF ctx.verifier # verifier THEN [status |-> "invalid context", ctx |-> ctx]
  ELSE [status |-> "success", ctx |-> [ctx EXCEPT !.hashed = @ \o data]]
CommitmentUpdate(ctx, data) == Update(ctx, FALSE, data)
VerifyUpdate(ctx, data) == Update(ctx, TRUE, data)

CommitmentFinal(ctx) ==
  IF ctx.verifier THEN [status |-> "invalid context", ctx |-> ctx]
  ELSE [status |-> "success", ctx |-> NoContext,
        commitment |-> [salt |-> ctx.value[1], commitment |-> ctx.hashed]]
VerifyFinal(ctx) ==
  IF ~ctx.verifier THEN [status |-> "invalid context", ctx |-> ctx]
  ELSE [status |-> IF ctx.hashed = ctx.value THEN "success" ELSE "invalid commitment",
        ctx |-> NoContext]

-----------------------------------------------------------------------------
\* drng: the block in data is the block-th of the chain, pos of its bytes are
\* used; seed, the other half of each digest, is what the next block is made of.
Block(n) == [i \in 1..BlockSize |-> <<n, i>>]
DrngNew == [block |-> 1, pos |-> 0]

\* A read that takes the next block one cell early.
DrngReadEarly(rng, length) ==
  LET read[block \in Nat, pos \in Nat, want \in Nat] ==
        IF want >= BlockSize - pos
        THEN LET rest == read[block + 1, 0, want - (BlockSize - pos)]
             IN  [rest EXCEPT !.bytes = SubSeq(Block(block), pos + 1, BlockSize - 1) \o @]
        ELSE [rng |-> [block |-> block, pos |-> pos + want],
              bytes |-> SubSeq(Block(block), pos + 1, pos + want)]
  IN  read[rng.block, rng.pos, length]

\* drng_read_deterministic_rand: what is left of each block in turn, the next
\* block while more is wanted than is left.
DrngRead(rng, length) ==
  LET read[block \in Nat, pos \in Nat, want \in Nat] ==
        IF want > BlockSize - pos
        THEN LET rest == read[block + 1, 0, want - (BlockSize - pos)]
             IN  [rest EXCEPT !.bytes = SubSeq(Block(block), pos + 1, BlockSize) \o @]
        ELSE [rng |-> [block |-> block, pos |-> pos + want],
              bytes |-> SubSeq(Block(block), pos + 1, pos + want)]
  IN  read[rng.block, rng.pos, length]
=============================================================================
