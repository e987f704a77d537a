------------------------------ MODULE HdDerive ------------------------------
(***************************************************************************)
(* common/blockchain/mpc/hd_derive.cpp: child keys along a path.  HMAC is  *)
(* the constant Tweak(key, chaincode, child) = <<scalar, chaincode>>; a    *)
(* hardened step hashes the private key, any other step the public one.    *)
(* Child numbers from Hardened on are hardened (bit 31).                   *)
(***************************************************************************)
EXTENDS LogGroup

CONSTANTS Hardened, Tweak(_, _, _)
ASSUME HardenedAssumption == Hardened \in Nat

IsHardened(child) == child >= Hardened

HashForDerive(public, private, chaincode, child) ==
  IF IsHardened(child) THEN Tweak(<<0, private>>, chaincode, child)
  ELSE Tweak(<<1, public>>, chaincode, child)

\* What a call of the libraries may fail at (a hash, a sum of points, a sum of
\* scalars), and the level of the path where it does; level 0 is none.
Calls == {"hash", "public", "private"}
NoFault == [level |-> 0, call |-> "hash"]
NotWritten == -1

\* derive_next_key_level_: one step from keys into the caller's outputs.  A
\* call that fails leaves those written before it.
DeriveNext(keys, outputs, child, derivePrivate, failing) ==
  LET hash == HashForDerive(keys.public, keys.private, keys.chaincode, child)
      chained == [outputs EXCEPT !.chaincode = hash[2]]
      added == [chained EXCEPT !.public = AddPoints(keys.public, GeneratorMul(hash[1]))]
      fails(written, why) == [written EXCEPT !.status = why]
  IN  CASE IsHardened(child) /\ ~derivePrivate -> fails(outputs, "hardened public")
        [] failing = "hash" -> fails(outputs, "hash")
        [] failing = "public" -> fails(chained, "adding tweak to pub")
        [] failing = "private" /\ derivePrivate -> fails(added, "adding tweak to priv")
        [] OTHER -> IF derivePrivate THEN [added EXCEPT !.private = (keys.private + hash[1]) % GroupOrder]
                    ELSE added

\* The loop over the path: the outputs of a level are the keys of the next.
Derive(keys, path, derivePrivate, fault) ==
  LET nothing == [status |-> Success, public |-> NotWritten, private |-> NotWritten, chaincode |-> NotWritten]
      level[i \in 0..Len(path)] ==
        IF i = 0 THEN nothing
        ELSE IF level[i - 1].status # Success THEN level[i - 1]
        ELSE DeriveNext(IF i = 1 THEN keys ELSE level[i - 1], level[i - 1], path[i], derivePrivate,
                        IF fault.level = i THEN fault.call ELSE "none")
  IN  level[Len(path)]

\* derive_public_key_generic: the key itself for an empty path.
DerivePublic(public, chaincode, path, fault) ==
  LET end == Derive([public |-> public, private |-> NotWritten, chaincode |-> chaincode], path, FALSE, fault)
  IN  [status |-> end.status, public |-> IF path = << >> THEN public ELSE end.public]

\* The loop left by break: the last status is that of success.
DerivePrivateAndPublicUnnoticed(public, private, chaincode, path, fault) ==
  LET end == Derive([public |-> public, private |-> private, chaincode |-> chaincode], path, TRUE, fault)
  IN  IF path = << >> THEN [status |-> Success, private |-> private, public |-> NotWritten]
      ELSE [status |-> Success, private |-> end.private, public |-> end.public]

\* derive_private_and_public_keys: the status of a step that fails is lost
\* behind a variable of the same name, the caller sees the general error; for
\* an empty path the public output is not written.
DerivePrivateAndPublic(public, private, chaincode, path, fault) ==
  LET end == Derive([public |-> public, private |-> private, chaincode |-> chaincode], path, TRUE, fault)
  IN  IF path = << >> THEN [status |-> Success, private |-> private, public |-> NotWritten]
      ELSE [status |-> IF end.status = Success THEN Success ELSE "general error",
            private |-> end.private, public |-> end.public]
DerivePrivate(public, private, chaincode, path, fault) ==
  LET both == DerivePrivateAndPublic(public, private, chaincode, path, fault)
  IN  [status |-> both.status, private |-> both.private]

\* build_bip44_path.
Bip44Path(asset, account, change, index) == <<44, asset, account, change, index>>
=============================================================================
