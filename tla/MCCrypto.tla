------------------------------ MODULE MCCrypto ------------------------------
(***************************************************************************)
(* Instance of the cryptographic library: the proofs, the objects and the  *)
(* curve arithmetic of small groups.  The three share nothing, so a        *)
(* behaviour exercises one of them.                                        *)
(***************************************************************************)
EXTENDS ProofSessions, CryptoObjects, Curves

MCScDigits == <<1, -2, 2, 1, 1, 1>>
MCGeBase == <<20, 115>>

\* Two digests: each half a polynomial in the parts, modulo a prime.
Mix(parts, a, b, m) ==
  LET s[i \in 0..Len(parts)] ==
        IF i = 0 THEN b ELSE (s[i - 1] * a + (parts[i] % m) * b + 3) % m
  IN  s[Len(parts)]
MCSha512(parts) == <<Mix(parts, 31, 17, 65521), Mix(parts, 57, 101, 65519)>>
MCKeccak512(parts) == <<Mix(parts, 37, 13, 65521), Mix(parts, 43, 71, 65519)>>

\* HMAC is a fixed function that tells its inputs apart.
MCTweak(key, chaincode, child) ==
  <<(3 * key[2] + key[1] + 2 * chaincode + child) % GroupOrder, (2 * chaincode + key[2] + child + 1) % 7>>

MCInit == ProofInit /\ ObjectInit /\ CurveInit
MCNext ==
  \/ obj = Nothing /\ curve = NoCurve /\ ProofNext /\ UNCHANGED <<obj, curve>>
  \/ session = Idle /\ curve = NoCurve /\ ObjectNext /\ UNCHANGED <<session, curve>>
  \/ session = Idle /\ obj = Nothing /\ CurveNext /\ UNCHANGED <<session, obj>>
MCSpec == MCInit /\ [][MCNext]_<<session, obj, curve>>
=============================================================================
