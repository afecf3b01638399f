------------------------------- MODULE MCClient -------------------------------
(* An instance of Client for TLC. *)
EXTENDS Client

CONSTANTS CKBTC, vault, other, ledger, alice, bob

Tokens == <<ICP, CKBTC>>

\* Without a collision, and in another order than the indices.
Ids == [i \in 0 .. MaxNonce |-> (7 * i + 3) % 29]

OwnerByte(o) == CASE o = vault -> 1 [] o = other -> 2 [] o = ledger -> 3

\* A checksum that tells any two subaccounts apart that differ in one digit, as
\* a CRC-32 does; texts that differ in the last digit differ in its last bits.
CrcLike(owner, sub) ==
  <<OwnerByte(owner), 170, 85, FoldLeft(LAMBDA h, d : (h * 17 + d) % 251, 1, sub)>>

ASSUME CrcLikeTells == CrcTells
===============================================================================
