------------------------------ MODULE MCSweeping ------------------------------
(* Instances of Sweeping for TLC. *)
EXTENDS Sweeping, TLC

CONSTANTS CKBTC, c1, c2

BothTokens == {ICP, CKBTC}

OneToken == {ICP}

FeeOne == [t \in Tokens |-> 1]

ICPFeeLarger == [t \in Tokens |-> IF t = ICP THEN 2 ELSE 1]

Filed(t, s, b, k, a, h) ==
  [token |-> t, sub |-> s, block |-> b, key |-> k, amount |-> a, hash |-> h]

\* Two deposits to one subaccount, so that one can be paid out of the other.
Shared == {Filed(ICP, 0, 1, 1, 2, "a"), Filed(ICP, 0, 2, 2, 2, "b")}

\* Besides, the second of them under the key of the first, as after a poll of a
\* range whose first block was archived, and one on another ledger with that key.
SharedKey == Shared \cup {Filed(ICP, 0, 2, 1, 2, "b"), Filed(CKBTC, 1, 1, 1, 2, "c")}

\* A deposit above and one below the fee (amount 1, fee 2) in one subaccount, a
\* record that credits nobody known, and on another ledger a deposit that is
\* filed under two keys, each of which one of the others wants.
Mixed == {Filed(ICP, 0, 1, 1, 3, "a"), Filed(ICP, 0, 2, 2, 1, "b"),
          Filed(ICP, NoAccount, 4, 4, 2, "c"),
          Filed(CKBTC, 1, 4, 2, 2, "d"), Filed(CKBTC, 1, 4, 4, 2, "d")}

Sweeps == {"sweep", "sweep_by_token_type"}

SweepsAndClear == Sweeps \cup {"clear_transactions"}

CallSymmetry == Permutations(Calls)
===============================================================================
