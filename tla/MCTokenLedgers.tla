---------------------------- MODULE MCTokenLedgers ----------------------------
(* An instance of TokenLedgers for TLC. *)
EXTENDS TokenLedgers, TLC

CONSTANTS CKBTC, icp, local, btc, test

\* The canister was installed for a local ICP ledger: until ICP is registered
\* its polls and sweeps go to different ledgers.
LedgersInCode == (ICP :> icp) @@ (CKBTC :> btc)

\* ICP may be moved to and fro between two ledgers that both answer polls, ckBTC
\* from the ledger in the code to a test ledger, whose blocks are never read,
\* as its principal is not in the code.
Moves == (ICP :> {icp, local}) @@ (CKBTC :> {test})

\* The key of the deposit on icp is free on local and taken on btc and test.
DepositBlocks == (icp :> {1}) @@ (local :> {2}) @@ (btc :> {1}) @@ (test :> {1})

Sizes == (icp :> 1) @@ (local :> 2) @@ (btc :> 1) @@ (test :> 1)
===============================================================================
