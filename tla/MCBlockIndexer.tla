--------------------------- MODULE MCBlockIndexer ---------------------------
(* Instances of BlockIndexer for TLC. *)
EXTENDS BlockIndexer

CONSTANTS CKBTC

Transfer(a) == [op |-> "transfer", from |-> NoAccount, to |-> a, spender |-> NoAccount]
Mint(a)     == [op |-> "mint",     from |-> NoAccount, to |-> a, spender |-> NoAccount]
Approve(a)  == [op |-> "approve",  from |-> NoAccount, to |-> NoAccount, spender |-> a]

\* Deposits to the second subaccount, which is handed out during the run: until
\* then they are transfers between strangers.
LateDeposits == [t \in Tokens |-> IF t = ICP THEN {Transfer(1)} ELSE {}]

\* Mints, which make the hash trap.
MintLedger == [t \in Tokens |->
  IF t = ICP THEN {Transfer(0), Mint(0)} ELSE {}]

\* Two tokens with deposits to a subaccount each; on the ICRC ledger also the
\* operations the adapter drops.
TwoLedgers == [t \in Tokens |->
  IF t = ICP THEN {Transfer(1)} ELSE {Transfer(1), Mint(1)}]

\* Two ledgers, and operations that make the hash trap.
TwoTrapLedgers == [t \in Tokens |->
  IF t = ICP THEN {Transfer(1), Approve(1)} ELSE {Transfer(1)}]

\* Deposits to the default subaccount, index 0, of an ICRC ledger only.
DefaultSubaccount == [t \in Tokens |-> IF t = ICP THEN {} ELSE {Transfer(0)}]
=============================================================================
