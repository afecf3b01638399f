# Verification of the ICP subaccount indexer

TLA+ models of the canister in `src/icp_subaccount_indexer`, checked with TLC
and, where a property matters for every size of the system, proved with TLAPS.
Paths below are relative to the repository; `lib.rs`, `types.rs`, `memory.rs`
are those of `src/icp_subaccount_indexer/src`.

## 1. The system

The canister hands out deposit addresses (subaccounts of its own principal),
polls token ledgers for transfers to them, announces each find to a webhook,
and pays the deposits out to a custodian.

| Part | State | Operations | Hard because |
|---|---|---|---|
| Deposit indexer (`lib.rs` 127-152, 535-1143) | `TOKEN_NEXT_BLOCKS`, `NEXT_BLOCK`, `TRANSACTIONS`, `TOKEN_LEDGER_PRINCIPALS`, `WEBHOOK_URL` | a timer spawns `call_query_blocks`, which awaits `query_token_ledger` for each token; `process_token_archived_block`; cursors set and reset by operators | cycles overlap; two awaits per poll; a trap drops a poll half way; ledgers archive what has not been read; one key space for all tokens |
| Sweeping (`lib.rs` 314-530, 755-795, 2129-2553, 2652-2760) | status in `TRANSACTIONS`, funds on the ledgers | `sweep`, `sweep_by_token_type`, `single_sweep`, `refund`, `sweep_subaccount`, `set_sweep_failed`, `clear_transactions` | a call copies up to 100 records and awaits a ledger for each; copies go stale; calls overlap although there is a guard; u64 amounts wrap |
| Lifecycle and registry (`lib.rs` 60-64, 1155-1490; `memory.rs`) | everything in `memory.rs` (stable), `NETWORK`, `LIST_OF_SUBACCOUNTS`, `TIMERS` (heap) | `init`, `post_upgrade`, `set_interval`, `add_subaccount`, `get_subaccountid`, `set_custodian_principal` | an upgrade loses the heap; `post_upgrade` calls guarded code before the guard's data is back; migration must run once |
| Authentication (`lib.rs` 103-125; `types.rs` 28-63) | `CUSTODIAN_PRINCIPAL`, `NETWORK`, the set of principals with a request in progress | `authenticate`, `CallerGuard` | the guard lives as long as a local variable |
| Block parsing (`lib.rs` 538-752, 1813-1943) | none | ICP and ICRC-3 blocks to `Block` | two paths read the same block differently |
| Token registry (`lib.rs` 2595-2650) | `TOKEN_LEDGER_PRINCIPALS`, `PRINCIPAL` | `register_token`, `reset_token_blocks`; read by polls, look-ups and sweeps | each reader reads it at another moment and has another fallback; a type may be moved while calls are out |
| Account texts (`types.rs` 584-773; `principal_converter`) | none | `to_text`, `from_text`, base32 | written digit by digit, read byte by byte; typed by people |
| Other encodings (`types.rs`, `ledger.rs`, `hashof.rs`) | none | account identifiers, hashes, `Storable` | pure functions of libraries |
| Queries (`lib.rs` 1439-1562, 2762-2837) | none | `list_transactions`, `get_subaccountid`, `get_icrc_account`, `convert_to_icrc_account`, `validate_icrc_account`, getters | 64-bit arguments on a 32-bit machine |
| TypeScript client (`packages/icsi-lib/src`) | none | `getDepositAddresses`, `getBalances`, wrappers | a loop of calls that others may get in between of |

The parts meet in four places. `TRANSACTIONS` is written by the indexer (new
records), by sweeping (status, with a whole stale record) and by
`clear_transactions`; the indexer model has the last as an action, the sweeping
model has the indexer as its actions `Arrive` and `Index`. The nonce and
`LIST_OF_SUBACCOUNTS` are read by the indexer (`Includes`) and owned by the
lifecycle. The cursors are moved by the indexer, migrated by the lifecycle. Which ledger
is asked is decided by the registry, for polls, look-ups and sweeps alike:
`TokenLedgers` composes the three.

What makes each part correct:

- indexer: no deposit that the cursor has passed is lost; what is stored is on
  the ledger; nothing is stored over something else; each is announced once; a
  deposit is indexed in the end;
- registry: a record names the ledger it was found on, is paid there, and a
  deposit is missed only because its type was moved or its key taken;
- sweeping: `Swept` means paid; an unswept record is unpaid; no record is paid
  twice; a subaccount holds what was not paid; a call returns, and repeated
  sweeps leave nothing behind once no more is found;
- lifecycle: one timer, no forgotten address, no lost or repeated cursor, and
  somebody who can operate the canister, after any upgrades;
- addresses: an address shown is of the subaccount made for it, reads back as the
  account it was written for, and is not taken for another with a slip in it.

## 2. Modules

| Module | Is |
|---|---|
| `BlockIndexer` | the indexer, with its ledgers and operators |
| `DepositBook` | what the indexer promises of a deposit: unseen, then filed or excused; announced when it is filed; not passed by the cursor while it is unseen |
| `BlockIndexerProofs`, `BlockIndexerBookProofs` | theorems about them |
| `TokenLedgers`, `TokenLedgersProofs` | which ledger is asked while types are moved; theorems |
| `Sweeping` | sweeping, with the ledgers' balances and an abstract indexer |
| `Payout` | what sweeping promises of each record: owed, then paid once or failed, or cleared |
| `SweepingProofs`, `SweepingOnceProofs` | theorems about them |
| `Lifecycle`, `LifecycleProofs` | install, upgrade, configuration; theorems |
| `AccountText` | how an ICRC-1 account is written and read |
| `Client`, `ClientProofs` | addresses as the client library makes and shows them, texts as users type them, listed transactions; theorems |
| `CollectionLemmas` | lemmas that several proofs cite: the least element, sums over sets, listing a set in order |
| `MCBlockIndexer`, `MCTokenLedgers`, `MCSweeping`, `MCLifecycle`, `MCClient` | small instances for TLC; one `.cfg` for each run |

A definition that a comment calls a mutant is a wrong variant of the one that
follows it; it is used by no specification, and `PROJECT.json` says which
property fails when it takes that definition's place.

### BlockIndexer

Code between two awaits is one action. A poll of token `t` in cycle `c` is
`polls[c][t]`:

| Action | Code |
|---|---|
| `Tick(c)` | the timer: `call_query_blocks` reads all cursors and sends the queries (1072-1095) |
| `AnswerOk`, `AnswerReject` | the ledger answers with up to `BatchLen` blocks, or the call is rejected and the poll ends with the cursor it started from (932-947) |
| `StoreBatch`, `StoreAndNotify` | the reply: match, insert under `block_count` unless the key is there, hand the first new hash to the webhook (949-1070) |
| `TrapOnBatch` | the reply traps in `hash_transaction`; its effects are undone, the cycle's poll is gone (798-802) |
| `WebhookReply` | the outcall returns, with or without an error (1063-1070) |
| `Finish` (part of the above) | the cursor is written (1096-1143) |
| `AddSubaccount`, `RegisterToken`, `SetWebhookUrl`, `SetTokenNextBlock`, `ResetTokenBlocks`, `SetNextBlock`, `ClearTransactions`, `ProcessTokenArchivedBlock` | the methods of those names |
| `LedgerAppend`, `LedgerArchive` | the outside |

`Tick` requires that cycle `c` is idle, so at most `|Cycles|` cycles overlap;
the code has no limit, and the theorems hold for any set `Cycles`. The history
variables `cleared`, `skipped`, `shadowed` and `notified` are read by
properties only. A block is its operation and three accounts; an account is a
subaccount's index or `NoAccount`. Amounts, hashes, memos and times are left
out, as no property of this part depends on them.

Abstractions a reader should know of: a ledger's block 0 is left out (cursors
start at 1); a token has one ledger for the whole run (`TokenLedgers` has the
other case); the records of `clear_transactions` by timestamp
are an arbitrary set, as the model has no times; the records of
`process_archived_block` (ICP) and `process_token_archived_block` (ICRC) are
stored in one step, for both read nothing of the canister before they store.

`Book` maps the state to `DepositBook`: `FateOf` a deposit is filed if it has a
record, excused if an operator cleared or skipped it or its key was taken, and
unseen otherwise.

### TokenLedgers

| Action | Code |
|---|---|
| `RegisterToken` | the entry is replaced; the cursor stays (2619-2650) |
| `Tick`, `PollAnswered`, `PollRejected` | a cycle: the ledger and cursor of each type are taken before the await, the records name that ledger, the cursor is written last (922-1143) |
| `LookUp`, `Found`, `NotFound` | `process_token_archived_block`: ICP at `PRINCIPAL`, others at the registered ledger (1564-1575, 2014-2127) |
| `Sweep`, `Transferred`, `Refused` | copies of the records; for each one the ledger is looked up again when its transfer is prepared (423-487, 2652-2760) |

There are three ways to a ledger: `PollLedger` (the entry, for ICP `PRINCIPAL`),
`LookupLedger` (for ICP always `PRINCIPAL`) and `LedgerOf` (the entry, or the
principal in the code). `Readable` is the choice of protocol in `query_blocks`:
a ledger that is not one of the three ICRC ledgers in the code is asked with the
method of ICP ledgers. Blocks are numbers, `Deposits[l]` those that credit a
subaccount; webhook, archives and clearing are in `BlockIndexer`, refunds,
amounts and overlapping sweeps in `Sweeping`. `mixed` is a history: the types
moved while something of theirs was stored, asked or copied.

### Sweeping

A deposit is a transfer on a ledger: token, block, subaccount, amount and hash. A
filing is a deposit under a key, and the indexer of the model may make any
filing of a deposit that has arrived: `Filings` may give a deposit several keys.
That is what the code does. `block_count` starts at the cursor also when the
answer starts later (`lib.rs:962`): with blocks 1 and 2 archived, a query at 1
answered with blocks 3 to 5 files them under 1 to 3, the cursor becomes 4, and
the next poll files 4 and 5 once more, under 4 and 5. Each of the two records is
NotSwept, and a sweep asks for both. What sweeping guarantees is therefore said
of records (filings): money arrives once for each deposit, payments are counted
for each record, and the properties about funds leave out the subaccounts with a
deposit that has two records (`PaidApart`).

A call is `calls[c]`: its kind, the copies it has still to ask for, and the phase
of the first of them.

| Action | Code |
|---|---|
| `Sweep`, `SweepByTokenType`, `SingleSweep`, `Refund` | the call up to its first await: the copies, and `to_..._args` of the first one |
| `Transfer`, `Refuse` | the ledger executes or refuses; a refusal also stands for a rejected call |
| `Reply` | `update_status` with the outcome and the copy; then `to_..._args` of the next copy, whose failure ends the call |
| `SweepSubaccount` | the call and the ledger's step together, as the canister keeps nothing of it |
| `SetSweepFailed`, `ClearTransactions` | the methods of those names |
| `Arrive`, `Index` | a transfer on a ledger, and the indexer that files it under a free key, again if it has another one |

Amounts are numbers modulo `Modulus` (2^64), because `amount - fee` wraps for
dust in a release build: the ledger then refuses, which `Payable` shows rather
than assumes. `Authenticated` is the guard as it is: a local of `authenticate`
that is gone when `authenticate` returns. Callers are the custodian; that there
is one is `CustodianCanOperate` of `Lifecycle`. The code sends the transfers of
a call one after the other, in key order (`IsFirst`). A refund goes to the
sender; where the money goes is not modelled, only that it leaves.

### Lifecycle

`version` says what runs: nothing, a canister of the old version (one counter
`NEXT_BLOCK`, no custodian), or this one. `Install` is `init`, `Upgrade` is
`post_upgrade` on a fresh heap, in the order of its calls: `set_interval` sees
the network of the new heap (`HeapNetwork`), not the stored one. `timers` is
what the runtime fires; `timer` is what the canister believes to be its timer.
`set_custodian_principal` has an await and is two actions. `Poll` is what a
cycle of `BlockIndexer` does to the cursors.

An upgrade happens with no call in progress: the runtime runs `post_upgrade` on
a stopped canister. `to_u64_hash` is an injective function (`HashInjective`).

### Client and AccountText

A text is a record of owner, checksum and digits, with `None` for a part that is
not there: what the code does to find the separators is left to this form, what
it does to the parts is in `ToText` and `FromText`. Base32 is the loop of the
code, with the 16 bits of its accumulator. The CRC is a constant; the instance
has one that tells apart subaccounts that differ in one digit, as CRC-32 does,
and any two accounts that a slip may confuse (`CrcTells`, which TLC evaluates).
`principal_converter` has a copy of the same code, and prints the accounts in
`Printed`.

| Action | Code |
|---|---|
| `GetRegisteredTokens`, `GetNonce`, `AddSubaccount` or `AddFails`, `GetSubaccountId`, `GetIcrcAccount` | the calls of `getDepositAddresses`, one action each (helpers.ts:64-111); a failed add is ignored, an index out of bounds leaves the token out |
| `ValidateIcrcAccount` | a user's text, with at most one slip, and what `from_text` makes of it |
| `IndexTransaction` | the indexer; `ListTransactions` and `GetUserVaultTransactions` are read in every state |

`ListTransactions(None)` lists `DefaultCount` (100) transactions, and the library's
`getUserVaultTransactions` passes 0 on as none (query.ts:54).

## 3. The runs

Every run is a `.cfg`; those that pass find no error in the whole state space,
and check for deadlock, but for `MCClient`, whose clients return.

| Run | Question | Bounds |
|---|---|---|
| `MCBlockIndexer_Overlap` | Do overlapping cycles of one ledger lose, misfile or announce twice, with a rejected call, a webhook, a new subaccount and an operator in between, and is every deposit indexed in the end although they rewind each other's cursor? | 2 cycles, 2 blocks, batches of 2, 2 subaccounts, 1 reject, 1 intervention |
| `MCBlockIndexer_Ledgers` | Two ledgers, one key space, approvals that make the hash trap, blocks archived while they are polled: what is stored, what is lost, and is `DepositBook` implemented? | 1 cycle, 2 blocks each, 1 archived |
| `MCBlockIndexer_Collision` | violation: deposits on two ledgers at one index | 2 ledgers, 2 blocks |
| `MCBlockIndexer_DefaultSubaccount` | violation: deposit to index 0 on an ICRC ledger | 1 kind of block |
| `MCBlockIndexer_MintStuck` | violation (liveness): a mint to a subaccount blocks its token | 1 cycle, 2 blocks |
| `MCSweeping_Concurrent` | Two calls of any kind, `clear_transactions` too, on the same records: do statuses still tell the truth, and does a key keep its record? | 3 deposits in 4 filings: one under two keys, one key wanted by three; two deposits share a subaccount; batches of 2 |
| `MCSweeping_Sequential` | One sweep at a time, with `clear_transactions`: is each record paid once, do the books balance, does the ledger have what each sweep asks for, is `Payout` implemented, does a call return, and do repeated sweeps reach every record? | 4 deposits in 5 filings on two ledgers: one below the fee, one that credits nobody, one under two keys; batches of 2 |
| `MCSweeping_Guard` | violation: two requests of one principal | 2 deposits, 2 calls |
| `MCLifecycle` | What survives installs, upgrades and configuration calls in any order? | 3 subaccounts, 2 tokens, 2 principals, 2 intervals, 2 blocks, 2 calls |
| `MCTokenLedgers` | Types are moved between ledgers while a poll, a look-up and a sweep are out: do records and payments stay with their ledger, and what is missed? | 2 types, 4 ledgers (two of ICP, between which it moves to and fro; a test ledger with a deposit that nobody reads), at most 2 blocks each, 1 cycle, no bound on moves |
| `MCClient` | Two clients make addresses at once, users type them with slips, transactions are listed: whose address is it, what is accepted, what is listed? | 2 clients, 2 tokens, first index 0 or 15 (so that addresses have one and two digits), 6 digits of 16, 3 transactions, `Usize` 4, `DefaultCount` 2 |
| `MCClient_OddDigits` | violation: the address of subaccount 5 is shown, typed as it is, and refused | 1 client, first index 5 |

Why the bounds are enough. The races of the indexer are between two polls of
one range, or one poll and one operator, so two cycles and two blocks give every
order of them; a batch of 2 has a first and a later block, a batch of 1 makes
the cursor move in two steps. A sweep's races are between two calls and a
record, or a call and two records of one subaccount or one deposit; with a batch
of 2 and four filings a sweep leaves older records behind. The lifecycle needs no more
than two upgrades with a change in between, and has no bound on their number.
`MCTokenLedgers` has one type that falls back on `PRINCIPAL` and one that does
not, keys that two types want, and a ledger nobody can read; one cycle, as what
overlapping cycles add is in `BlockIndexer`, and the theorems hold for any
number. In `MCClient` a third client adds no other order of two adds and a read.
Symmetry is used for identical cycles and identical calls, in runs without
liveness only. The theorems below lift most of these bounds.

Fairness. `BlockIndexer` assumes that the interval timer keeps firing, that
each ledger call and each outcall gets a response (the Internet Computer
guarantees one) and that a response is executed; a poll is answered by a
successful answer in the end because the bound `MaxRejects` is finite. `Sweeping`
assumes the same of its calls, but not that a ledger ever agrees. `SweptSpec`,
for `SweepsDrain` only, adds that the custodian sweeps again whenever nothing is
in progress, as `sweep`'s limit of 100 records presumes. Nothing else is
assumed of users, operators, archives or the custodian. `SweepsDrain` has two
premises of its own: from some time on no record is there that credits nobody
(one is enough to end every sweep, `lib.rs:2254`), and the indexer finds nothing
more. The second is needed: a sweep takes the newest 100 records, so as long as
as many new ones come as are swept the old ones wait, for ever if it does not
end. Without the premise TLC shows a record that starves while cleared records
are found again and again. The other modules have
no liveness property.

### Disagreements with the documentation

Shown by the runs that end in a violation:

1. A deposit is dropped when another token's record has its block index
   (`lib.rs:1038`; README.md:18, docs/TESTING_GUIDE.md:164).
2. Polling does not read the receiver of a transfer to the default subaccount of
   an ICRC ledger, the archive path does (`lib.rs:661`, `lib.rs:1857`).
3. A mint, burn or approval that concerns a subaccount makes every later poll of
   its token trap (`lib.rs:801`).
4. `CallerGuard` guards nothing that awaits (`lib.rs:123`, `types.rs:39`).
5. `validate_icrc_account` refuses addresses with an odd number of digits, those
   of the indices 1 to 15, 256 to 4095 and so on (`types.rs:651`, `types.rs:726`), such as the
   `.5` that README.md:133, docs/TESTING_GUIDE.md:276 and
   packages/icsi-lib/docs/API.md:531 have as examples.

Visible in the model, without a run of their own: `set_next_block` writes only
`NEXT_BLOCK`, which no poll reads (docs/CANISTER_DEBUGGING_GUIDE.md:301 says
otherwise); the webhook hears of the first new deposit of an answer only
(README.md:20); a sweep takes the last 100 unswept records, not all
(packages/icsi-lib/docs/API.md:334); `init` registers no token ledger
(README.md:143), so only ICP is polled until `register_token` is called;
`update_status` stores a record that was cleared meanwhile and then reports it
as not found (`lib.rs:498`, `lib.rs:504`); a ledger other than the three ICRC
ledgers in the code may be registered but is never read (`lib.rs:543`), among
them the one that the client library registers for ckUSDT (update.ts:143); ICP
that is not registered is polled at the ledger given to `init` and swept at the
one in the code (`lib.rs:2597`); a deposit on an archived range may be filed
under two keys (`lib.rs:962`), and is then swept twice, the second time out of
another deposit of its subaccount or in vain (`PaidOnce`, `SweepsAreFunded` and
`FundsMatchRecords` do not hold of deposits, only of records and of subaccounts
without such a deposit); of two calls of `getDepositAddresses` that
interleave both show one address, and nobody the other (helpers.ts:81-97);
`getBalances` and `getTransactionsByTokenType` ask for `BigInt(0)` to "Get all
transactions" (helpers.ts:126-131, 208-212), which query.ts:54 turns into no number and
`list_transactions` into the newest 100 (`lib.rs:1533`), so a balance leaves out what
is older, without a sign (packages/icsi-lib/docs/API.md:490 says "Gets balances for all
tokens."); `list_transactions` returns nothing when asked for 2^32 (`lib.rs:1555`).

## 4. The proofs

For every number of tokens, blocks, cycles, deposits, calls and principals, from
the assumptions named in the modules (`ConstantsOK`; `HashInjective` in
`Lifecycle`, `ClientOK` in `Client`, `DigitsOK` and `NoneOK` in `AccountText`):

| Theorem | Says | Under |
|---|---|---|
| `BlockIndexerProofs!TypeCorrect` | `[]TypeOK` | |
| `BlockIndexerProofs!RecordsStable` | `RecordsAreStable` | |
| `BlockIndexerProofs!RecordsCorrect` | `[]RecordsAreLedgerTransfers` | |
| `BlockIndexerProofs!KeyCorrect` | `[]KeyIsBlockIndex` | `MaxArchived = 0` |
| `BlockIndexerBookProofs!NoDepositIsLost` | `[]NoDepositLost` | |
| `BlockIndexerBookProofs!ImplementsBook` | `DepositBook!Spec` (`BookKept`) | |
| `BlockIndexerBookProofs!NotifiesOnce` | `NotifiedOnce` | `MaxArchived = 0` |
| `TokenLedgersProofs!TypeCorrect`, `RecordsNamed`, `SweptWhereFound`, `OnlyMovesMiss` | the four invariants of `MCTokenLedgers` | |
| `SweepingProofs!TypeCorrect` | `[]TypeOK` | |
| `SweepingProofs!SweptIsPaid` | `[]SweptWasPaid` | |
| `SweepingProofs!RecordsKeepDeposits` | `RecordsStay` | |
| `SweepingProofs!UnsweptIsUnpaid` | `[]UnsweptUnpaid` | |
| `SweepingOnceProofs!SweptOnce` | `[]PaidOnce` | `OneSweepAtATime` |
| `SweepingOnceProofs!SweepingImplementsPayout` | `Payout!Spec` | `OneSweepAtATime` |
| `SweepingOnceProofs!FundsMatch`, `SweepsFunded` | `[]FundsMatchRecords`, `[]SweepsAreFunded` | `OneSweepAtATime`, `[]BalancesFit` |
| `LifecycleProofs!TypeCorrect`, `OneTimerRuns`, `AddressesKnown`, `CursorsAreKept`, `CustodianOperates` | the five invariants of `MCLifecycle` | |
| `ClientProofs!TypeCorrect`, `OwnSubaccounts`, `NamesOfOneSubaccount`, `NewestListed` | `[]TypeOK`, `[]OwnUnlessOvertaken`, `[]NamesAgree`, `[]ListsNewest` | |
| `ClientProofs!SlipsCaught`, `ReadsBack` | `[]SlipsAreCaught`, `[]ReadsBackInBytes` | `CrcTells` |

Along which argument:

- `NoDepositLost` speaks of the cursor, but a poll that is out will write the
  cursor it took when it started. `CursorInv` therefore says that everything
  below the `next` of *every* poll in progress is settled, and that an answer
  starts where the poll asked or right after what is archived (`PollsOK`).
  Settled stays settled because a record only leaves through
  `clear_transactions` (`RecordsStable`) and the histories only grow.
- `RecordsAreLedgerTransfers` needs that a key never runs ahead of the block it
  stands for: keys count from `next`, the answer may start later.
- `ImplementsBook`: with `CursorInv`, every step files deposits and announces at
  most one of them, or excuses some (`FilesOnly`, `ExcusesOnly`); none becomes
  unseen again because a record only leaves into `cleared`, and what the cursor
  has passed is seen by `NoDepositLost`.
- `NotifiedOnce` is about a poll that handed a hash to the webhook; another may
  have started before and be answered after. `AnnouncedInv` says that every
  deposit announced and not cleared is a record under its index, so that
  `contains_key` keeps it from being fresh again. With archives the index is not
  the key, and the theorem needs `MaxArchived = 0`.
- `PaidWhereFound` needs that, for a type not in `mixed`, all its records, polls,
  look-ups and copies are of the ledger that a sweep would ask (`AtLedger`).
  `MissedOnlyByMove` is about the record of this very deposit; that a key in the
  store has a record of this or another ledger's deposit is `RecordsNameTheirLedger`,
  and that there is one needs that the cursor and the `next` of every poll are at
  most what `reached` has for some ledger, and that what a ledger was read up to
  is filed (`Reached`, `ReachedFiled`).
- `SweptWasPaid` needs that a call whose phase is `ok` has paid its first copy;
  that it is the *first* copy is unique because no two copies of a call have one
  key (`CopiesOK`).
- `UnsweptUnpaid` and `RecordsStay` are about keys that were never cleared. They
  need that copies are current (`CopiesCurrent`): the record a copy was taken from
  stays, so a stale write hits its own record; and that what was paid is
  recorded (`PaidIsRecorded`), so that it is not filed as NotSwept.
- `PaidOnce` needs that the copies a single sweep has left are unswept
  (`CopiesUnswept`), and by `UnsweptUnpaid` unpaid; `SweepingImplementsPayout`
  computes from it what a step does to `OutcomeOf` of each filing. Both are about
  records: nothing in the argument keeps a deposit from having two.
- `FundsMatchRecords` is an invariant of money: `FundsInv` adds that every record
  is of a deposit that arrived and that finitely many arrived, so that the sum
  changes by one amount with each step. What is asked of a ledger is still in its
  subaccount (`AskedIsUnspent`): here the argument needs that no deposit of the
  subaccount has two records, and that none was cleared (`PaidApart`). An amount smaller than the fee
  wraps to more than any balance and is refused; that needs `BalancesFit`:
  balances are u64, as amounts are. `SweepsAreFunded` follows: the sum
  has the amount that is asked for in it. The lemmas on sums are inductions over
  finite sets; the library's induction theorem takes an operator, so
  `CollectionLemmas` goes by the least counterexample among the sizes
  (`LeastOf`).
- In `Lifecycle` the invariant says that the table is exactly `TableOf` of what
  the nonce counts (so an upgrade rebuilds it, `TableGrows` for `add_subaccount`),
  and that a canister of the old version still has its progress in `NEXT_BLOCK`.
- `OwnUnlessOvertaken` needs what the index a client has read has become
  (`CallOK`): the nonce, as long as no other client added; then the subaccount it
  added itself, whatever others add after that. That a token has one entry needs that the loop is past every
  token it has shown (`EntryOK`). Texts are never looked into; `NamesAgree` uses
  that account identifiers are injective, and that the entry's index is still
  one that `convert_to_icrc_account` tries.
- `ListsNewest` (for any number, or none: `ListedIsNewest`) needs that a finite set of numbers has exactly one sequence that
  lists it in order (`ListExists`, by its size), and that the keys above the
  k-th listed are those listed after it (`ListIs`).
- `SlipsAreCaught`: whatever was typed is an address with one slip (`TypedInv`),
  and what such a text is read as is an account of `Misread` (`HexSlips`: zeros
  are filled in where the slip moved the digits). Its checksum is the one that
  was written only if the CRC is, since four bytes can be read off their seven
  digits (`Base32Injective`: `FoldLeft` is unfolded once for each byte, and the
  rest is arithmetic), and by `CrcTells` only if it is the account that was
  meant. `CrcTells` is what is asked of the CRC, which is external: four bytes,
  others for each account that a slip makes. It holds of a CRC-32 for a single
  digit, and for the other slips unless there is a collision; `MCClient` assumes
  it of its own checksum, and TLC evaluates that.
- `ReadsBackInBytes` comes down to the place of the first digit that is not
  zero (`TrimmedIs`): it is odd exactly if an even number of digits is left. The
  lemma `AsShown` has the other half, that all other addresses are refused.

The restrictions are real: with two sweeps at a time, or `single_sweep`, a
record may be paid twice (out of the funds of another one), after
`clear_transactions` a paid deposit may be found again and swept, and a deposit
with two records is paid for both.

Model-checked only: liveness (`DepositsEventuallyIndexed`, `CallsReturn`,
`SweepsDrain`), which is out of the prover's reach. Every invariant and every
other action property of a passing run is also a theorem, some of them under the
assumption in the table.

## 5. Not modelled

- Account identifiers (SHA-224) and transaction hashes (SHA-256 over CBOR): a
  model would be the library's function; they are injective constants
  (`HashInjective`, `AccountId`), and equal hashes are in `Sweeping`.
- `Storable` bytes, with the conversion of records of the first version and the
  bound of 500 bytes: candid's encoding of one record at a time.
- Getters of a single variable, the client's wrappers of a single call, its sums
  over lists (of at most 100 transactions, see section 3), frontend and scripts.
- The wire formats of blocks. What the two readings make of a transfer, a mint, a
  burn and an approval is in `AsPolled` and `AsArchived`; a block that does not
  parse is left out by the code and not in the model.
- How the archive canister of an ICRC-3 ledger is found, an archive that is
  unreachable, or the wrong one because of the end of a range (`lib.rs:1986`): the
  look-up then changes nothing, which the models allow for every look-up.
- Upgrades with calls in progress (the runtime wants the canister stopped),
  cycles balance, memory limits.
- `BlockIndexer` and `Sweeping` over one `TRANSACTIONS` with all their operations:
  the product is out of TLC's reach. `TokenLedgers` composes polls, look-ups and
  sweeps over one store, `Sweeping` has the indexer as `Arrive` and `Index`, and
  `BlockIndexer` has clearing.

## 6. What could come next

1. `Upgrade` composed with polls and sweeps in progress: what an answer finds
   that arrives after an upgrade of a canister that was not stopped.
2. `Icrc3Parsing`: the two readings of a block as operators over a small wire
   format, compared with each other.
3. Proofs: `SlipsAreCaught` for texts with more than one slip, and
   `NotifiedOnce` with archives, where a key is no longer a block index.
