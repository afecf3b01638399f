---------------------------- MODULE BlockIndexer ----------------------------
(***************************************************************************)
(* The deposit indexer of the canister (src/icp_subaccount_indexer).       *)
(*                                                                         *)
(* A timer starts a cycle that asks the ledger of every tracked token for  *)
(* the blocks after that token's cursor, stores the ones that concern a    *)
(* subaccount of the canister in TRANSACTIONS and moves the cursor.        *)
(*                                                                         *)
(* The code between two awaits runs atomically; everything else may happen *)
(* while a call is outstanding.  query_token_ledger has two awaits, so a   *)
(* poll goes through the phases                                            *)
(*                                                                         *)
(*    idle -> asked -> answered -> [webhook ->] idle                       *)
(*                                                                         *)
(* and the cycles overlap: the timer does not wait for the last one.       *)
(* A trap undoes the message it happens in and drops the poll.             *)
(***************************************************************************)
EXTENDS Integers, Sequences

CONSTANTS
  Tokens,       \* the token types
  ICP,          \* the token polled whether or not it is registered
  NoAccount,    \* every account that is not a subaccount of the canister
  BlockKinds,   \* BlockKinds[t]: the blocks users of t's ledger may produce
  BatchLen,     \* blocks asked for in one call (100 in the code)
  Cycles,       \* polling cycles that may overlap
  InitialNonce, \* the nonce the canister is installed with
  MaxNonce,     \* bound: subaccounts handed out
  MaxLog,       \* bound: blocks per ledger
  MaxArchived,  \* bound: blocks a ledger moves to its archive
  MaxRejects,   \* bound: rejected ledger calls
  MaxOps        \* bound: times an operator sets a cursor or clears records

Ops == {"transfer", "mint", "burn", "approve", "none"}

Accounts == (0 .. MaxNonce) \cup {NoAccount}

Block == [op : Ops, from : Accounts, to : Accounts, spender : Accounts]

\* A block of a ledger: `issued' is the number of subaccounts handed out when
\* it was made, so a deposit to an address nobody has been given can be told
\* from the others.
LogBlock == [op : Ops, from : Accounts, to : Accounts, spender : Accounts,
             issued : 0 .. MaxNonce]

ASSUME ConstantsOK ==
  /\ ICP \in Tokens
  /\ NoAccount \notin Int
  /\ \A t \in Tokens : BlockKinds[t] \subseteq Block
  /\ BatchLen \in Nat \ {0}
  /\ MaxNonce \in Nat /\ InitialNonce \in 0 .. MaxNonce
  /\ MaxLog \in Nat /\ MaxArchived \in 0 .. MaxLog
  /\ MaxRejects \in Nat /\ MaxOps \in Nat

VARIABLES
  log,        \* external: log[t][i] is block i of t's ledger (block 0 left out)
  archived,   \* external: blocks 1 .. archived[t] are only in the archive
  nonce,      \* LAST_SUBACCOUNT_NONCE; LIST_OF_SUBACCOUNTS holds 0 .. nonce-1
  registered, \* the tokens in TOKEN_LEDGER_PRINCIPALS
  nextBlock,  \* TOKEN_NEXT_BLOCKS
  legacyNext, \* NEXT_BLOCK, what get_next_block returns
  txs,        \* TRANSACTIONS: key -> the token and ledger position stored there
  webhookSet, \* WEBHOOK_URL holds a valid URL
  polls,      \* polls[c][t]: the call of query_token_ledger for t in cycle c
  rejects,    \* rejected calls so far
  ops,        \* cursors set and records cleared by operators so far
  cleared,    \* history: deposits removed by clear_transactions
  skipped,    \* history: positions an operator moved a cursor over
  shadowed,   \* history: deposits not stored because their key was taken
  notified    \* history: deposits whose hash was sent to the webhook

external == <<log, archived>>
config   == <<nonce, registered, webhookSet>>
cursors  == <<nextBlock, legacyNext>>
bounds   == <<rejects, ops>>
history  == <<cleared, skipped, shadowed, notified>>
vars     == <<external, config, cursors, txs, polls, bounds, history>>

-----------------------------------------------------------------------------
(* Blocks as the code reads them *)

\* query_blocks for an ICRC-3 ledger keeps transfers only, leaves the spender
\* out, and reads no receiver from a `to' array of length one, which is how a
\* ledger writes the default subaccount, index 0 of the canister.
AsPolled(t, b) ==
  IF t = ICP THEN b
  ELSE [b EXCEPT !.op = IF b.op = "transfer" THEN "transfer" ELSE "none",
                 !.to = IF b.to = 0 THEN NoAccount ELSE b.to,
                 !.spender = NoAccount]

\* icrc3_block_to_block differs: a `to' array of length one is the default
\* subaccount.
AsArchived(t, b) ==
  IF t = ICP THEN b
  ELSE [b EXCEPT !.op = IF b.op = "transfer" THEN "transfer" ELSE "none",
                 !.spender = NoAccount]

\* includes_hash
Includes(a) == a \in 0 .. (nonce - 1)

\* The accounts each operation is tested for.
MatchesSubaccount(b) ==
  \/ b.op \in {"approve", "burn"} /\ (Includes(b.from) \/ Includes(b.spender))
  \/ b.op = "mint"                /\ Includes(b.to)
  \/ b.op = "transfer"            /\ (Includes(b.to) \/ Includes(b.spender))

\* hash_transaction reaches unreachable! for anything but a transfer.
HashTraps(b) == b.op # "transfer"

Deposit(t, i) == [token |-> t, pos |-> i]

\* A transfer to an address that had been handed out when it was made.
IsDeposit(b) == b.op = "transfer" /\ b.to \in 0 .. (b.issued - 1)

-----------------------------------------------------------------------------
(* Polls *)

Phases == {"idle", "asked", "answered", "webhook"}

\* next is next_block while the ledger is asked and block_count, the value
\* query_token_ledger will return, while the webhook is; lo .. hi are the
\* ledger positions of the blocks in the answer.
Poll == [phase : Phases, next : Nat, lo : Nat, hi : Nat]

Idle       == [phase |-> "idle",  next |-> 0, lo |-> 1, hi |-> 0]
Asked(n)   == [phase |-> "asked", next |-> n, lo |-> 1, hi |-> 0]
Calling(n) == [phase |-> "webhook", next |-> n, lo |-> 1, hi |-> 0]
Answered(n, l, h) == [phase |-> "answered", next |-> n, lo |-> l, hi |-> h]

Blocks(p) == p.lo .. p.hi

\* Mutants: the cursor moves by the length asked for; the count goes to the last
\* block instead of the next.
BlockCountAsked(p) == p.next + BatchLen
BlockCountLast(p)  == p.next + (p.hi - p.lo)

BlockCount(p) == IF p.lo <= p.hi THEN p.next + (p.hi - p.lo + 1) ELSE p.next

\* The key a block of the answer is stored under: block_count when it is its
\* turn.
Key(p, i) == p.next + (i - p.lo)

\* The tokens a cycle polls: ICP falls back to the ledger given to init.
Polled == registered \cup {ICP}

TypeOK ==
  /\ log \in [Tokens -> Seq(LogBlock)]
  /\ archived \in [Tokens -> Nat]
  /\ \A t \in Tokens : archived[t] <= Len(log[t])
  /\ nonce \in 0 .. MaxNonce
  /\ registered \subseteq Tokens
  /\ nextBlock \in [Tokens -> Nat \ {0}]
  /\ legacyNext \in Nat \ {0}
  /\ DOMAIN txs \subseteq Nat \ {0}
  /\ \A k \in DOMAIN txs : txs[k] \in [token : Tokens, pos : Nat]
  /\ webhookSet \in BOOLEAN
  /\ polls \in [Cycles -> [Tokens -> Poll]]
  /\ rejects \in Nat /\ ops \in Nat
  /\ cleared \subseteq [token : Tokens, pos : Nat]
  /\ skipped \subseteq [token : Tokens, pos : Nat]
  /\ shadowed \subseteq [token : Tokens, pos : Nat]
  /\ notified \subseteq [token : Tokens, pos : Nat]

-----------------------------------------------------------------------------
(* Installation: init *)

Init ==
  /\ log = [t \in Tokens |-> <<>>]
  /\ archived = [t \in Tokens |-> 0]
  /\ nonce = InitialNonce
  /\ registered = {}
  /\ nextBlock = [t \in Tokens |-> 1]
  /\ legacyNext = 1
  /\ txs = <<>>
  /\ webhookSet = FALSE
  /\ polls = [c \in Cycles |-> [t \in Tokens |-> Idle]]
  /\ rejects = 0 /\ ops = 0
  /\ cleared = {} /\ skipped = {} /\ shadowed = {} /\ notified = {}

-----------------------------------------------------------------------------
(* The ledgers *)

LedgerAppend(t, b) ==
  /\ Len(log[t]) < MaxLog
  /\ log' = [log EXCEPT ![t] = Append(@,
        [op |-> b.op, from |-> b.from, to |-> b.to, spender |-> b.spender,
         issued |-> nonce])]
  /\ UNCHANGED <<archived, config, cursors, txs, polls, bounds, history>>

LedgerArchive(t) ==
  /\ archived[t] < Len(log[t]) /\ archived[t] < MaxArchived
  /\ archived' = [archived EXCEPT ![t] = @ + 1]
  /\ UNCHANGED <<log, config, cursors, txs, polls, bounds, history>>

\* The ledger answers with the part of the range asked for that it still
\* holds, which starts later than asked if the start is archived.
AnswerOk(c, t) ==
  LET p  == polls[c][t]
      lo == IF p.next <= archived[t] THEN archived[t] + 1 ELSE p.next
      hi == IF p.next + BatchLen - 1 <= Len(log[t])
              THEN p.next + BatchLen - 1 ELSE Len(log[t])
  IN /\ p.phase = "asked"
     /\ polls' = [polls EXCEPT ![c][t] =
                    IF lo <= hi THEN Answered(p.next, lo, hi)
                                ELSE Answered(p.next, 1, 0)]
     /\ UNCHANGED <<external, config, cursors, txs, bounds, history>>

\* A rejected call: query_token_ledger returns next_block as it was given,
\* which is what it does with an answer without blocks.
AnswerReject(c, t) ==
  /\ polls[c][t].phase = "asked"
  /\ rejects < MaxRejects
  /\ polls' = [polls EXCEPT ![c][t] = Answered(@.next, 1, 0)]
  /\ rejects' = rejects + 1
  /\ UNCHANGED <<external, config, cursors, txs, ops, history>>

-----------------------------------------------------------------------------
(* The polling cycle *)

\* Mutant: all tokens share the single NEXT_BLOCK counter.
TickLegacy(c) ==
  /\ \A t \in Tokens : polls[c][t] = Idle
  /\ polls' = [polls EXCEPT ![c] =
       [t \in Tokens |-> IF t \in Polled THEN Asked(legacyNext) ELSE Idle]]
  /\ UNCHANGED <<external, config, cursors, txs, bounds, history>>

\* call_query_blocks, up to the first await of each poll.
Tick(c) ==
  /\ \A t \in Tokens : polls[c][t] = Idle
  /\ polls' = [polls EXCEPT ![c] =
       [t \in Tokens |-> IF t \in Polled THEN Asked(nextBlock[t]) ELSE Idle]]
  /\ UNCHANGED <<external, config, cursors, txs, bounds, history>>

\* The end of a poll, in call_query_blocks.
Finish(c, t, n) ==
  /\ nextBlock' = [nextBlock EXCEPT ![t] = n]
  /\ legacyNext' = IF t = ICP THEN n ELSE legacyNext
  /\ polls' = [polls EXCEPT ![c][t] = Idle]

Matched(t, p) ==
  {i \in Blocks(p) : MatchesSubaccount(AsPolled(t, log[t][i]))}

\* Mutant: hash_transaction returns an error where it traps.
NeverTraps(t, p) == FALSE

Traps(t, p) == \E i \in Matched(t, p) : HashTraps(AsPolled(t, log[t][i]))

\* Mutant: no contains_key test before the webhook hash is kept.
FreshUnchecked(t, p) == Matched(t, p)

\* contains_key: only a free key is written.
Fresh(t, p) == {i \in Matched(t, p) : Key(p, i) \notin DOMAIN txs}

\* Mutants: the key is the count after the block; a taken key is overwritten.
StoredShifted(t, p) ==
  [k \in DOMAIN txs \cup {Key(p, i) + 1 : i \in Fresh(t, p)} |->
     IF k \in DOMAIN txs THEN txs[k] ELSE Deposit(t, p.lo + (k - 1 - p.next))]
StoredOver(t, p) ==
  [k \in DOMAIN txs \cup {Key(p, i) : i \in Matched(t, p)} |->
     IF k \in {Key(p, i) : i \in Matched(t, p)}
       THEN Deposit(t, p.lo + (k - p.next)) ELSE txs[k]]

Stored(t, p) ==
  [k \in DOMAIN txs \cup {Key(p, i) : i \in Fresh(t, p)} |->
     IF k \in DOMAIN txs THEN txs[k] ELSE Deposit(t, p.lo + (k - p.next))]

Shadows(t, p) ==
  {Deposit(t, i) : i \in {j \in Matched(t, p) :
     /\ Key(p, j) \in DOMAIN txs
     /\ txs[Key(p, j)] # Deposit(t, j)}}

\* The blocks of an answer are stored; without a webhook to call the poll
\* ends in the same message.
StoreBatch(c, t) ==
  LET p == polls[c][t]
  IN /\ p.phase = "answered"
     /\ ~ Traps(t, p)
     /\ ~ (webhookSet /\ Fresh(t, p) # {})
     /\ txs' = Stored(t, p)
     /\ shadowed' = shadowed \cup Shadows(t, p)
     /\ Finish(c, t, BlockCount(p))
     /\ UNCHANGED <<external, config, bounds, cleared, skipped, notified>>

\* With a webhook the hash of the first new transaction is sent before the
\* cursor moves.
StoreAndNotify(c, t) ==
  LET p == polls[c][t]
  IN /\ p.phase = "answered"
     /\ ~ Traps(t, p)
     /\ webhookSet /\ Fresh(t, p) # {}
     /\ txs' = Stored(t, p)
     /\ shadowed' = shadowed \cup Shadows(t, p)
     /\ notified' = notified \cup
          {Deposit(t, i) : i \in {j \in Fresh(t, p) : \A k \in Fresh(t, p) : j <= k}}
     /\ polls' = [polls EXCEPT ![c][t] = Calling(BlockCount(p))]
     /\ UNCHANGED <<external, config, cursors, bounds, cleared, skipped>>

\* The trap of hash_transaction undoes the message and drops the poll.
TrapOnBatch(c, t) ==
  /\ polls[c][t].phase = "answered"
  /\ Traps(t, polls[c][t])
  /\ polls' = [polls EXCEPT ![c][t] = Idle]
  /\ UNCHANGED <<external, config, cursors, txs, bounds, history>>

\* The HTTP outcall ends, well or badly.
WebhookReply(c, t) ==
  /\ polls[c][t].phase = "webhook"
  /\ Finish(c, t, polls[c][t].next)
  /\ UNCHANGED <<external, config, txs, bounds, history>>

-----------------------------------------------------------------------------
(* The operator's calls *)

AddSubaccount ==
  /\ nonce < MaxNonce
  /\ nonce' = nonce + 1
  /\ UNCHANGED <<external, registered, webhookSet, cursors, txs, polls, bounds,
                 history>>

RegisterToken(t) ==
  /\ registered' = registered \cup {t}
  /\ UNCHANGED <<external, nonce, webhookSet, cursors, txs, polls, bounds, history>>

SetWebhookUrl ==
  /\ webhookSet' = TRUE
  /\ UNCHANGED <<external, nonce, registered, cursors, txs, polls, bounds, history>>

SetTokenNextBlock(t, b) ==
  /\ ops < MaxOps
  /\ ops' = ops + 1
  /\ nextBlock' = [nextBlock EXCEPT ![t] = b]
  /\ skipped' = skipped \cup {Deposit(t, i) : i \in nextBlock[t] .. (b - 1)}
  /\ UNCHANGED <<external, config, legacyNext, txs, polls, rejects, cleared,
                 shadowed, notified>>

ResetTokenBlocks ==
  /\ ops < MaxOps
  /\ ops' = ops + 1
  /\ nextBlock' = [t \in Tokens |-> 1]
  /\ UNCHANGED <<external, config, legacyNext, txs, polls, rejects, history>>

SetNextBlock(b) ==
  /\ ops < MaxOps
  /\ ops' = ops + 1
  /\ legacyNext' = b
  /\ UNCHANGED <<external, config, nextBlock, txs, polls, rejects, history>>

\* Timestamps are not modelled: `older' are the records up_to_timestamp covers.
ClearTransactions(upTo, older) ==
  LET gone == {k \in DOMAIN txs : k <= upTo \/ k \in older}
  IN /\ ops < MaxOps /\ gone # {}
     /\ ops' = ops + 1
     /\ txs' = [k \in DOMAIN txs \ gone |-> txs[k]]
     /\ cleared' = cleared \cup {txs[k] : k \in gone}
     /\ UNCHANGED <<external, config, cursors, polls, rejects, skipped, shadowed,
                    notified>>

\* process_token_archived_block reads nothing before its awaits, so it is the
\* step in which the block has arrived.  It fetches block i itself and the key
\* is i; when it finds nothing to store, or traps, it changes nothing.
ProcessTokenArchivedBlock(t, i) ==
  /\ i \in 1 .. Len(log[t])
  /\ MatchesSubaccount(AsArchived(t, log[t][i]))
  /\ ~ HashTraps(AsArchived(t, log[t][i]))
  /\ txs' = [k \in DOMAIN txs \cup {i} |->
               IF k \in DOMAIN txs THEN txs[k] ELSE Deposit(t, i)]
  /\ shadowed' = IF i \in DOMAIN txs /\ txs[i] # Deposit(t, i)
                   THEN shadowed \cup {Deposit(t, i)} ELSE shadowed
  /\ UNCHANGED <<external, config, cursors, polls, bounds, cleared, skipped, notified>>

-----------------------------------------------------------------------------
(* The specification *)

Ledgers ==
  \E t \in Tokens :
    \/ \E b \in BlockKinds[t] : LedgerAppend(t, b)
    \/ LedgerArchive(t)

PollStep(c, t) ==
  \/ AnswerOk(c, t)
  \/ AnswerReject(c, t)
  \/ StoreBatch(c, t)
  \/ StoreAndNotify(c, t)
  \/ TrapOnBatch(c, t)
  \/ WebhookReply(c, t)

Operator ==
  \/ AddSubaccount
  \/ SetWebhookUrl
  \/ ResetTokenBlocks
  \/ \E t \in Tokens : RegisterToken(t)
  \/ \E t \in Tokens, b \in 1 .. (MaxLog + 1) : SetTokenNextBlock(t, b)
  \/ \E b \in 1 .. (MaxLog + 1) : SetNextBlock(b)
  \/ \E upTo \in 0 .. MaxLog, older \in SUBSET DOMAIN txs :
       ClearTransactions(upTo, older)
  \/ \E t \in Tokens, i \in 1 .. MaxLog : ProcessTokenArchivedBlock(t, i)

Next ==
  \/ Ledgers
  \/ \E c \in Cycles : Tick(c)
  \/ \E c \in Cycles, t \in Tokens : PollStep(c, t)
  \/ Operator

Spec == Init /\ [][Next]_vars

\* The interval timer keeps firing, every inter-canister call and HTTP outcall
\* gets a response, and a response is processed.  Nothing is assumed of users
\* and operators.
Fairness ==
  \A c \in Cycles :
    /\ WF_vars(Tick(c))
    /\ \A t \in Tokens :
         /\ WF_vars(AnswerOk(c, t))
         /\ WF_vars(StoreBatch(c, t) \/ StoreAndNotify(c, t) \/ TrapOnBatch(c, t))
         /\ WF_vars(WebhookReply(c, t))

FairSpec == Spec /\ Fairness

-----------------------------------------------------------------------------
(* Properties *)

\* The deposit is in TRANSACTIONS, under whatever key.
Indexed(t, i) == \E k \in DOMAIN txs : txs[k] = Deposit(t, i)

\* The deposit is indexed, or there is a reason it is not: an operator cleared
\* it or moved the cursor over it, or its key belonged to another deposit.
Accounted(t, i) == Indexed(t, i) \/ Deposit(t, i) \in cleared \cup skipped \cup shadowed

\* A deposit the polling path can read (see AsPolled).
PollSees(t, b) ==
  AsPolled(t, b).op = "transfer" /\ AsPolled(t, b).to \in 0 .. (b.issued - 1)

(* A deposit the cursor has passed is accounted for, whatever polls overlap,
   are rejected, trap, wait for the webhook or write an old cursor back, and
   whatever an operator does meanwhile; an archived block is exempt (the code
   leaves it to process_token_archived_block).  query_token_ledger,
   call_query_blocks. *)
NoDepositLost ==
  \A t \in Tokens : \A i \in 1 .. Len(log[t]) :
    (archived[t] < i /\ i < nextBlock[t] /\ PollSees(t, log[t][i]))
      => Accounted(t, i)

(* What TRANSACTIONS holds is a transfer that is on the ledger of the token it
   is filed under and concerns a subaccount handed out, under a key that is
   never past the block: sweeping relies on all of it.  That there is one record
   of it is not said: where blocks are archived there may be two (lib.rs:962). *)
RecordsAreLedgerTransfers ==
  \A k \in DOMAIN txs :
    LET t == txs[k].token
        i == txs[k].pos
    IN /\ i \in 1 .. Len(log[t]) /\ k <= i
       /\ log[t][i].op = "transfer"
       /\ MatchesSubaccount(AsArchived(t, log[t][i]))

(* While no ledger has archived blocks the key is the index of the block, so
   that overlapping polls, rewinds and the archive path cannot file a deposit
   twice. *)
KeyIsBlockIndex == \A k \in DOMAIN txs : txs[k].pos = k

(* Of two deposits that want one key, of two ledgers whose polls are out, or of
   one ledger once it has archived the start of a range, the first that is
   answered keeps it: the contains_key test is made of TRANSACTIONS as it is
   when the answer comes, so no poll and no look-up ever puts another deposit in
   a record's place.  A record leaves with clear_transactions only. *)
RecordsAreStable ==
  [][\A k \in DOMAIN txs :
       IF k \in DOMAIN txs' THEN txs'[k] = txs[k] ELSE txs[k] \in cleared']_vars

(* A hash goes to the webhook once, unless the record was cleared and found
   again, and only when the record is in the store in the same step: two
   overlapping polls of a range do not both announce it. *)
NotifiedOnce ==
  [][\A c \in Cycles, t \in Tokens :
       (polls[c][t].phase = "answered" /\ polls'[c][t].phase = "webhook") =>
         \E i \in Blocks(polls[c][t]) :
           /\ Indexed(t, i)' /\ ~ Indexed(t, i)
           /\ Deposit(t, i) \in notified'
           /\ Deposit(t, i) \in notified => Deposit(t, i) \in cleared]_vars

(* A deposit on a polled ledger is accounted for in the end, with overlapping
   cycles that may rewind the cursor under each other, as long as calls are
   rejected and cursors set by hand only finitely often and nothing is
   archived. *)
DepositsEventuallyIndexed ==
  \A t \in Tokens, i \in 1 .. MaxLog :
    (t \in Polled /\ i <= Len(log[t]) /\ PollSees(t, log[t][i])) ~> Accounted(t, i)

\* What has become of a position, as DepositBook sees it.
FateOf(d) ==
  CASE Indexed(d.token, d.pos) -> "filed"
    [] ~ Indexed(d.token, d.pos) /\ d \in cleared \cup skipped \cup shadowed -> "excused"
    [] OTHER -> "unseen"

Positions == [token : Tokens, pos : 1 .. MaxLog]

PassedDeposits ==
  {d \in Positions : /\ d.pos <= Len(log[d.token]) /\ archived[d.token] < d.pos
                     /\ d.pos < nextBlock[d.token] /\ PollSees(d.token, log[d.token][d.pos])}

Book == INSTANCE DepositBook WITH
  Deposits <- Positions, fate <- [d \in Positions |-> FateOf(d)],
  announced <- notified, passed <- PassedDeposits

(* The indexer keeps the promise of DepositBook: what it has seen stays filed
   or excused, it announces what it has filed, and its cursors, late polls that
   write old ones back included, pass nothing unseen.  A deposit is filed
   whether it has one record or two. *)
BookKept == Book!Spec

(* "Track incoming token transfers (ICP, ckUSDC, ckUSDT, ckBTC) into created
   sub-account-ids" (README.md:18): every deposit below a cursor, in whatever
   form its ledger writes it and whatever the other tokens do. *)
EveryDepositIndexed ==
  \A t \in Tokens : \A i \in 1 .. Len(log[t]) :
    (archived[t] < i /\ i < nextBlock[t] /\ IsDeposit(log[t][i]))
      => Indexed(t, i) \/ Deposit(t, i) \in cleared \cup skipped
=============================================================================
