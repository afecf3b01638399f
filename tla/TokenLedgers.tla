----------------------------- MODULE TokenLedgers -----------------------------
(***************************************************************************)
(* Which ledger the canister asks, while register_token moves token types  *)
(* from one ledger to another.                                             *)
(*                                                                         *)
(* A type has one cursor and one entry in TOKEN_LEDGER_PRINCIPALS, which   *)
(* the polls, the archive look-ups and the sweeps read at different        *)
(* moments: a poll and a look-up keep the ledger they asked, a sweep reads *)
(* the entry again before each of its transfers, and ICP has two fallbacks *)
(* (the ledger given to init, and the one in the code).                    *)
(*                                                                         *)
(* How a block is recognised as a deposit, what the webhook does to a poll *)
(* and the clearing of records are in module BlockIndexer; refunds,        *)
(* amounts and overlapping sweeps in Sweeping.                             *)
(***************************************************************************)
EXTENDS Integers

CONSTANTS
  Tokens,      \* the token types
  ICP,         \* the type that is polled whether or not it is registered
  Ledgers,     \* the ledger canisters
  ICPLedgers,  \* those with the methods query_blocks and transfer
  InitLedger,  \* PRINCIPAL, the ledger given to init
  BuiltIn,     \* BuiltIn[t]: the principal in the code, MAINNET_LEDGER_CANISTER_ID &c.
  Registrable, \* Registrable[t]: the ledgers the custodian may register t with
  BatchLen,    \* blocks asked for in one call (100 in the code)
  Cycles,      \* polling cycles that may overlap
  Deposits,    \* Deposits[l]: the blocks of l that credit a subaccount
  MaxHeight,   \* bound: blocks per ledger
  Size         \* bound: Size[l]: the blocks l gets, MaxHeight at most

ASSUME ConstantsOK ==
  /\ ICP \in Tokens
  /\ ICPLedgers \subseteq Ledgers
  /\ InitLedger \in ICPLedgers
  /\ BuiltIn \in [Tokens -> Ledgers] /\ BuiltIn[ICP] \in ICPLedgers
  /\ \A t \in Tokens : Registrable[t] \subseteq Ledgers
  /\ BatchLen \in Nat \ {0}
  /\ \A l \in Ledgers : Deposits[l] \subseteq Nat \ {0}
  /\ MaxHeight \in Nat /\ Size \in [Ledgers -> 0 .. MaxHeight]

VARIABLES
  height,     \* external: the blocks of each ledger (block 0 left out)
  registered, \* TOKEN_LEDGER_PRINCIPALS: token -> ledger
  nextBlock,  \* TOKEN_NEXT_BLOCKS
  txs,        \* TRANSACTIONS: block index -> [token, ledger, status]
  polls,      \* polls[c][t]: the call of query_token_ledger for t in cycle c
  lookup,     \* a call of process_token_archived_block
  sweep,      \* a call of sweep or sweep_by_token_type
  reached,    \* history: reached[t][l]: the cursor after the last block l gave to t
  paid,       \* history: transfers made, and at which ledger
  mixed       \* history: types that were moved while something of theirs was around

calls   == <<polls, lookup, sweep>>
history == <<reached, paid, mixed>>
vars    == <<height, registered, nextBlock, txs, calls, history>>

-----------------------------------------------------------------------------
(* Who is asked *)

\* Mutant: the principal in the code, as sweep_subaccount has it.
LedgerInCode(t) == BuiltIn[t]

\* get_token_ledger_canister_id.
LedgerOf(t) == IF t \in DOMAIN registered THEN registered[t] ELSE BuiltIn[t]

\* call_query_blocks falls back to PRINCIPAL, for ICP only.
Polled == DOMAIN registered \cup {ICP}

PollLedger(t) == IF t \in DOMAIN registered THEN registered[t] ELSE InitLedger

\* process_archived_block asks PRINCIPAL for ICP, registered or not.
LookupLedger(t) == IF t = ICP THEN InitLedger ELSE LedgerOf(t)

\* query_blocks speaks icrc3_get_blocks to the three ICRC ledgers in the code
\* and query_blocks to every other ledger, which only an ICP ledger has.
Readable(l) == l \in ICPLedgers \cup {BuiltIn[t] : t \in Tokens \ {ICP}}

\* For a record of type ICP a sweep calls `transfer', for others icrc1_transfer,
\* which an ICP ledger has too.
HasTransfer(t, l) == t = ICP => l \in ICPLedgers

-----------------------------------------------------------------------------
(* State *)

Indices == 1 .. MaxHeight

Poll == [asked : BOOLEAN, ledger : Ledgers, next : 1 .. (MaxHeight + 1)]

Idle == [asked |-> FALSE, ledger |-> InitLedger, next |-> 1]

Lookup == [asked : BOOLEAN, token : Tokens, ledger : Ledgers, index : 0 .. MaxHeight]

NoLookup == [asked |-> FALSE, token |-> ICP, ledger |-> InitLedger, index |-> 0]

\* A copy of a record, which knows its index.
Copy == [index : Indices, token : Tokens, ledger : Ledgers]

\* The copies that are left, and the ledger asked on account of the first.
SweepCall == [todo : SUBSET Copy, ledger : Ledgers]

NoSweep == [todo |-> {}, ledger |-> InitLedger]

Statuses == {"NotSwept", "Swept", "FailedToSweep"}

TypeOK ==
  /\ height \in [Ledgers -> 0 .. MaxHeight]
  /\ DOMAIN registered \subseteq Tokens
  /\ \A t \in DOMAIN registered : registered[t] \in Ledgers
  /\ nextBlock \in [Tokens -> 1 .. (MaxHeight + 1)]
  /\ DOMAIN txs \subseteq Indices
  /\ \A k \in DOMAIN txs : txs[k] \in [token : Tokens, ledger : Ledgers, status : Statuses]
  /\ polls \in [Cycles -> [Tokens -> Poll]]
  /\ lookup \in Lookup
  /\ sweep \in SweepCall
  /\ reached \in [Tokens -> [Ledgers -> 1 .. (MaxHeight + 1)]]
  /\ paid \subseteq [copy : Copy, at : Ledgers]
  /\ mixed \subseteq Tokens

Init ==
  /\ height = [l \in Ledgers |-> 0]
  /\ registered = <<>>
  /\ nextBlock = [t \in Tokens |-> 1]
  /\ txs = <<>>
  /\ polls = [c \in Cycles |-> [t \in Tokens |-> Idle]]
  /\ lookup = NoLookup
  /\ sweep = NoSweep
  /\ reached = [t \in Tokens |-> [l \in Ledgers |-> 1]]
  /\ paid = {}
  /\ mixed = {t \in {ICP} : InitLedger # BuiltIn[t]}

-----------------------------------------------------------------------------
(* Ledgers and registrations *)

Arrive(l) ==
  /\ height[l] < Size[l]
  /\ height' = [height EXCEPT ![l] = @ + 1]
  /\ UNCHANGED <<registered, nextBlock, txs, calls, history>>

\* Nothing of type t has been found, asked or copied.
Untouched(t) ==
  /\ \A k \in DOMAIN txs : txs[k].token # t
  /\ \A c \in Cycles : ~ polls[c][t].asked
  /\ lookup.asked => lookup.token # t
  /\ \A r \in sweep.todo : r.token # t

\* The entry is replaced and nothing else: the cursor stays.
RegisterToken(t, l) ==
  /\ registered' = [u \in DOMAIN registered \cup {t} |->
                      IF u = t THEN l ELSE registered[u]]
  /\ mixed' = IF l = LedgerOf(t) THEN mixed
              ELSE IF Untouched(t) /\ (t = ICP => l = InitLedger) THEN mixed \ {t}
              ELSE mixed \cup {t}
  /\ UNCHANGED <<height, nextBlock, txs, calls, reached, paid>>

ResetTokenBlocks ==
  /\ nextBlock' = [t \in Tokens |-> 1]
  /\ UNCHANGED <<height, registered, txs, calls, history>>

-----------------------------------------------------------------------------
(* Polls *)

\* call_query_blocks takes the ledger and the cursor of each type before it
\* awaits anything.
Tick(c) ==
  /\ \A t \in Tokens : ~ polls[c][t].asked
  /\ polls' = [polls EXCEPT ![c] = [t \in Tokens |->
       IF t \in Polled
         THEN [asked |-> TRUE, ledger |-> PollLedger(t), next |-> nextBlock[t]]
         ELSE Idle]]
  /\ UNCHANGED <<height, registered, nextBlock, txs, lookup, sweep, history>>

\* Mutant: the entry is read again when the answer is filed.
LedgerNow(t, p) == PollLedger(t)

\* The ledger that goes into the records of an answer.
LedgerOfAnswer(t, p) == p.ledger

\* What a free key gets; a taken one keeps what it has (contains_key).
Filed(t, l, keys) ==
  [k \in DOMAIN txs \cup keys |->
     IF k \in DOMAIN txs THEN txs[k]
     ELSE [token |-> t, ledger |-> l, status |-> "NotSwept"]]

\* The last block of an answer, and its blocks: BatchLen of them at most.
Last(p) ==
  IF p.next + BatchLen - 1 <= height[p.ledger]
    THEN p.next + BatchLen - 1 ELSE height[p.ledger]

Answer(p) == p.next .. Last(p)

\* Mutants: the cursor moves by the length asked for, as far as there is one;
\* it goes to the last block of the answer.
CountAsked(p) ==
  IF p.next + BatchLen <= MaxHeight THEN p.next + BatchLen ELSE MaxHeight + 1
CountLast(p)  == IF p.next <= Last(p) THEN Last(p) ELSE p.next - 1

\* block_count: the first index past the answer.
BlockCount(p) == IF p.next <= Last(p) THEN Last(p) + 1 ELSE p.next

PollAnswered(c, t) ==
  LET p == polls[c][t]
  IN /\ p.asked /\ Readable(p.ledger)
     /\ txs' = Filed(t, LedgerOfAnswer(t, p), Answer(p) \cap Deposits[p.ledger])
     /\ nextBlock' = [nextBlock EXCEPT ![t] = BlockCount(p)]
     /\ polls' = [polls EXCEPT ![c][t] = Idle]
     /\ reached' = IF p.next <= Last(p) /\ reached[t][p.ledger] < BlockCount(p)
                     THEN [reached EXCEPT ![t][p.ledger] = BlockCount(p)] ELSE reached
     /\ UNCHANGED <<height, registered, lookup, sweep, paid, mixed>>

\* The cursor the poll started from is written back.
PollRejected(c, t) ==
  /\ polls[c][t].asked
  /\ nextBlock' = [nextBlock EXCEPT ![t] = polls[c][t].next]
  /\ polls' = [polls EXCEPT ![c][t] = Idle]
  /\ UNCHANGED <<height, registered, txs, lookup, sweep, history>>

-----------------------------------------------------------------------------
(* Archive look-ups *)

LookUp(t, i) ==
  /\ ~ lookup.asked
  /\ lookup' = [asked |-> TRUE, token |-> t, ledger |-> LookupLedger(t), index |-> i]
  /\ UNCHANGED <<height, registered, nextBlock, txs, polls, sweep, history>>

Found ==
  /\ lookup.asked /\ lookup.index <= height[lookup.ledger]
  /\ lookup.index \in Deposits[lookup.ledger]
  /\ txs' = Filed(lookup.token, lookup.ledger, {lookup.index})
  /\ lookup' = NoLookup
  /\ UNCHANGED <<height, registered, nextBlock, polls, sweep, history>>

NotFound ==
  /\ lookup.asked
  /\ lookup' = NoLookup
  /\ UNCHANGED <<height, registered, nextBlock, txs, polls, sweep, history>>

-----------------------------------------------------------------------------
(* Sweeps *)

First(S) == CHOOSE r \in S : \A q \in S : r.index <= q.index

\* The transfer of the first copy goes to the ledger that is now its type's.
Proceed(S) ==
  IF S = {} THEN NoSweep ELSE [todo |-> S, ledger |-> LedgerOf(First(S).token)]

\* sweep takes every type, sweep_by_token_type one.
Sweep(T) ==
  /\ sweep = NoSweep
  /\ sweep' = Proceed({[index |-> k, token |-> txs[k].token, ledger |-> txs[k].ledger] :
                         k \in {j \in DOMAIN txs : /\ txs[j].status = "NotSwept"
                                                   /\ txs[j].token \in T}})
  /\ UNCHANGED <<height, registered, nextBlock, txs, polls, lookup, history>>

\* update_status, and the next record.
Marked(r, status) == [txs EXCEPT ![r.index].status = status]

\* A subaccount has one name on all ledgers, and may hold funds on any that has
\* a deposit.
CanPay(l) == \E i \in Deposits[l] : i <= height[l]

Transferred ==
  LET r == First(sweep.todo)
  IN /\ sweep.todo # {}
     /\ HasTransfer(r.token, sweep.ledger) /\ CanPay(sweep.ledger)
     /\ txs' = Marked(r, "Swept")
     /\ paid' = paid \cup {[copy |-> r, at |-> sweep.ledger]}
     /\ sweep' = Proceed(sweep.todo \ {r})
     /\ UNCHANGED <<height, registered, nextBlock, polls, lookup, reached, mixed>>

Refused ==
  LET r == First(sweep.todo)
  IN /\ sweep.todo # {}
     /\ txs' = Marked(r, "FailedToSweep")
     /\ sweep' = Proceed(sweep.todo \ {r})
     /\ UNCHANGED <<height, registered, nextBlock, polls, lookup, history>>

-----------------------------------------------------------------------------
(* The specification *)

Indexer ==
  \/ \E c \in Cycles : Tick(c)
  \/ \E c \in Cycles, t \in Tokens : PollAnswered(c, t) \/ PollRejected(c, t)
  \/ Found \/ NotFound

Custodian ==
  \/ \E t \in Tokens : \E l \in Registrable[t] : RegisterToken(t, l)
  \/ ResetTokenBlocks
  \/ \E t \in Tokens, i \in Indices : LookUp(t, i)
  \/ Sweep(Tokens)
  \/ \E t \in Tokens : Sweep({t})

Next ==
  \/ \E l \in Ledgers : Arrive(l)
  \/ Indexer
  \/ Custodian
  \/ Transferred \/ Refused

Spec == Init /\ [][Next]_vars

-----------------------------------------------------------------------------
(* Properties *)

(* The ledger a record names has a deposit at its index, also when the poll or
   look-up that found it was out while its type was moved. *)
RecordsNameTheirLedger ==
  \A k \in DOMAIN txs : k <= height[txs[k].ledger] /\ k \in Deposits[txs[k].ledger]

(* A deposit that is reported as swept was paid on the ledger it was found on:
   so it is for a type that register_token was not applied to, or only before
   anything of the type was found or asked for, whatever becomes of the other
   types meanwhile.  For ICP the ledger must be the one given to init. *)
PaidWhereFound ==
  \A k \in DOMAIN txs :
    (txs[k].status = "Swept" /\ txs[k].token \notin mixed) =>
      \E p \in paid : /\ p.copy.index = k /\ p.copy.token = txs[k].token
                      /\ p.copy.ledger = txs[k].ledger /\ p.at = txs[k].ledger

(* The record of a deposit, and a record that has its key though it is of another
   ledger's deposit with the same index: TRANSACTIONS has one key for both. *)
FiledFrom(i, l)  == i \in DOMAIN txs /\ txs[i].ledger = l
Shadowed(i, l)   == \E m \in Ledgers \ {l} : i \in Deposits[m] /\ FiledFrom(i, m)

(* register_token leaves the cursor where the old ledger took it. *)
PassedOnAnother(t, i, l) == \E m \in Ledgers \ {l} : i < reached[t][m]

(* A deposit below the cursor, on the ledger its type is polled at now, has a
   record that names this ledger, unless its key was taken by another ledger's
   deposit or the cursor got past it on another ledger: after a move, or when a poll
   that was out brings the cursor back there after a reset.  Nothing else makes
   the polls pass over a deposit. *)
MissedOnlyByMove ==
  \A t \in Polled : \A i \in Deposits[PollLedger(t)] \cap Indices :
    (i <= height[PollLedger(t)] /\ i < nextBlock[t]) =>
      \/ FiledFrom(i, PollLedger(t)) \/ Shadowed(i, PollLedger(t))
      \/ PassedOnAnother(t, i, PollLedger(t))
===============================================================================
